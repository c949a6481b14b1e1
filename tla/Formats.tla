------------------------------- MODULE Formats -------------------------------
(***************************************************************************)
(* What the program prints or encodes: the version of app_version.h as     *)
(* PrintVersionInfo (main.c) shows it, and the header that makes a bare    *)
(* key a DER bit string (optiga_app.c).                                    *)
(***************************************************************************)
EXTENDS Integers, Sequences

CONSTANTS Versions,     \* major, minor, patch and build, before packing
          KeyLengths    \* lengths of a bare public key

ASSUME FormatAssumption ==
  /\ Versions \subseteq [major : Nat, minor : Nat, patch : Nat, build : Nat]
  /\ \A v \in Versions :
       v.major < 16 /\ v.minor < 16 /\ v.patch < 100 /\ v.build < 10000
  /\ KeyLengths \subseteq 0..125

VARIABLES version, shown,     \* the last version printed, and how
          key, encoded        \* the last length encoded, and its header

formatVars == <<version, shown, key, encoded>>

\* 2^28, 2^24 and 2^16: where the fields begin.
AtMajor == 268435456
AtMinor == 16777216
AtPatch == 65536

APP_VERSION_NUM(v) ==
  v.major * AtMajor + v.minor * AtMinor + v.patch * AtPatch + v.build

vMajor(n) == n \div AtMajor
vMinor(n) == (n \div AtMinor) % 16
vPatch(n) == (n \div AtPatch) % 256
vBuild(n) == n % AtPatch

Mutant_HundredsKept(n) ==
  << <<vMajor(n) \div 10, vMajor(n) % 10>>, <<vMinor(n) \div 10, vMinor(n) % 10>>,
     <<vPatch(n) \div 10, vPatch(n) % 10>>,
     <<vBuild(n) \div 1000, vBuild(n) \div 100,
       (vBuild(n) % 100) \div 10, vBuild(n) % 10>> >>

\* The digits between the dots of tString.
Digits(n) ==
  << <<vMajor(n) \div 10, vMajor(n) % 10>>, <<vMinor(n) \div 10, vMinor(n) % 10>>,
     <<vPatch(n) \div 10, vPatch(n) % 10>>,
     <<vBuild(n) \div 1000, (vBuild(n) % 1000) \div 100,
       (vBuild(n) % 100) \div 10, vBuild(n) % 10>> >>

\* The four octets before the key, and the length that is returned.
EncodeHeader(q_length) ==
  [header |-> <<"BITSTRING", (q_length + 2) % 256, "NUM_UNUSED_BITS", 4>>,
   pub_key_length |-> 4 + q_length]

FormatInit == version = << >> /\ shown = << >> /\ key = << >> /\ encoded = << >>

PrintVersionInfo(v) ==
  /\ version = << >> /\ key = << >>
  /\ version' = v /\ shown' = Digits(APP_VERSION_NUM(v))
  /\ UNCHANGED <<key, encoded>>

EncodePublicKey(n) ==
  /\ version = << >> /\ key = << >>
  /\ key' = <<n>> /\ encoded' = EncodeHeader(n)
  /\ UNCHANGED <<version, shown>>

FormatReturn ==
  /\ version # << >> \/ key # << >>
  /\ version' = << >> /\ shown' = << >> /\ key' = << >> /\ encoded' = << >>

FormatNext == \/ \E v \in Versions : PrintVersionInfo(v)
              \/ \E n \in KeyLengths : EncodePublicKey(n)
              \/ FormatReturn

FormatSpec == FormatInit /\ [][FormatNext]_formatVars

----------------------------------------------------------------------------
(* Correctness. *)

\* What is read from two digits, and from four.
Number2(d) == 10 * d[1] + d[2]
Number4(d) == 1000 * d[1] + 100 * d[2] + 10 * d[3] + d[4]

\* The version printed is the one app_version.h packs, for every version whose
\* fields fit the digits they get, each digit being one; and the length octet
\* of an encoded key counts what follows it.
FormatsTrue ==
  /\ shown # << >> =>
       /\ \A f \in 1..4 : \A d \in DOMAIN shown[f] : shown[f][d] \in 0..9
       /\ version = [major |-> Number2(shown[1]), minor |-> Number2(shown[2]),
                     patch |-> Number2(shown[3]), build |-> Number4(shown[4])]
  /\ key # << >> => encoded.header[2] = encoded.pub_key_length - 2
=============================================================================
