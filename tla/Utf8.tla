-------------------------------- MODULE Utf8 --------------------------------
(***************************************************************************)
(* The loop that decides which user names are text.  The code has it three *)
(* times: for the account names of the configuration, for the user that    *)
(* sshd asks about, and for the name an audit event may carry.  Bytes and  *)
(* code points have the values of the code.                                *)
(***************************************************************************)
EXTENDS Integers, Sequences

CONSTANT MaxNameBytes   \* 256 in the code
ASSUME NameBytes == MaxNameBytes \in Nat \ {0}

(* Bytes of the character that starts with this byte; 0 when none does.    *)
LengthFrom(lead) ==
  CASE lead <= 127 -> 1
    [] lead \in 194..223 -> 2
    [] lead \in 224..239 -> 3
    [] lead \in 240..244 -> 4
    [] OTHER -> 0

RECURSIVE Joined(_, _, _)
Joined(bytes, i, value) == IF i > Len(bytes) THEN value
                           ELSE Joined(bytes, i + 1, 64 * value + (bytes[i] % 64))
CodePoint(bytes) ==
  LET n == Len(bytes)
  IN  Joined(bytes, 2, bytes[1] % (IF n = 1 THEN 128 ELSE 2 ^ (7 - n)))
Continued(bytes) == \A i \in 2..Len(bytes) : bytes[i] \in 128..191

IsControl(point) == point <= 31 \/ point \in 127..159
Admitted(point, n) ==
  /\ n = 3 => point >= 2048
  /\ n = 4 => point >= 65536
  /\ point <= 1114111 /\ point \notin 55296..57343
  /\ ~IsControl(point)

RECURSIVE Scans(_)
Scans(bytes) ==
  bytes = <<>> \/
  LET n == LengthFrom(bytes[1])
      first == SubSeq(bytes, 1, n)
  IN  /\ n # 0 /\ n <= Len(bytes)
      /\ Continued(first) /\ Admitted(CodePoint(first), n)
      /\ Scans(SubSeq(bytes, n + 1, Len(bytes)))

valid_requested_user(bytes) == bytes # <<>> /\ Len(bytes) <= MaxNameBytes /\ Scans(bytes)

-----------------------------------------------------------------------------
(* The definition of UTF-8: the shortest bytes of each code point that is  *)
(* no surrogate; control characters are left out.                          *)
Encoding(point) ==
  CASE point \in 0..127 -> << point >>
    [] point \in 128..2047 -> << 192 + point \div 64, 128 + (point % 64) >>
    [] point \in 2048..65535 -> << 224 + point \div 4096, 128 + ((point \div 64) % 64), 128 + (point % 64) >>
    [] point \in 65536..2097151 -> << 240 + point \div 262144, 128 + ((point \div 4096) % 64),
                             128 + ((point \div 64) % 64), 128 + (point % 64) >>
IsCharacter(point) == point \in 32..126 \/ point \in 160..55295 \/ point \in 57344..1114111
RECURSIVE Spells(_)
Spells(bytes) ==
  bytes = <<>> \/
  \E n \in 1..IF Len(bytes) < 4 THEN Len(bytes) ELSE 4 :
    LET point == CodePoint(SubSeq(bytes, 1, n))
    IN  /\ IsCharacter(point) /\ Encoding(point) = SubSeq(bytes, 1, n)
        /\ Spells(SubSeq(bytes, n + 1, Len(bytes)))

(* A name is admitted exactly when it spells characters: no overlong form, *)
(* surrogate, lone continuation or control character gets through to the   *)
(* account lookup, the commands' arguments or the log.                     *)
NameIsExact(bytes) ==
  valid_requested_user(bytes) <=> bytes # <<>> /\ Len(bytes) <= MaxNameBytes /\ Spells(bytes)
=============================================================================
