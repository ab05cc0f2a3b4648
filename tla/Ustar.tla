------------------------------- MODULE Ustar -------------------------------
(***************************************************************************)
(* lib/ustar.c: composing and parsing the header of an archive member.  A  *)
(* header is the sequence of its bytes with shorter fields: name, size,    *)
(* chksum, typeflag and one byte of magic; the mode, owner, time and       *)
(* version fields are constants in the code and left out.                  *)
(***************************************************************************)
EXTENDS Integers, Sequences, SequencesExt

CONSTANTS NameMax,      \* the 99 characters of a name
          Digits,       \* the 11 octal digits of a size
          INT_MAX, ULONG_MAX,
          NameLen,      \* bound on the file names tried
          SizesTried    \* the sizes tried

VARIABLE call           \* the member to be archived, or what became of it

Slash == 47
Dot == 46
Letter == 97
ChkDigits == 4
Magic == 117
REGULAR == 48
DIRECTORY == 53

NameField == 1 .. NameMax + 1
SizeField == NameMax + 2 .. NameMax + Digits + 2
ChkField == NameMax + Digits + 3 .. NameMax + Digits + ChkDigits + 3
TypeByte == NameMax + Digits + ChkDigits + 4
MagicByte == TypeByte + 1

(* Returns the checksum, as if the chksum field were all spaces. *)
calculate_chksum(h) ==
  FoldSeq(LAMBDA b, sum : b + sum, 0, [i \in 1 .. Len(h) |-> IF i \in ChkField THEN 32 ELSE h[i]])

(* What follows the first slash. *)
AfterSlash(s) ==
  LET i == CHOOSE j \in 1 .. Len(s) : s[j] = Slash /\ \A k \in 1 .. j - 1 : s[k] # Slash
  IN  SubSeq(s, i + 1, Len(s))

RECURSIVE strip_antisocial_prefixes(_)
strip_antisocial_prefixes(s) ==
  IF \E p \in {<<Slash>>, <<Dot, Slash>>, <<Dot, Dot, Slash>>} : IsPrefix(p, s)
  THEN strip_antisocial_prefixes(AfterSlash(s))
  ELSE IF s \in {<<>>, <<Dot, Dot>>} THEN <<Dot>> ELSE s

(* snprintf with "%0no" and a terminator *)
Octal(v, n) == [i \in 1 .. n |-> 48 + ((v \div 8 ^ (n - i)) % 8)] \o <<0>>

(* The header h with its checksum filled in. *)
WithChksum(h) ==
  [i \in 1 .. Len(h) |->
     IF i \in ChkField THEN Octal(calculate_chksum(h), ChkDigits)[i - NameMax - Digits - 2]
     ELSE h[i]]

(* The header, or <<>> if the name is too long. *)
ustar_make_header(file_name, type, size) ==
  LET name == strip_antisocial_prefixes(file_name)
      padded == [i \in NameField |-> IF i <= Len(name) THEN name[i] ELSE 0]
  IN  IF Len(name) > NameMax THEN <<>>
      ELSE WithChksum(padded \o Octal(size, Digits)
                      \o [i \in 1 .. ChkDigits + 1 |-> 0] \o <<type, Magic>>)

(* The value of an octal field, or -1 if it is not one: value so far v,    *)
(* position ofs.                                                           *)
RECURSIVE OctalFrom(_, _, _)
OctalFrom(s, ofs, v) ==
  IF ofs > Len(s) THEN -1
  ELSE IF s[ofs] \in 48 .. 55
  THEN IF v > ULONG_MAX \div 8 THEN -1 ELSE OctalFrom(s, ofs + 1, s[ofs] - 48 + v * 8)
  ELSE IF s[ofs] \in {32, 0} /\ ofs > 1 THEN v
  ELSE -1

parse_octal_field(s) == OctalFrom(s, 1, 0)

CString(s) == LET n == CHOOSE k \in 0 .. Len(s) :
                         /\ k = Len(s) \/ s[k + 1] = 0
                         /\ \A j \in 1 .. k : s[j] # 0
              IN  SubSeq(s, 1, n)

Error == [type |-> "error"]

ustar_parse_header(h) ==
  LET chksum == parse_octal_field(SubSeq(h, NameMax + Digits + 3, TypeByte - 1))
      size == IF h[TypeByte] = REGULAR
              THEN parse_octal_field(SubSeq(h, NameMax + 2, NameMax + Digits + 2)) ELSE 0
  IN  IF \A i \in 1 .. Len(h) : h[i] = 0 THEN [type |-> "eof"]
      ELSE IF \/ h[MagicByte] # Magic
              \/ chksum = -1 \/ chksum # calculate_chksum(h)
              \/ h[NameMax + 1] # 0
              \/ h[TypeByte] \notin {REGULAR, DIRECTORY}
              \/ size = -1 \/ size > INT_MAX
      THEN Error
      ELSE [type |-> h[TypeByte], size |-> size,
            name |-> strip_antisocial_prefixes(CString(SubSeq(h, 1, NameMax + 1)))]

(***************************************************************************)
(* One member archived and read back.                                      *)
(***************************************************************************)
Init ==
  \E n \in 0 .. NameLen, type \in {REGULAR, DIRECTORY}, size \in SizesTried :
    \E name \in [1 .. n -> {Slash, Dot, Letter}] :
      call = [name |-> name, type |-> type, size |-> size, header |-> <<>>, done |-> FALSE]

Compose ==
  /\ ~call.done
  /\ call' = [call EXCEPT !.header = ustar_make_header(call.name, call.type, call.size),
                          !.done = TRUE]

Next == Compose

Spec == Init /\ [][Next]_call

(* A name that is not too long is archived with its type and size, and the *)
(* parser gets back the stripped name, the type and the size.              *)
HeaderRoundTrip ==
  LET name == strip_antisocial_prefixes(call.name)
  IN  call.done /\ Len(name) <= NameMax =>
        ustar_parse_header(call.header) =
          [name |-> name, type |-> call.type,
           size |-> IF call.type = REGULAR THEN call.size ELSE 0]

(* No name in a header is empty, absolute or starts with "./" or "../", or *)
(* is "..": "We don't want to create such archives".                       *)
StaysInDirectory ==
  call.done /\ call.header # <<>> =>
    LET name == CString(SubSeq(call.header, 1, NameMax + 1))
    IN  /\ name \notin {<<>>, <<Dot, Dot>>}
        /\ \A p \in {<<Slash>>, <<Dot, Slash>>, <<Dot, Dot, Slash>>} : ~IsPrefix(p, name)

(* With any one byte damaged, the header is refused or still describes the *)
(* same member.                                                            *)
DamageNoticed ==
  call.done /\ call.header # <<>> =>
    \A i \in 1 .. Len(call.header), b \in {0, 32, 48, 53, 56, 97} :
      ustar_parse_header([call.header EXCEPT ![i] = b])
        \in {Error, ustar_parse_header(call.header)}

=============================================================================
