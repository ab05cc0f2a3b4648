------------------------------ MODULE Library ------------------------------
(***************************************************************************)
(* lib/string.c and lib/stdlib.c: block moves, strings in buffers,         *)
(* searches, tokenizing, numbers, sorting and binary search, against what  *)
(* their comments promise.                                                 *)
(* Memory is a sequence of cells indexed from 1; cell value 0 is '\0'.     *)
(***************************************************************************)
EXTENDS Integers, Sequences, FiniteSets
LOCAL INSTANCE SequencesExt

CONSTANTS Cells,       \* cells of the memory strings live in
          Chars,       \* characters other than '\0'
          MaxSort,     \* longest array sorted
          IntMin, IntMax,  \* the range of an int
          Glyphs       \* the characters of the numbers read

VARIABLES job,         \* the call: a function and its arguments
          mem,         \* the memory it works on
          out          \* its results so far

lvars == <<job, mem, out>>

(***************************************************************************)
(* string.c.                                                               *)
(***************************************************************************)
RECURSIVE CopyUp(_, _, _, _), CopyDown(_, _, _, _)
CopyUp(m, dst, src, size) ==
  IF size = 0 THEN m ELSE CopyUp([m EXCEPT ![dst] = m[src]], dst + 1, src + 1, size - 1)
CopyDown(m, dst, src, size) ==
  IF size = 0 THEN m
  ELSE CopyDown([m EXCEPT ![dst + size - 1] = m[src + size - 1]], dst, src, size - 1)

memcpy(m, dst, src, size) == CopyUp(m, dst, src, size)

memmove(m, dst, src, size) ==
  IF dst < src THEN CopyUp(m, dst, src, size) ELSE CopyDown(m, dst, src, size)

RECURSIVE strlen(_, _)
strlen(m, s) == IF m[s] = 0 THEN 0 ELSE 1 + strlen(m, s + 1)

RECURSIVE memset(_, _, _, _)
memset(m, dst, value, size) ==
  IF size = 0 THEN m ELSE memset([m EXCEPT ![dst] = value], dst + 1, value, size - 1)

(* Comparisons give -1, 0 or 1; a position of 0 is the null pointer. *)
Sign(x, y) == IF x < y THEN -1 ELSE IF x > y THEN 1 ELSE 0

RECURSIVE memcmp(_, _, _, _), strcmp(_, _, _), memchr(_, _, _, _), strchr(_, _, _)
memcmp(m, a, b, size) ==
  IF size = 0 THEN 0
  ELSE IF m[a] # m[b] THEN Sign(m[a], m[b]) ELSE memcmp(m, a + 1, b + 1, size - 1)

strcmp(m, a, b) ==
  IF m[a] # 0 /\ m[a] = m[b] THEN strcmp(m, a + 1, b + 1) ELSE Sign(m[a], m[b])

memchr(m, block, ch, size) ==
  IF size = 0 THEN 0 ELSE IF m[block] = ch THEN block ELSE memchr(m, block + 1, ch, size - 1)

strchr(m, string, c) ==
  IF m[string] = c THEN string ELSE IF m[string] = 0 THEN 0 ELSE strchr(m, string + 1, c)

RECURSIVE strcspn(_, _, _), strspn(_, _, _), strpbrk(_, _, _), LastFrom(_, _, _, _)
strcspn(m, string, stop) ==
  IF m[string] = 0 \/ strchr(m, stop, m[string]) # 0 THEN 0 ELSE 1 + strcspn(m, string + 1, stop)

strspn(m, string, skip) ==
  IF m[string] = 0 \/ strchr(m, skip, m[string]) = 0 THEN 0 ELSE 1 + strspn(m, string + 1, skip)

strpbrk(m, string, stop) ==
  IF m[string] = 0 THEN 0
  ELSE IF strchr(m, stop, m[string]) # 0 THEN string ELSE strpbrk(m, string + 1, stop)

LastFrom(m, string, c, p) ==
  IF m[string] = 0 THEN p ELSE LastFrom(m, string + 1, c, IF m[string] = c THEN string ELSE p)
strrchr(m, string, c) == LastFrom(m, string, c, 0)

(* strstr tries the offsets from i on. *)
RECURSIVE MatchFrom(_, _, _, _), strnlen(_, _, _)
MatchFrom(m, haystack, needle, i) ==
  IF i + strlen(m, needle) > strlen(m, haystack) THEN 0
  ELSE IF memcmp(m, haystack + i, needle, strlen(m, needle)) = 0 THEN haystack + i
  ELSE MatchFrom(m, haystack, needle, i + 1)
strstr(m, haystack, needle) == MatchFrom(m, haystack, needle, 0)

strnlen(m, string, maxlen) ==
  IF m[string] = 0 \/ maxlen = 0 THEN 0 ELSE 1 + strnlen(m, string + 1, maxlen - 1)

(* strchr (delimiters, c) != NULL: '\0' ends every string, so it is found. *)
Delimits(delims, c) == c = 0 \/ c \in delims

(* The result of a function that writes a buffer and returns a length. *)
Wrote(m, len) == [m |-> m, len |-> len]

strlcpy(m, dst, src, size) ==
  LET src_len == strlen(m, src)
      dst_len == IF src_len < size - 1 THEN src_len ELSE size - 1
  IN  IF size = 0 THEN Wrote(m, src_len)
      ELSE Wrote([memcpy(m, dst, src, dst_len) EXCEPT ![dst + dst_len] = 0], src_len)

strlcat(m, dst, src, size) ==
  LET src_len == strlen(m, src)
      dst_len == strlen(m, dst)
      copy_cnt == IF src_len < size - dst_len - 1 THEN src_len ELSE size - dst_len - 1
  IN  IF size = 0 \/ dst_len >= size THEN Wrote(m, src_len + dst_len)
      ELSE Wrote([memcpy(m, dst + dst_len, src, copy_cnt) EXCEPT ![dst + dst_len + copy_cnt] = 0],
                 src_len + dst_len)

RECURSIVE SkipDelims(_, _, _), SkipToken(_, _, _)
SkipDelims(m, s, delims) ==
  IF Delimits(delims, m[s]) /\ m[s] # 0 THEN SkipDelims(m, s + 1, delims) ELSE s
SkipToken(m, s, delims) ==
  IF Delimits(delims, m[s]) THEN s ELSE SkipToken(m, s + 1, delims)

(* token 0 is the null pointer. *)
strtok_r(m, save, delims) ==
  LET token == SkipDelims(m, save, delims)
      end == SkipToken(m, token, delims)
  IN  IF m[token] = 0 THEN [m |-> m, save |-> token, token |-> 0]
      ELSE [m |-> [m EXCEPT ![end] = 0], save |-> IF m[end] # 0 THEN end + 1 ELSE end,
            token |-> token]

(***************************************************************************)
(* stdlib.c.                                                               *)
(***************************************************************************)
do_swap(a, i, j) == [a EXCEPT ![i] = a[j], ![j] = a[i]]

LargestOf(a, i, cnt) ==
  LET max == IF 2 * i <= cnt /\ a[2 * i] > a[i] THEN 2 * i ELSE i
  IN  IF 2 * i + 1 <= cnt /\ a[2 * i + 1] > a[max] THEN 2 * i + 1 ELSE max

RECURSIVE heapify(_, _, _), Build(_, _), Unbuild(_, _), Bisect(_, _, _, _)
heapify(a, i, cnt) ==
  LET max == LargestOf(a, i, cnt)
  IN  IF max = i THEN a ELSE heapify(do_swap(a, i, max), max, cnt)

(* The two loops of sort. *)
Build(a, i) == IF i = 0 THEN a ELSE Build(heapify(a, i, Len(a)), i - 1)
Unbuild(a, i) == IF i <= 1 THEN a ELSE Unbuild(heapify(do_swap(a, 1, i), 1, i - 1), i - 1)
sort(a) == Unbuild(Build(a, Len(a) \div 2), Len(a))

(* atoi, on ASCII codes.  over: an intermediate value was not an int. *)
isspace(c) == c \in {32} \cup 9 .. 13
isdigit(c) == c \in 48 .. 57
PlusSign == 43
MinusSign == 45

RECURSIVE SkipBlanks(_, _), DigitsFrom(_, _, _)
SkipBlanks(m, s) == IF isspace(m[s]) THEN SkipBlanks(m, s + 1) ELSE s

Held(v, over) == [v |-> v, over |-> over \/ v \notin IntMin .. IntMax]

DigitsFrom(m, s, value) ==
  IF isdigit(m[s])
  THEN DigitsFrom(m, s + 1, Held(value.v * 10 - (m[s] - 48), value.over)) ELSE value

atoi(m, s) ==
  LET sign == SkipBlanks(m, s)
      digits == IF m[sign] \in {PlusSign, MinusSign} THEN sign + 1 ELSE sign
      value == DigitsFrom(m, digits, Held(0, FALSE))
  IN  IF m[sign] = MinusSign THEN value ELSE Held(-value.v, value.over)

Upper(middle) == middle

(* binary_search between first and last (exclusive); 0 is the null pointer. *)
Bisect(a, key, first, last) ==
  IF first >= last THEN 0
  ELSE LET middle == first + (last - first) \div 2
       IN  IF key < a[middle] THEN Bisect(a, key, first, Upper(middle))
           ELSE IF key > a[middle] THEN Bisect(a, key, middle + 1, last)
           ELSE middle
binary_search(a, key) == Bisect(a, key, 1, Len(a) + 1)

(***************************************************************************)
(* Calls.                                                                  *)
(***************************************************************************)
Memories == [1 .. Cells -> Chars \cup {0}]
Arrays == UNION {[1 .. n -> Chars] : n \in 0 .. MaxSort}
IsString(m, s) == \E i \in s .. Cells : m[i] = 0
NoJob == [fn |-> "none", dst |-> 1, src |-> 1, size |-> 0, delims |-> {}, c |-> 0]

(* The texts that atoi is given. *)
Texts == {t \o <<0>> : t \in [1 .. 4 -> Glyphs]}

Jobs(m) ==
  {[NoJob EXCEPT !.fn = "memmove", !.dst = d, !.src = s, !.size = n] :
     d \in 1 .. Cells, s \in 1 .. Cells, n \in 0 .. Cells}
  \cup {[NoJob EXCEPT !.fn = f, !.dst = 1, !.src = s, !.size = n] :
     f \in {"strlcpy", "strlcat"}, s \in 1 .. Cells, n \in 0 .. Cells}
  \cup {[NoJob EXCEPT !.fn = f, !.src = s, !.size = n, !.c = c] :
     f \in {"search", "memset"}, s \in 1 .. Cells, n \in 0 .. Cells, c \in Chars \cup {0}}
  \cup {[NoJob EXCEPT !.fn = "strtok_r", !.delims = ds] : ds \in SUBSET Chars}

(* The arguments the comments allow: blocks inside memory, strings with an *)
(* end, and a destination that the source does not overlap.                *)
Allowed(m, j) ==
  CASE j.fn = "memmove" -> j.dst + j.size <= Cells + 1 /\ j.src + j.size <= Cells + 1
    [] j.fn = "strlcpy" -> IsString(m, j.src) /\ j.size < j.src
    [] j.fn = "strlcat" -> IsString(m, j.src) /\ j.size < j.src /\ strlen(m, 1) < j.src - 1
    [] j.fn = "memset" -> j.src + j.size <= Cells + 1
    [] j.fn \in {"strtok_r", "search"} -> m[Cells] = 0
    [] OTHER -> TRUE

Fresh == [calls |-> 0, save |-> 1, tokens |-> <<>>, len |-> 0, found |-> 0, ended |-> FALSE]

LInit ==
  /\ \/ mem \in Memories /\ \E j \in Jobs(mem) : Allowed(mem, j) /\ job = [j |-> j, old |-> mem]
     \/ mem \in Texts /\ job = [j |-> [NoJob EXCEPT !.fn = "atoi"], old |-> mem]
     \/ /\ mem \in Arrays
        /\ \E k \in Chars : job = [j |-> [NoJob EXCEPT !.fn = "sort", !.size = k], old |-> mem]
  /\ out = Fresh

(* The functions that write return after one call. *)
Copy ==
  LET j == job.j
      w == CASE j.fn = "memset" -> Wrote(memset(mem, j.src, j.c, j.size), 0)
             [] j.fn = "memmove" -> Wrote(memmove(mem, j.dst, j.src, j.size), 0)
             [] j.fn = "strlcpy" -> strlcpy(mem, 1, j.src, j.size)
             [] j.fn = "strlcat" -> strlcat(mem, 1, j.src, j.size)
  IN  /\ j.fn \in {"memset", "memmove", "strlcpy", "strlcat"} /\ ~out.ended
      /\ mem' = w.m /\ out' = [out EXCEPT !.len = w.len, !.ended = TRUE]
      /\ UNCHANGED job

(* The searches, in the strings at 1 and at src. *)
Search ==
  LET j == job.j
  IN  /\ j.fn = "search" /\ ~out.ended
      /\ out' = [out EXCEPT !.ended = TRUE,
           !.tokens = <<strcmp(mem, 1, j.src), strchr(mem, 1, j.c), strrchr(mem, 1, j.c),
                        memchr(mem, 1, j.c, j.size), strspn(mem, 1, j.src),
                        strcspn(mem, 1, j.src), strpbrk(mem, 1, j.src),
                        strstr(mem, 1, j.src), strnlen(mem, 1, j.size)>>]
      /\ UNCHANGED <<job, mem>>

ReadNumber ==
  /\ job.j.fn = "atoi" /\ ~out.ended
  /\ out' = [out EXCEPT !.ended = TRUE, !.tokens = <<atoi(mem, 1)>>]
  /\ UNCHANGED <<job, mem>>

(* strtok_r is called until it returns a null pointer. *)
Tokenize ==
  LET t == strtok_r(mem, out.save, job.j.delims)
  IN  /\ job.j.fn = "strtok_r" /\ ~out.ended /\ out.calls <= Cells
      /\ mem' = t.m
      /\ out' = [out EXCEPT !.calls = @ + 1, !.save = t.save, !.ended = t.token = 0,
                            !.tokens = IF t.token = 0 THEN @ ELSE Append(@, t.token)]
      /\ UNCHANGED job

(* qsort, and then bsearch of the sorted array. *)
Sort ==
  /\ job.j.fn = "sort" /\ ~out.ended
  /\ mem' = sort(mem)
  /\ out' = [out EXCEPT !.found = binary_search(sort(mem), job.j.size), !.ended = TRUE]
  /\ UNCHANGED job

LNext == Copy \/ Search \/ ReadNumber \/ Tokenize \/ Sort

LSpec == LInit /\ [][LNext]_lvars

(***************************************************************************)
(* Properties.                                                             *)
(***************************************************************************)
(* memmove copies the block as it was before the call, overlap or not, and *)
(* touches nothing else.                                                   *)
MovesOverlapping ==
  job.j.fn = "memmove" /\ out.ended =>
    \A i \in 1 .. Cells :
      mem[i] = IF i \in job.j.dst .. job.j.dst + job.j.size - 1
               THEN job.old[i - job.j.dst + job.j.src] ELSE job.old[i]

(* memset sets its block and nothing else. *)
SetsBlock ==
  job.j.fn = "memset" /\ out.ended =>
    \A i \in 1 .. Cells :
      mem[i] = IF i \in job.j.src .. job.j.src + job.j.size - 1 THEN job.j.c ELSE job.old[i]

(* strcmp orders strings like a dictionary; strchr, memchr and strstr find *)
(* the first match, strrchr the last; strspn, strcspn and strpbrk stop     *)
(* where the set of characters does; strnlen looks at no more than maxlen. *)
SearchesFind ==
  job.j.fn = "search" /\ out.ended =>
    LET j == job.j
        r == out.tokens
        s == SubSeq(mem, 1, strlen(mem, 1))
        t == SubSeq(mem, j.src, j.src + strlen(mem, j.src) - 1)
        Least(P) == IF P = {} THEN 0 ELSE CHOOSE i \in P : \A k \in P : i <= k
        Greatest(P) == IF P = {} THEN 0 ELSE CHOOSE i \in P : \A k \in P : i >= k
        Before(u, v) ==
          \/ Len(u) < Len(v) /\ IsPrefix(u, v)
          \/ \E i \in 1 .. Cells : /\ i <= Len(u) /\ i <= Len(v) /\ u[i] < v[i]
                                  /\ SubSeq(u, 1, i - 1) = SubSeq(v, 1, i - 1)
        Run(P) == Greatest({i \in 1 .. Len(s) : \A k \in 1 .. i : s[k] \in P})
        outside == {s[i] : i \in 1 .. Len(s)} \ ToSet(t)
    IN  r = <<IF Before(s, t) THEN -1 ELSE IF Before(t, s) THEN 1 ELSE 0,
              Least({i \in 1 .. Len(s) + 1 : mem[i] = j.c}),
              Greatest({i \in 1 .. Len(s) : mem[i] = j.c}),
              Least({i \in 1 .. j.size : mem[i] = j.c}),
              Run(ToSet(t)), Run(outside),
              Least({i \in 1 .. Len(s) : s[i] \in ToSet(t)}),
              Least({i \in 1 .. Len(s) + 1 :
                       i + Len(t) <= Len(s) + 1 /\ SubSeq(s, i, i + Len(t) - 1) = t}),
              IF Len(s) < j.size THEN Len(s) ELSE j.size>>

(* atoi reads every number that is an int, the smallest one included, and  *)
(* does not overflow on the way: "the negative range of an int is bigger   *)
(* than the positive range".                                               *)
ReadsEveryInt ==
  job.j.fn = "atoi" /\ out.ended =>
    \A n \in IntMin .. IntMax :
      LET abs == IF n < 0 THEN -n ELSE n
          digits == (IF abs > 9 THEN <<48 + (abs \div 10)>> ELSE <<>>) \o <<48 + (abs % 10)>>
          body == SubSeq(mem, SkipBlanks(mem, 1), Len(mem))
      IN  \A sign \in IF n < 0 THEN {<<MinusSign>>} ELSE {<<>>, <<PlusSign>>} :
            LET text == sign \o digits
            IN  IsPrefix(text, body) /\ ~isdigit(body[Len(text) + 1])
                  => out.tokens = <<[v |-> n, over |-> FALSE]>>

(* strlcpy and strlcat stay within SIZE, always leave a terminated string  *)
(* there unless it had no end there before, and return the length that     *)
(* would have been needed.                                                 *)
StringsFit ==
  job.j.fn \in {"strlcpy", "strlcat"} /\ out.ended =>
    LET j == job.j
        old == IF j.fn = "strlcpy" THEN 0 ELSE strlen(job.old, 1)
        all == old + strlen(job.old, j.src)
    IN  /\ out.len = all
        /\ \A i \in j.size + 1 .. Cells : mem[i] = job.old[i]
        /\ old < j.size =>
             LET len == IF all < j.size THEN all ELSE j.size - 1
             IN  /\ mem[len + 1] = 0
                 /\ \A i \in 1 .. len :
                      mem[i] = IF i <= old THEN job.old[i] ELSE job.old[j.src + i - old - 1]

(* The tokens are exactly the longest stretches without a delimiter, each  *)
(* once and in order, over however many calls.                             *)
TokensAsSplit ==
  job.j.fn = "strtok_r" /\ out.ended =>
    LET m == job.old
        end == CHOOSE i \in 1 .. Cells : m[i] = 0 /\ \A k \in 1 .. i - 1 : m[k] # 0
        In(i) == i \in 1 .. end - 1 /\ m[i] \notin job.j.delims
        starts == {i \in 1 .. Cells : In(i) /\ ~In(i - 1)}
    IN  /\ ToSet(out.tokens) = starts /\ Len(out.tokens) = Cardinality(starts)
        /\ \A i \in 1 .. Len(out.tokens) - 1 : out.tokens[i] < out.tokens[i + 1]
        /\ \A i \in 1 .. Cells : mem[i] = m[i] \/ (mem[i] = 0 /\ ~In(i))

(* sort puts the same elements in order, and binary_search of the result   *)
(* finds the key if and only if it is there.                               *)
SortsAndFinds ==
  job.j.fn = "sort" /\ out.ended =>
    /\ \A c \in Chars : Cardinality({i \in DOMAIN mem : mem[i] = c})
                          = Cardinality({i \in DOMAIN mem : job.old[i] = c})
    /\ \A i \in 1 .. Len(mem) - 1 : mem[i] <= mem[i + 1]
    /\ IF job.j.size \in ToSet(mem) THEN out.found # 0 /\ mem[out.found] = job.j.size
       ELSE out.found = 0

=============================================================================
