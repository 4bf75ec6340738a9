----------------------- MODULE HighLevelOpsDataProofs -----------------------
(***************************************************************************)
(* Proofs about the data that the calls of HighLevelOps move, for any      *)
(* sizes, answers and command lines: what a call returns is what the       *)
(* system delivered, what the system took is what the caller gave, and the *)
(* addresses of a lookup are tried in the system's order.                  *)
(*                                                                         *)
(* A byte is its number, so data in a buffer, a list of chunks, a source   *)
(* or a sink is a Span of numbers, and the invariant says where each of    *)
(* them begins and ends.                                                   *)
(***************************************************************************)
EXTENDS HighLevelOpsProofs

\* Bytes number a + 1 to b.
Span(a, b) == [i \in 1..(b - a) |-> a + i]

ReadOp == {"fs_read", "stream_read"}
WriteOp == {"fs_write", "stream_write"}

ChildType ==
    [state : {"none", "running", "exited", "reaped"}, out : 0..OutLen, err : Nat, errPipe : Nat]

\* Types, and the bytevector that callers share: it is only written from.
DataShape ==
    /\ bytes \in [Bytevector -> Seq(Nat)] /\ bytes[Shared] = Content
    /\ source \in [Caller -> Seq(Nat)]
    /\ total \in [Caller -> Nat]
    /\ child \in [Caller -> ChildType]
    /\ \A c \in Caller : task[c].result \in Int
    /\ DOMAIN val = Caller /\ DOMAIN acc = Caller /\ DOMAIN sink = Caller
    /\ DOMAIN given = Caller /\ DOMAIN failed = Caller
    /\ DOMAIN args = Caller /\ DOMAIN argv = Caller

\* Nothing is known to a caller before its call.
Untouched(c) ==
    call[c] = "no" =>
      /\ val[c] = <<>> /\ acc[c] = <<>> /\ total[c] = 0 /\ source[c] = <<>> /\ sink[c] = <<>>
      /\ given[c] = <<>> /\ failed[c] = <<>> /\ argv[c] = <<>> /\ child[c] = NoChild

\* The data of a request are as they were submitted.
Submitted(c) ==
    LET t == task[c] IN
    call[c] = "busy" =>
      /\ t.op \in ReadOp =>
           /\ t.pin = IF prog[c] \in {"receive", "pipe"} THEN c ELSE NoBuffer
           /\ t.pin = NoBuffer => t.buffer \in Seq(Nat)
      /\ t.op \in WriteOp =>
           IF prog[c] = "pipe" THEN t.pin = c
           ELSE t.nbytes = SourceLen /\ (t.pin = Shared \/ (t.pin = NoBuffer /\ t.buffer = Content))
      /\ t.op = "spawn" =>
           args[c] \in Commands /\ t.buffer = PackStrings(args[c]) /\ t.nbytes = Len(args[c])

\* The request of c has not failed, and what it has moved.
Ok(c) == task[c].at # "done" \/ Result(c) >= 0
Got(c) == IF task[c].at = "done" THEN Result(c) ELSE 0

\* Only a captured child that runs has something to write; it exists from the end
\* of the spawn.
ChildAgrees(c) ==
    /\ child[c].out # 0 => child[c].state = "running" /\ prog[c] = "output"
    /\ (prog[c] = "output" /\ call[c] = "busy") =>
         (child[c].state = "none" <=> task[c].op = "spawn" /\ ~(task[c].at = "done" /\ Ok(c)))

\* How much there is to read in all, and up to where it has been delivered.
Whole(c) == IF prog[c] = "output" THEN OutLen ELSE SourceLen
Supplied(c) ==
    IF prog[c] # "output" THEN SourceLen
    ELSE IF child[c].state = "none" THEN 0 ELSE OutLen - child[c].out

\* The loops that read to the end: chunks, the chunk just read, and what is
\* left are one behind the other.
LoopData(c) ==
    prog[c] \in {"read_file", "output"} =>
      /\ (call[c] = "busy" /\ Ok(c)) =>
           /\ acc[c] \in Seq(Seq(Nat)) /\ Concat(Reverse(acc[c])) = Span(0, total[c])
           /\ task[c].op \in {"fs_open", "spawn", "close_stdin"} =>
                total[c] = 0 /\ source[c] = Span(0, Supplied(c))
           /\ task[c].op \in ReadOp =>
                /\ Got(c) \in Nat /\ total[c] + Got(c) <= Supplied(c)
                /\ source[c] = Span(total[c] + Got(c), Supplied(c))
                /\ task[c].at = "done" =>
                     /\ ReadInto(c) = Span(total[c], total[c] + Result(c))
                     /\ Result(c) = 0 => total[c] = Whole(c)
           /\ task[c].op \in {"fs_close", "close_stdout", "close_stderr", "wait", "close_proc"} =>
                total[c] = Whole(c)
      /\ call[c] = "returned" => val[c] = Numbered(Whole(c))

\* io-stream-pipe: the sink, the bytevector and the source are one behind the
\* other, while it is read into and while it is written from.
PipeData(c) ==
    prog[c] = "pipe" =>
      /\ (call[c] = "busy" /\ Ok(c) /\ task[c].op = "stream_read") =>
           /\ Got(c) \in Nat /\ total[c] + Got(c) <= SourceLen
           /\ sink[c] = Span(0, total[c]) /\ source[c] = Span(total[c] + Got(c), SourceLen)
           /\ task[c].at = "done" =>
                /\ SubSeq(bytes[c], 1, Result(c)) = Span(total[c], total[c] + Result(c))
                /\ Result(c) = 0 => total[c] = SourceLen
      /\ (call[c] = "busy" /\ Ok(c) /\ task[c].op = "stream_write") =>
           LET n == task[c].nbytes IN
           /\ n \in Nat /\ total[c] + n <= SourceLen
           /\ SubSeq(bytes[c], 1, n) = Span(total[c], total[c] + n)
           /\ sink[c] = Span(0, IF task[c].at = "done" THEN total[c] + n ELSE total[c])
           /\ source[c] = Span(total[c] + n, SourceLen)
      /\ call[c] = "returned" => val[c] = <<SourceLen>> /\ sink[c] = Content

\* A single read: the front of the bytevector and what is left.
ReceiveData(c) ==
    prog[c] = "receive" =>
      /\ (call[c] = "busy" /\ Ok(c)) =>
           /\ Got(c) \in 0..SourceLen /\ source[c] = Span(Got(c), SourceLen)
           /\ task[c].at = "done" => SubSeq(bytes[c], 1, Result(c)) = Span(0, Result(c))
      /\ call[c] = "returned" =>
           \E r \in 0..SourceLen : /\ val[c] = <<r>> /\ source[c] = Span(r, SourceLen)
                                   /\ SubSeq(bytes[c], 1, r) = Span(0, r)

\* A single write, of a call or of io-write-file.
WriteData(c) ==
    prog[c] \in {"send", "write_file"} =>
      /\ (call[c] = "busy" /\ Ok(c) /\ task[c].op \in WriteOp) =>
           Got(c) \in 0..SourceLen /\ sink[c] = Span(0, Got(c))
      /\ (call[c] = "busy" /\ task[c].op = "fs_open") => sink[c] = <<>>
      /\ (prog[c] = "send" /\ call[c] = "returned") =>
           \E r \in 0..SourceLen : val[c] = <<r>> /\ sink[c] = Span(0, r)

\* The system has a front part of the data, also after an error.
SinkData(c) == \E n \in 0..SourceLen : sink[c] = Span(0, n)

\* A lookup, or entries of a directory.
AnswerData(c) ==
    prog[c] = "simple" =>
      /\ (call[c] = "busy" /\ task[c].at # "done") => given[c] = <<>>
      /\ (call[c] = "busy" /\ task[c].at = "done" /\ Result(c) >= 0) =>
           task[c].names = Distinct(given[c])
      /\ call[c] = "returned" => val[c] = Distinct(given[c])

\* io-tcp-connect: the addresses that failed and those left are all there are.
ConnectData(c) ==
    prog[c] = "connect" =>
      /\ call[c] = "busy" => val[c] = <<>>
      /\ (call[c] = "busy" /\ task[c].op = "dns") =>
           /\ failed[c] = <<>>
           /\ task[c].at # "done" => given[c] = <<>>
           /\ task[c].at = "done" =>
                IF Result(c) < 0 THEN Distinct(given[c]) = <<>>
                ELSE /\ task[c].names = Distinct(given[c]) /\ task[c].names # <<>>
                     /\ task[c].names \in Seq(Address)
      /\ (call[c] = "busy" /\ task[c].op = "connect") =>
           /\ acc[c] \in Seq(Address) /\ acc[c] # <<>> /\ failed[c] \in Seq(Address)
           /\ failed[c] \o (IF Ok(c) THEN acc[c] ELSE Tail(acc[c])) = Distinct(given[c])
      /\ call[c] = "returned" => IsPrefix(failed[c] \o val[c], Distinct(given[c]))
      /\ call[c] = "raised" =>
           val[c] = <<>> /\ failed[c] \in Seq(Address) /\ failed[c] = Distinct(given[c])

\* The command line of a child.
ArgsData(c) == argv[c] # <<>> => argv[c] = args[c]

\* Everything about caller c.
Carried(c) ==
    /\ Untouched(c) /\ Submitted(c) /\ ChildAgrees(c) /\ LoopData(c) /\ PipeData(c)
    /\ ReceiveData(c) /\ WriteData(c) /\ SinkData(c) /\ AnswerData(c) /\ ConnectData(c)
    /\ ArgsData(c)

DataInv == DataShape /\ \A c \in Caller : Carried(c)

-----------------------------------------------------------------------------
(* Spans of bytes. *)

\* A Span has a length and its bytes.
LEMMA SpanProperties ==
    ASSUME NEW a \in Nat, NEW b \in Nat, a <= b
    PROVE /\ Span(a, b) \in Seq(Nat) /\ Len(Span(a, b)) = b - a
          /\ \A i \in 1..(b - a) : Span(a, b)[i] = a + i
  BY DEF Span

\* The data of a file, and what a child writes, are Spans.
LEMMA NumberedIsSpan ==
    ASSUME NEW n \in Nat
    PROVE Numbered(n) = Span(0, n)
  BY DEF Numbered, Span

\* Nothing is a Span, and a Span that is nothing ends where it begins.
LEMMA SpanEmpty ==
    ASSUME NEW a \in Nat, NEW b \in Nat, a <= b
    PROVE /\ Span(a, a) = <<>>
          /\ Span(a, b) = <<>> => a = b
<1>1. Span(a, a) \in Seq(Nat) /\ Len(Span(a, a)) = 0
  BY SpanProperties
<1>2. Len(Span(a, b)) = b - a /\ Len(<<>>) = 0
  BY SpanProperties, EmptySeq
<1> QED
  BY <1>1, <1>2, EmptySeq

\* Spans that meet are one Span.
LEMMA SpanConcat ==
    ASSUME NEW a \in Nat, NEW b \in Nat, NEW c \in Nat, a <= b, b <= c
    PROVE Span(a, b) \o Span(b, c) = Span(a, c)
<1> DEFINE s == Span(a, b)
           t == Span(b, c)
           u == Span(a, c)
<1>1. /\ s \in Seq(Nat) /\ Len(s) = b - a /\ \A i \in 1..(b - a) : s[i] = a + i
      /\ t \in Seq(Nat) /\ Len(t) = c - b /\ \A i \in 1..(c - b) : t[i] = b + i
      /\ u \in Seq(Nat) /\ Len(u) = c - a /\ \A i \in 1..(c - a) : u[i] = a + i
  <2>1. a <= c
    OBVIOUS
  <2>2. s \in Seq(Nat) /\ Len(s) = b - a /\ \A i \in 1..(b - a) : s[i] = a + i
    BY SpanProperties
  <2>3. t \in Seq(Nat) /\ Len(t) = c - b /\ \A i \in 1..(c - b) : t[i] = b + i
    BY SpanProperties
  <2>4. u \in Seq(Nat) /\ Len(u) = c - a /\ \A i \in 1..(c - a) : u[i] = a + i
    BY <2>1, SpanProperties
  <2> QED
    BY <2>2, <2>3, <2>4
<1> HIDE DEF s, t, u
<1>2. /\ s \o t \in Seq(Nat) /\ Len(s \o t) = Len(s) + Len(t)
      /\ \A i \in 1..(Len(s) + Len(t)) : (s \o t)[i] = IF i <= Len(s) THEN s[i] ELSE t[i - Len(s)]
  BY <1>1, ConcatProperties
<1>3. Len(s \o t) = c - a /\ Len(s) + Len(t) = c - a
  BY <1>1, <1>2
<1>4. ASSUME NEW i \in 1..(c - a)
      PROVE (s \o t)[i] = u[i]
  <2>1. (s \o t)[i] = IF i <= b - a THEN s[i] ELSE t[i - (b - a)]
    BY <1>1, <1>2, <1>3
  <2>2. CASE i <= b - a
    BY <1>1, <2>1, <2>2
  <2>3. CASE ~(i <= b - a)
    <3>1. i - (b - a) \in 1..(c - b) /\ b + (i - (b - a)) = a + i
      BY <2>3
    <3> QED
      BY <1>1, <2>1, <2>3, <3>1
  <2> QED
    BY <2>2, <2>3
<1>5. s \o t = u
  BY <1>1, <1>2, <1>3, <1>4, SeqEqual
<1> QED
  BY <1>5 DEF s, t, u

\* A part of a Span is one: its front and its rest.
LEMMA SpanParts ==
    ASSUME NEW a \in Nat, NEW b \in Nat, NEW n \in Nat, a + n <= b
    PROVE /\ SubSeq(Span(a, b), 1, n) = Span(a, a + n)
          /\ SubSeq(Span(a, b), n + 1, Len(Span(a, b))) = Span(a + n, b)
<1> DEFINE s == Span(a, b)
           front == Span(a, a + n)
           rest == Span(a + n, b)
<1>1. /\ s \in Seq(Nat) /\ Len(s) = b - a /\ \A i \in 1..(b - a) : s[i] = a + i
      /\ front \in Seq(Nat) /\ Len(front) = n /\ \A i \in 1..n : front[i] = a + i
      /\ rest \in Seq(Nat) /\ Len(rest) = b - (a + n) /\ \A i \in 1..(b - (a + n)) : rest[i] = (a + n) + i
  <2>1. a + n \in Nat /\ a <= a + n /\ (a + n) - a = n /\ a <= b
    OBVIOUS
  <2> QED
    BY <2>1, SpanProperties
<1> HIDE DEF s, front, rest
<1>2. /\ SubSeq(s, 1, n) \in Seq(Nat) /\ Len(SubSeq(s, 1, n)) = n
      /\ \A i \in 1..n : SubSeq(s, 1, n)[i] = s[i]
  <2>1. \A i \in 1..n : s[i] \in Nat
    BY <1>1
  <2> QED
    BY <2>1, SubSeqProperties
<1>3. SubSeq(s, 1, n) = front
  <2>1. \A i \in 1..n : SubSeq(s, 1, n)[i] = front[i]
    BY <1>1, <1>2
  <2> QED
    BY <1>1, <1>2, <2>1, SeqEqual
<1>4. /\ SubSeq(s, n + 1, b - a) \in Seq(Nat) /\ Len(SubSeq(s, n + 1, b - a)) = b - (a + n)
      /\ \A i \in 1..(b - (a + n)) : SubSeq(s, n + 1, b - a)[i] = s[n + i]
  <2>1. \A i \in (n + 1)..(b - a) : s[i] \in Nat
    <3>1. \A i \in 1..(b - a) : s[i] \in Nat
      BY <1>1, ElementOfSeq
    <3>2. \A i \in (n + 1)..(b - a) : i \in 1..(b - a)
      OBVIOUS
    <3> QED
      BY <3>1, <3>2
  <2>2. n + 1 \in Int /\ b - a \in Int /\ (b - a) - (n + 1) + 1 = b - (a + n)
        /\ (IF n + 1 <= b - a THEN (b - a) - (n + 1) + 1 ELSE 0) = b - (a + n)
        /\ \A i \in Int : (n + 1) + i - 1 = n + i
    OBVIOUS
  <2>3. /\ SubSeq(s, n + 1, b - a) \in Seq(Nat)
        /\ Len(SubSeq(s, n + 1, b - a)) = IF n + 1 <= b - a THEN (b - a) - (n + 1) + 1 ELSE 0
        /\ \A i \in 1..((b - a) - (n + 1) + 1) : SubSeq(s, n + 1, b - a)[i] = s[(n + 1) + i - 1]
    BY <2>1, <2>2, SubSeqProperties
  <2> QED
    BY <2>2, <2>3
<1>5. SubSeq(s, n + 1, b - a) = rest
  <2>1. ASSUME NEW i \in 1..(b - (a + n))
        PROVE SubSeq(s, n + 1, b - a)[i] = rest[i]
    <3>1. n + i \in 1..(b - a) /\ a + (n + i) = (a + n) + i
      OBVIOUS
    <3>2. SubSeq(s, n + 1, b - a)[i] = s[n + i] /\ s[n + i] = a + (n + i) /\ rest[i] = (a + n) + i
      BY <1>1, <1>4, <3>1
    <3> QED
      BY <3>1, <3>2
  <2> QED
    BY <1>1, <1>4, <2>1, SeqEqual
<1> QED
  BY <1>1, <1>3, <1>5 DEF s, front, rest

\* The front of a whole Span.
LEMMA SpanFront ==
    ASSUME NEW b \in Nat, NEW n \in Nat, n <= b
    PROVE SubSeq(Span(0, b), 1, n) = Span(0, n)
<1> DEFINE a == 0
<1>1. a \in Nat /\ a + n <= b /\ a + n = n
  OBVIOUS
<1>2. SUFFICES SubSeq(Span(a, b), 1, n) = Span(a, n)
  OBVIOUS
<1> HIDE DEF a
<1>3. SubSeq(Span(a, b), 1, n) = Span(a, a + n)
  BY <1>1, SpanParts
<1> QED
  BY <1>1, <1>3

\* The child writes the next byte.
LEMMA SpanAppend ==
    ASSUME NEW a \in Nat, NEW b \in Nat, a <= b
    PROVE Append(Span(a, b), b + 1) = Span(a, b + 1)
<1> DEFINE s == Span(a, b)
           u == Span(a, b + 1)
<1>1. /\ s \in Seq(Nat) /\ Len(s) = b - a /\ \A i \in 1..(b - a) : s[i] = a + i
      /\ u \in Seq(Nat) /\ Len(u) = (b + 1) - a /\ \A i \in 1..((b + 1) - a) : u[i] = a + i
  <2>1. b + 1 \in Nat /\ a <= b + 1
    OBVIOUS
  <2>2. s \in Seq(Nat) /\ Len(s) = b - a /\ \A i \in 1..(b - a) : s[i] = a + i
    BY SpanProperties
  <2>3. u \in Seq(Nat) /\ Len(u) = (b + 1) - a /\ \A i \in 1..((b + 1) - a) : u[i] = a + i
    BY <2>1, SpanProperties
  <2> QED
    BY <2>2, <2>3
<1> HIDE DEF s, u
<1>2. /\ Append(s, b + 1) \in Seq(Nat) /\ Len(Append(s, b + 1)) = (b - a) + 1
      /\ \A i \in 1..(b - a) : Append(s, b + 1)[i] = s[i]
      /\ Append(s, b + 1)[(b - a) + 1] = b + 1
  <2>1. b + 1 \in Nat /\ s \in Seq(Nat)
    BY <1>1
  <2>2. /\ Append(s, b + 1) \in Seq(Nat) /\ Len(Append(s, b + 1)) = Len(s) + 1
        /\ \A i \in 1..Len(s) : Append(s, b + 1)[i] = s[i]
        /\ Append(s, b + 1)[Len(s) + 1] = b + 1
    BY <2>1, AppendProperties
  <2> QED
    BY <1>1, <2>2
<1>3. \A i \in 1..((b + 1) - a) : Append(s, b + 1)[i] = u[i]
  BY <1>1, <1>2
<1>4. Append(s, b + 1) = u
  <2>1. Len(Append(s, b + 1)) = Len(u) /\ Len(u) = (b + 1) - a
    BY <1>1, <1>2
  <2>2. \A i \in 1..Len(Append(s, b + 1)) : Append(s, b + 1)[i] = u[i]
    BY <1>3, <2>1
  <2>3. Append(s, b + 1) \in Seq(Nat) /\ u \in Seq(Nat)
    BY <1>1, <1>2
  <2> QED
    BY <2>1, <2>2, <2>3, SeqEqual
<1> QED
  BY <1>4 DEF s, u

\* A shorter part of the data is a prefix of all of it.
LEMMA SpanPrefix ==
    ASSUME NEW n \in Nat, NEW k \in 0..n
    PROVE IsPrefix(Span(0, k), Span(0, n))
<1>1. Span(0, k) \in Seq(Nat) /\ Span(k, n) \in Seq(Nat) /\ Span(0, k) \o Span(k, n) = Span(0, n)
  <2>1. 0 \in Nat /\ k \in Nat /\ 0 <= k /\ k <= n
    OBVIOUS
  <2>2. Span(0, k) \in Seq(Nat)
    BY <2>1, SpanProperties
  <2>3. Span(k, n) \in Seq(Nat)
    BY <2>1, SpanProperties
  <2> QED
    BY <2>1, <2>2, <2>3, SpanConcat
<1> QED
  BY <1>1, PrefixOfConcat

\* Data over the front of a buffer: the front is the data.
LEMMA FilledFront ==
    ASSUME NEW buffer \in Seq(Nat), NEW data \in Seq(Nat)
    PROVE Filled(buffer, data) \in Seq(Nat) /\ SubSeq(Filled(buffer, data), 1, Len(data)) = data
<1> DEFINE rest == SubSeq(buffer, Len(data) + 1, Len(buffer))
<1>1. Len(data) \in Nat /\ Len(buffer) \in Nat /\ \A i \in 1..Len(buffer) : buffer[i] \in Nat
  BY LenProperties, ElementOfSeq
<1>2. \A i \in (Len(data) + 1)..Len(buffer) : buffer[i] \in Nat
  BY <1>1
<1>3. rest \in Seq(Nat)
  BY <1>1, <1>2, SubSeqProperties
<1> HIDE DEF rest
<1>4. /\ data \o rest \in Seq(Nat) /\ Len(data \o rest) = Len(data) + Len(rest)
      /\ \A i \in 1..(Len(data) + Len(rest)) :
           (data \o rest)[i] = IF i <= Len(data) THEN data[i] ELSE rest[i - Len(data)]
  BY <1>3, ConcatProperties
<1>5. \A i \in 1..Len(data) : (data \o rest)[i] = data[i] /\ data[i] \in Nat
  BY <1>1, <1>3, <1>4, LenProperties, ElementOfSeq
<1>6. /\ SubSeq(data \o rest, 1, Len(data)) \in Seq(Nat)
      /\ Len(SubSeq(data \o rest, 1, Len(data))) = Len(data)
      /\ \A i \in 1..Len(data) : SubSeq(data \o rest, 1, Len(data))[i] = (data \o rest)[i]
  <2>1. \A i \in 1..Len(data) : (data \o rest)[i] \in Nat
    BY <1>5
  <2> QED
    BY <1>1, <2>1, SubSeqProperties
<1>7. SubSeq(data \o rest, 1, Len(data)) = data
  BY <1>5, <1>6, SeqEqual
<1> QED
  BY <1>4, <1>7 DEF rest, Filled

\* Data that fill a bytevector are its contents.
LEMMA FilledWhole ==
    ASSUME NEW data \in Seq(Nat)
    PROVE Filled(Zeros(Len(data)), data) = data
<1> DEFINE n == Len(data)
<1>1. n \in Nat
  BY LenProperties
<1>2. Len(Zeros(n)) = n
  BY <1>1 DEF Zeros
<1>3. SubSeq(Zeros(n), n + 1, n) = <<>>
  BY <1>1, SubSeqEmpty
<1> QED
  BY <1>2, <1>3, ConcatEmptySeq DEF Filled

-----------------------------------------------------------------------------
(* Chunks one behind the other. *)

\* What the recursion of Concat computes.
LEMMA ConcatSteps ==
    ASSUME NEW S, NEW s \in Seq(Seq(S))
    PROVE \E f \in [0..Len(s) -> Seq(S)] :
            /\ f[0] = <<>> /\ \A i \in 1..Len(s) : f[i] = f[i - 1] \o s[i]
            /\ Concat(s) = f[Len(s)]
<1> DEFINE n == Len(s)
           V == Seq(S)
           g == [i \in 1..n |-> [v \in V |-> v \o s[i]]]
<1>1. n \in Nat /\ <<>> \in V /\ \A i \in 1..n : s[i] \in V
  BY LenProperties, ElementOfSeq, EmptySeq
<1>2. \A i \in 1..n : \A v \in V : g[i][v] \in V
  BY <1>1, ConcatProperties
<1> HIDE DEF n, V, g
<1>3. PICK f \in [0..n -> V] : f[0] = <<>> /\ \A i \in 1..n : f[i] = g[i][f[i - 1]]
  <2> DEFINE e == <<>>
  <2>1. n \in Nat /\ e \in V
    BY <1>1
  <2> HIDE DEF e
  <2>2. \E f : Iterates(f, V, e, n, g)
    BY <1>2, <2>1, Iteration
  <2> QED
    BY <2>2 DEF e, Iterates
<1>4. ASSUME NEW i \in 1..n
      PROVE f[i] = f[i - 1] \o s[i]
  <2>1. i - 1 \in 0..n
    BY <1>1
  <2>2. f[i - 1] \in V
    BY <1>3, <2>1
  <2> QED
    BY <1>3, <2>2 DEF g
<1>5. f = [i \in 0..n |-> IF i = 0 THEN <<>> ELSE f[i - 1] \o s[i]]
  <2>1. \A i \in 0..n : f[i] = IF i = 0 THEN <<>> ELSE f[i - 1] \o s[i]
    <3>1. \A i \in 0..n : i = 0 \/ i \in 1..n
      BY <1>1
    <3> QED
      BY <1>3, <1>4, <3>1
  <2>2. f = [i \in 0..n |-> f[i]]
    BY <1>3
  <2> QED
    BY <2>1, <2>2
<1>6. PICK h : h = [i \in 0..n |-> IF i = 0 THEN <<>> ELSE h[i - 1] \o s[i]] /\ Concat(s) = h[n]
  BY <1>5 DEF Concat, n
<1>7. h[0] = <<>> /\ \A i \in 1..n : h[i] = h[i - 1] \o s[i]
  <2>1. 0 \in 0..n /\ \A i \in 1..n : i \in 0..n /\ i # 0
    BY <1>1
  <2>2. \A i \in 0..n : h[i] = IF i = 0 THEN <<>> ELSE h[i - 1] \o s[i]
    <3>1. \A k \in 0..n : [i \in 0..n |-> IF i = 0 THEN <<>> ELSE h[i - 1] \o s[i]][k]
                          = IF k = 0 THEN <<>> ELSE h[k - 1] \o s[k]
      OBVIOUS
    <3> QED
      BY <1>6, <3>1
  <2> QED
    BY <2>1, <2>2
<1>8. \A i \in 0..n : h[i] \in V
  <2> DEFINE T == {i \in 0..n : h[i] \in V}
  <2>1. 0 \in T
    BY <1>1, <1>7
  <2>2. ASSUME NEW k \in 0..(n - 1), k \in T
        PROVE k + 1 \in T
    <3>1. k + 1 \in 1..n /\ k + 1 \in 0..n /\ (k + 1) - 1 = k
      BY <1>1
    <3>2. h[k + 1] = h[k] \o s[k + 1] /\ h[k] \in Seq(S) /\ s[k + 1] \in Seq(S)
      BY <1>1, <1>7, <2>2, <3>1 DEF V
    <3>3. h[k + 1] \in V
      BY <3>2, ConcatProperties DEF V
    <3> QED
      BY <3>1, <3>3
  <2> HIDE DEF T
  <2>3. 0..n \subseteq T
    BY <1>1, <2>1, <2>2, InductionUpTo
  <2> QED
    BY <2>3 DEF T
<1>9. h \in [0..n -> V]
  BY <1>6, <1>8
<1> QED
  BY <1>6, <1>7, <1>9 DEF n, V

\* Any function that does these steps ends with the same value.
LEMMA ConcatUnique ==
    ASSUME NEW S, NEW s \in Seq(Seq(S)), NEW f, f[0] = <<>>,
           \A i \in 1..Len(s) : f[i] = f[i - 1] \o s[i]
    PROVE Concat(s) = f[Len(s)] /\ Concat(s) \in Seq(S)
<1> DEFINE n == Len(s)
<1>1. n \in Nat /\ n \in 0..n
  BY LenProperties
<1>2. PICK h \in [0..n -> Seq(S)] :
        /\ h[0] = <<>> /\ \A i \in 1..n : h[i] = h[i - 1] \o s[i]
        /\ Concat(s) = h[n]
  BY ConcatSteps
<1> DEFINE T == {i \in 0..n : f[i] = h[i]}
<1>3. 0 \in T
  BY <1>1, <1>2
<1>4. ASSUME NEW k \in 0..(n - 1), k \in T
      PROVE k + 1 \in T
  <2>1. k + 1 \in 1..n /\ k + 1 \in 0..n /\ (k + 1) - 1 = k /\ f[k] = h[k]
    BY <1>1, <1>4
  <2>2. f[k + 1] = f[k] \o s[k + 1] /\ h[k + 1] = h[k] \o s[k + 1]
    BY <1>2, <2>1
  <2> QED
    BY <2>1, <2>2
<1> HIDE DEF T
<1>5. 0..n \subseteq T
  BY <1>1, <1>3, <1>4, InductionUpTo
<1>6. f[n] = h[n]
  BY <1>1, <1>5 DEF T
<1> QED
  BY <1>1, <1>2, <1>6

\* The two facts about Concat that the loops need.
LEMMA ConcatAppend ==
    ASSUME NEW S, NEW s \in Seq(Seq(S)), NEW x \in Seq(S)
    PROVE Concat(Append(s, x)) = Concat(s) \o x /\ Concat(s) \in Seq(S)
<1> DEFINE n == Len(s)
           t == Append(s, x)
<1>1. n \in Nat /\ n \in 0..n
  BY LenProperties
<1>2. /\ t \in Seq(Seq(S)) /\ Len(t) = n + 1 /\ t[n + 1] = x
      /\ \A i \in 1..n : t[i] = s[i]
  BY AppendProperties
<1> HIDE DEF t
<1>3. PICK h \in [0..n -> Seq(S)] :
        /\ h[0] = <<>> /\ \A i \in 1..n : h[i] = h[i - 1] \o s[i]
        /\ Concat(s) = h[n]
  BY ConcatSteps
<1> DEFINE f == [i \in 0..(n + 1) |-> IF i <= n THEN h[i] ELSE h[n] \o x]
<1>4. f[0] = <<>>
  BY <1>1, <1>3
<1>5. ASSUME NEW i \in 1..(n + 1)
      PROVE f[i] = f[i - 1] \o t[i]
  <2>1. CASE i <= n
    <3>1. i \in 1..n /\ i \in 0..(n + 1) /\ i - 1 \in 0..(n + 1) /\ i - 1 <= n
      BY <1>1, <2>1
    <3>2. f[i] = h[i] /\ f[i - 1] = h[i - 1]
      BY <2>1, <3>1
    <3> HIDE DEF f
    <3> QED
      BY <1>2, <1>3, <3>1, <3>2
  <2>2. CASE ~(i <= n)
    <3>1. i = n + 1 /\ i - 1 = n /\ n \in 0..(n + 1) /\ n + 1 \in 0..(n + 1) /\ n <= n /\ ~(n + 1 <= n)
      BY <1>1, <2>2
    <3>2. f[n + 1] = h[n] \o x /\ f[n] = h[n]
      BY <3>1
    <3> HIDE DEF f
    <3> QED
      BY <1>2, <3>1, <3>2
  <2> QED
    BY <2>1, <2>2
<1>6. f[n + 1] = h[n] \o x
  BY <1>1
<1> HIDE DEF f
<1>7. Concat(t) = f[n + 1]
  BY <1>2, <1>4, <1>5, ConcatUnique
<1> QED
  BY <1>1, <1>3, <1>6, <1>7 DEF t

\* Nothing behind nothing.
LEMMA ConcatEmpty == Concat(<<>>) = <<>>
<1> DEFINE f == [i \in {0} |-> <<>>]
<1>1. <<>> \in Seq(Seq(Nat)) /\ Len(<<>>) = 0
  BY EmptySeq
<1>2. f[0] = <<>> /\ \A i \in 1..Len(<<>>) : f[i] = f[i - 1] \o <<>>[i]
  BY <1>1
<1> HIDE DEF f
<1> QED
  BY <1>1, <1>2, ConcatUnique

\* A chunk more, before a list that is newest first.
LEMMA ChunkAdded ==
    ASSUME NEW chunks \in Seq(Seq(Nat)), NEW x \in Seq(Nat)
    PROVE /\ <<x>> \o chunks \in Seq(Seq(Nat))
          /\ Concat(Reverse(<<x>> \o chunks)) = Concat(Reverse(chunks)) \o x
<1>1. <<x>> \in Seq(Seq(Nat)) /\ Reverse(<<x>>) = <<x>>
  BY DEF Reverse
<1>2. Reverse(chunks) \in Seq(Seq(Nat))
  BY ReverseProperties
<1>3. Reverse(<<x>> \o chunks) = Reverse(chunks) \o <<x>>
  BY <1>1, ReverseOfPush
<1>4. Reverse(chunks) \o <<x>> = Append(Reverse(chunks), x)
  BY <1>2, AppendIsConcat
<1>5. Concat(Append(Reverse(chunks), x)) = Concat(Reverse(chunks)) \o x
  BY <1>2, ConcatAppend
<1>6. <<x>> \o chunks \in Seq(Seq(Nat))
  BY <1>1, ConcatProperties
<1> QED
  BY <1>3, <1>4, <1>5, <1>6


-----------------------------------------------------------------------------
(* Packed command lines. *)

\* strlen finds the first NUL.
LEMMA NulFromIs ==
    ASSUME NEW buf, Len(buf) \in Nat, NEW i \in Nat, NEW e \in i..Len(buf), buf[e] = 0,
           \A k \in i..(e - 1) : buf[k] # 0
    PROVE NulFrom(buf, i) = e
<1> DEFINE P(j) == buf[j] = 0 /\ \A k \in i..(j - 1) : buf[k] # 0
<1>1. P(e)
  OBVIOUS
<1>2. ASSUME NEW j \in i..Len(buf), P(j)
      PROVE j = e
  <2>1. ~(j < e)
    BY <1>2
  <2>2. ~(e < j)
    BY <1>2
  <2> QED
    BY <2>1, <2>2
<1>3. NulFrom(buf, i) = CHOOSE j \in i..Len(buf) : P(j)
  BY DEF NulFrom
<1> HIDE DEF P
<1> QED
  BY <1>1, <1>2, <1>3

\* Where the values of two lists in a row are.
LEMMA Joined ==
    ASSUME NEW S, NEW x \in Seq(S), NEW y \in Seq(S)
    PROVE /\ x \o y \in Seq(S) /\ Len(x) \in Nat /\ Len(y) \in Nat /\ Len(x \o y) = Len(x) + Len(y)
          /\ \A j \in 1..Len(x) : (x \o y)[j] = x[j]
          /\ \A j \in 1..Len(y) : (x \o y)[Len(x) + j] = y[j]
<1>1. Len(x) \in Nat /\ Len(y) \in Nat
  BY LenProperties
<1>2. /\ x \o y \in Seq(S) /\ Len(x \o y) = Len(x) + Len(y)
      /\ \A j \in 1..(Len(x) + Len(y)) : (x \o y)[j] = IF j <= Len(x) THEN x[j] ELSE y[j - Len(x)]
  BY ConcatProperties
<1>3. \A j \in 1..Len(x) : (x \o y)[j] = x[j]
  BY <1>1, <1>2
<1>4. ASSUME NEW j \in 1..Len(y)
      PROVE (x \o y)[Len(x) + j] = y[j]
  <2> DEFINE k == Len(x) + j
  <2>1. k \in 1..(Len(x) + Len(y)) /\ ~(k <= Len(x)) /\ k - Len(x) = j
    BY <1>1
  <2> HIDE DEF k
  <2>2. (x \o y)[k] = y[j]
    BY <1>2, <2>1
  <2> QED
    BY <2>2 DEF k
<1> QED
  BY <1>1, <1>2, <1>3, <1>4

\* The sequence f[n] begins with f[k].
BeginsWith(f, n, k) ==
    /\ Len(f[k]) \in Nat /\ Len(f[k]) <= Len(f[n])
    /\ \A j \in 1..Len(f[k]) : f[n][j] = f[k][j]

\* What is in front stays in front.
LEMMA ConcatFront ==
    ASSUME NEW S, NEW n \in Nat, NEW f \in [0..n -> Seq(S)], NEW p \in [1..n -> Seq(S)],
           \A i \in 1..n : f[i] = f[i - 1] \o p[i], NEW k \in 0..n
    PROVE BeginsWith(f, n, k)
<1>1. \A m \in 0..n : f[m] \in Seq(S) /\ Len(f[m]) \in Nat
  BY LenProperties
<1> DEFINE StartsAlike(m) == Len(f[k]) <= Len(f[m]) /\ \A j \in 1..Len(f[k]) : f[m][j] = f[k][j]
           T == {m \in 0..n : k <= m => StartsAlike(m)}
<1>2. StartsAlike(k)
  BY <1>1
<1>3. ASSUME NEW m \in 0..(n - 1), StartsAlike(m)
      PROVE StartsAlike(m + 1)
  <2>1. m \in 0..n /\ m + 1 \in 1..n /\ (m + 1) - 1 = m
    OBVIOUS
  <2>2. f[m + 1] = f[m] \o p[m + 1] /\ f[m] \in Seq(S) /\ p[m + 1] \in Seq(S) /\ Len(f[m]) \in Nat
        /\ Len(p[m + 1]) \in Nat
    BY <1>1, <2>1, LenProperties
  <2>3. /\ Len(f[m + 1]) = Len(f[m]) + Len(p[m + 1])
        /\ \A j \in 1..Len(f[m]) : f[m + 1][j] = f[m][j]
    <3> DEFINE x == f[m]
               y == p[m + 1]
    <3>1. x \in Seq(S) /\ y \in Seq(S) /\ f[m + 1] = x \o y
      BY <2>2
    <3> HIDE DEF x, y
    <3>2. Len(x \o y) = Len(x) + Len(y) /\ \A j \in 1..Len(x) : (x \o y)[j] = x[j]
      BY <3>1, Joined
    <3>3. Len(f[m + 1]) = Len(x) + Len(y) /\ \A j \in 1..Len(x) : f[m + 1][j] = x[j]
      BY <3>1, <3>2
    <3> QED
      BY <3>3 DEF x, y
  <2>4. k \in 0..n /\ Len(f[k]) \in Nat /\ Len(f[k]) <= Len(f[m])
        /\ \A j \in 1..Len(f[k]) : f[m][j] = f[k][j]
    BY <1>1, <1>3
  <2>5. Len(f[k]) <= Len(f[m + 1])
    <3> DEFINE a == Len(f[k])
               b == Len(f[m])
               e == Len(p[m + 1])
               d == Len(f[m + 1])
    <3>1. a \in Nat /\ b \in Nat /\ e \in Nat /\ d = b + e /\ a <= b
      BY <2>2, <2>3, <2>4
    <3> HIDE DEF a, b, e, d
    <3>2. a <= d
      BY <3>1
    <3> QED
      BY <3>2 DEF a, d
  <2>6. \A j \in 1..Len(f[k]) : j \in 1..Len(f[m])
    BY <2>2, <2>4
  <2>7. \A j \in 1..Len(f[k]) : f[m + 1][j] = f[k][j]
    BY <2>3, <2>4, <2>6
  <2> QED
    BY <2>5, <2>7
<1> HIDE DEF StartsAlike
<1>4. 0 \in T
  <2>1. k <= 0 => k = 0
    OBVIOUS
  <2> QED
    BY <1>2, <2>1
<1>5. ASSUME NEW m \in 0..(n - 1), m \in T
      PROVE m + 1 \in T
  <2>1. m + 1 \in 0..n
    OBVIOUS
  <2>2. CASE k <= m
    BY <1>3, <1>5, <2>1, <2>2
  <2>3. CASE k = m + 1
    BY <1>2, <2>1, <2>3
  <2>4. CASE ~(k <= m + 1)
    BY <2>1, <2>4
  <2> QED
    BY <2>2, <2>3, <2>4
<1> HIDE DEF T
<1>6. 0..n \subseteq T
  BY <1>4, <1>5, InductionUpTo
<1>7. n \in 0..n /\ k <= n
  OBVIOUS
<1>8. StartsAlike(n)
  BY <1>6, <1>7 DEF T
<1> QED
  BY <1>1, <1>8 DEF StartsAlike, BeginsWith

\* The child gets the arguments: what UnpackStrings finds is what pack-strings
\* was given.
LEMMA UnpackPack ==
    ASSUME NEW strs \in Seq(Seq(Char))
    PROVE UnpackStrings(PackStrings(strs), Len(strs)) = strs
<1> DEFINE n == Len(strs)
           S == Char \cup {0}
           p == [i \in 1..n |-> Append(strs[i], 0)]
           buf == PackStrings(strs)
<1>1. n \in Nat /\ DOMAIN strs = 1..n /\ \A i \in 1..n : strs[i] \in Seq(Char)
  BY LenProperties, ElementOfSeq
<1>2. ASSUME NEW i \in 1..n
      PROVE /\ Len(strs[i]) \in Nat /\ \A j \in 1..Len(strs[i]) : strs[i][j] \in Char
            /\ strs[i] \in Seq(S)
            /\ p[i] \in Seq(S) /\ Len(p[i]) = Len(strs[i]) + 1 /\ p[i][Len(strs[i]) + 1] = 0
            /\ \A j \in 1..Len(strs[i]) : p[i][j] = strs[i][j]
  <2>1. strs[i] \in Seq(Char) /\ Len(strs[i]) \in Nat /\ \A j \in 1..Len(strs[i]) : strs[i][j] \in Char
    BY <1>1, LenProperties, ElementOfSeq
  <2>2. strs[i] \in Seq(S) /\ 0 \in S
    BY <2>1
  <2> HIDE DEF S
  <2>3. /\ Append(strs[i], 0) \in Seq(S) /\ Len(Append(strs[i], 0)) = Len(strs[i]) + 1
        /\ Append(strs[i], 0)[Len(strs[i]) + 1] = 0
        /\ \A j \in 1..Len(strs[i]) : Append(strs[i], 0)[j] = strs[i][j]
    BY <2>2, AppendProperties
  <2> QED
    BY <2>1, <2>2, <2>3
<1>3. p \in Seq(Seq(S)) /\ Len(p) = n /\ p \in [1..n -> Seq(S)]
  BY <1>1, <1>2
<1>4. buf = Concat(p)
  BY <1>1 DEF PackStrings
<1> HIDE DEF n, S, p, buf
<1>5. PICK f \in [0..n -> Seq(S)] :
        /\ f[0] = <<>> /\ \A i \in 1..n : f[i] = f[i - 1] \o p[i]
        /\ Concat(p) = f[n]
  BY <1>3, ConcatSteps
<1> DEFINE L(i) == Len(f[i])
<1>6. buf = f[n] /\ buf \in Seq(S) /\ Len(buf) = L(n) /\ L(0) = 0
  BY <1>1, <1>4, <1>5
\* Where each string is.
<1>7. ASSUME NEW i \in 1..n
      PROVE /\ L(i - 1) \in Nat /\ L(i) \in Nat /\ L(i) = L(i - 1) + Len(strs[i]) + 1 /\ L(i) <= Len(buf)
            /\ \A j \in 1..Len(strs[i]) : buf[L(i - 1) + j] = strs[i][j]
            /\ buf[L(i)] = 0
  <2>1. i \in 0..n /\ i - 1 \in 0..n
    BY <1>1
  <2>2. /\ f[i - 1] \in Seq(S) /\ p[i] \in Seq(S) /\ f[i] = f[i - 1] \o p[i]
        /\ L(i - 1) \in Nat /\ Len(p[i]) \in Nat
    BY <1>3, <1>5, <2>1, LenProperties
  <2> DEFINE x == f[i - 1]
             y == p[i]
             z == f[i]
  <2>3. /\ Len(z) = Len(x) + Len(y)
        /\ \A j \in 1..Len(y) : z[Len(x) + j] = y[j]
    <3>1. x \in Seq(S) /\ y \in Seq(S) /\ z = x \o y
      BY <2>2
    <3> HIDE DEF x, y, z
    <3> QED
      BY <3>1, Joined
  <2>4. Len(z) \in Nat /\ Len(z) <= Len(buf) /\ \A j \in 1..Len(z) : buf[j] = z[j]
    <3>1. f \in [0..n -> Seq(S)] /\ p \in [1..n -> Seq(S)] /\ n \in Nat /\ i \in 0..n
          /\ \A k \in 1..n : f[k] = f[k - 1] \o p[k]
      BY <1>1, <1>3, <1>5, <2>1
    <3>2. Len(f[i]) \in Nat /\ Len(f[i]) <= Len(f[n]) /\ \A j \in 1..Len(f[i]) : f[n][j] = f[i][j]
      <4> HIDE DEF n, S, p, buf
      <4>1. BeginsWith(f, n, i)
        BY <3>1, ConcatFront
      <4> QED
        BY <4>1 DEF BeginsWith
    <3> QED
      BY <1>6, <3>2
  <2> DEFINE m == Len(strs[i])
  <2>5. L(i - 1) = Len(x) /\ L(i) = Len(z) /\ Len(x) \in Nat /\ Len(y) = m + 1 /\ m \in Nat
        /\ y[m + 1] = 0 /\ \A j \in 1..m : y[j] = strs[i][j]
    BY <1>2, <2>2
  <2> HIDE DEF L, x, y, z, m
  <2>6. ASSUME NEW j \in 1..(m + 1)
        PROVE buf[Len(x) + j] = y[j]
    <3> DEFINE k == Len(x) + j
    <3>1. k \in 1..Len(z)
      BY <2>3, <2>4, <2>5
    <3>2. buf[k] = z[k]
      <4> HIDE DEF k
      <4> QED
        BY <2>4, <3>1
    <3> QED
      BY <2>3, <2>5, <3>2
  <2>7. \A j \in 1..m : buf[Len(x) + j] = strs[i][j]
    <3>1. \A j \in 1..m : j \in 1..(m + 1)
      BY <2>5
    <3> QED
      BY <2>5, <2>6, <3>1
  <2>8. buf[Len(z)] = 0
    <3>1. m + 1 \in 1..(m + 1) /\ Len(x) + (m + 1) = Len(z)
      BY <2>3, <2>5
    <3>2. buf[Len(x) + (m + 1)] = y[m + 1]
      BY <2>6, <3>1
    <3> QED
      BY <2>5, <3>1, <3>2
  <2>9. Len(z) = Len(x) + m + 1
    BY <2>3, <2>5
  <2> QED
    BY <2>4, <2>5, <2>7, <2>8, <2>9 DEF m
<1> HIDE DEF L
<1>8. ASSUME NEW i \in 1..n
      PROVE NulFrom(buf, L(i - 1) + 1) = L(i)
  <2>1. /\ L(i - 1) \in Nat /\ L(i) \in Nat /\ L(i) = L(i - 1) + Len(strs[i]) + 1 /\ L(i) <= Len(buf)
        /\ \A j \in 1..Len(strs[i]) : buf[L(i - 1) + j] = strs[i][j] /\ strs[i][j] \in Char
        /\ buf[L(i)] = 0 /\ Len(strs[i]) \in Nat /\ Len(buf) \in Nat
    BY <1>2, <1>6, <1>7, LenProperties
  <2>2. ASSUME NEW k \in (L(i - 1) + 1)..(L(i) - 1)
        PROVE buf[k] # 0
    <3> DEFINE x == L(i - 1)
               m == Len(strs[i])
               j == k - x
    <3>1. x \in Nat /\ m \in Nat /\ L(i) = x + m + 1 /\ k \in (x + 1)..(L(i) - 1)
          /\ \A q \in 1..m : buf[x + q] \in Char
      BY <2>1
    <3> HIDE DEF x, m
    <3>2. j \in 1..m /\ x + j = k
      BY <3>1
    <3> HIDE DEF j
    <3>3. buf[x + j] \in Char
      BY <3>1, <3>2
    <3> QED
      BY <3>2, <3>3, OpsAssumption
  <2>3. L(i - 1) + 1 \in Nat /\ L(i) \in (L(i - 1) + 1)..Len(buf)
    BY <2>1
  <2> QED
    BY <2>1, <2>2, <2>3, NulFromIs
<1>9. ASSUME NEW i \in 1..n
      PROVE SubSeq(buf, L(i - 1) + 1, L(i) - 1) = strs[i]
  <2> DEFINE l == L(i - 1)
             m == Len(strs[i])
             a == l + 1
             b == L(i) - 1
             s == SubSeq(buf, a, b)
  <2>1. /\ l \in Nat /\ m \in Nat /\ L(i) = l + m + 1 /\ L(i) <= Len(buf)
        /\ \A j \in 1..m : buf[l + j] = strs[i][j]
        /\ Len(buf) \in Nat /\ \A j \in 1..Len(buf) : buf[j] \in S
    BY <1>2, <1>6, <1>7, LenProperties, ElementOfSeq
  <2> HIDE DEF l, m
  <2>2. /\ a \in Int /\ b \in Int /\ a \in 1..(Len(buf) + 1) /\ b <= Len(buf)
        /\ b - a + 1 = m /\ (IF a <= b THEN b - a + 1 ELSE 0) = m
        /\ \A j \in 1..m : a + j - 1 = l + j
    BY <2>1
  <2> HIDE DEF a, b
  <2>3. \A j \in a..b : buf[j] \in S
    BY <2>1, <2>2
  <2>4. /\ s \in Seq(S) /\ Len(s) = IF a <= b THEN b - a + 1 ELSE 0
        /\ \A j \in 1..(b - a + 1) : s[j] = buf[a + j - 1]
    BY <2>2, <2>3, SubSeqProperties
  <2> HIDE DEF s
  <2>5. Len(s) = m
    BY <2>2, <2>4
  <2>6. \A j \in 1..m : s[j] = buf[l + j]
    BY <2>2, <2>4
  <2>7. \A j \in 1..m : s[j] = strs[i][j]
    BY <2>1, <2>6
  <2>8. s = strs[i]
    BY <1>2, <2>4, <2>5, <2>7, SeqEqual DEF m
  <2> QED
    BY <2>8 DEF s, a, b, l
\* The scan visits the strings one after the other.
<1> DEFINE st == [i \in 1..n |-> L(i - 1) + 1]
<1>10. st = [i \in 1..n |-> IF i = 1 THEN 1 ELSE NulFrom(buf, st[i - 1]) + 1]
  <2>1. ASSUME NEW i \in 1..n
        PROVE st[i] = IF i = 1 THEN 1 ELSE NulFrom(buf, st[i - 1]) + 1
    <3>1. CASE i = 1
      <4>1. i - 1 = 0
        BY <3>1
      <4> QED
        BY <1>6, <3>1, <4>1
    <3>2. CASE i # 1
      <4>1. i - 1 \in 1..n
        BY <1>1, <3>2
      <4>2. st[i - 1] = L((i - 1) - 1) + 1 /\ NulFrom(buf, L((i - 1) - 1) + 1) = L(i - 1)
        BY <1>8, <4>1
      <4> QED
        BY <3>2, <4>2
    <3> QED
      BY <3>1, <3>2
  <2> QED
    BY <2>1
<1> HIDE DEF st
<1>11. PICK h : /\ h = [i \in 1..n |-> IF i = 1 THEN 1 ELSE NulFrom(buf, h[i - 1]) + 1]
                /\ UnpackStrings(buf, n) = [i \in 1..n |-> SubSeq(buf, h[i], NulFrom(buf, h[i]) - 1)]
  <2> DEFINE R(h) == h = [i \in 1..n |-> IF i = 1 THEN 1 ELSE NulFrom(buf, h[i - 1]) + 1]
  <2>1. R(st)
    BY <1>10
  <2>2. UnpackStrings(buf, n)
          = LET start == CHOOSE h : R(h) IN [i \in 1..n |-> SubSeq(buf, start[i], NulFrom(buf, start[i]) - 1)]
    BY DEF UnpackStrings
  <2> DEFINE h0 == CHOOSE h : R(h)
  <2>3. R(h0)
    <3> HIDE DEF R
    <3> QED
      BY <2>1
  <2>4. UnpackStrings(buf, n) = [i \in 1..n |-> SubSeq(buf, h0[i], NulFrom(buf, h0[i]) - 1)]
    BY <2>2
  <2> HIDE DEF h0
  <2> QED
    BY <2>3, <2>4
<1>12. \A i \in 1..n : h[i] = IF i = 1 THEN 1 ELSE NulFrom(buf, h[i - 1]) + 1
  <2>1. \A k \in 1..n : [i \in 1..n |-> IF i = 1 THEN 1 ELSE NulFrom(buf, h[i - 1]) + 1][k]
                        = IF k = 1 THEN 1 ELSE NulFrom(buf, h[k - 1]) + 1
    OBVIOUS
  <2> QED
    BY <1>11, <2>1
<1>13. \A i \in 1..n : h[i] = L(i - 1) + 1
  <2> DEFINE T == {k \in 0..n : k \in 1..n => h[k] = L(k - 1) + 1}
  <2>1. 0 \in T
    BY <1>1
  <2>2. ASSUME NEW k \in 0..(n - 1), k \in T
        PROVE k + 1 \in T
    <3>1. k + 1 \in 1..n /\ k + 1 \in 0..n /\ (k + 1) - 1 = k
      BY <1>1
    <3>2. CASE k = 0
      <4>1. h[1] = 1 /\ L(0) + 1 = 1
        BY <1>6, <1>12, <3>1, <3>2
      <4> QED
        BY <3>1, <3>2, <4>1
    <3>3. CASE k # 0
      <4>1. k \in 1..n /\ k + 1 # 1
        BY <1>1, <3>3
      <4>2. h[k + 1] = NulFrom(buf, h[k]) + 1
        BY <1>12, <3>1, <4>1
      <4>3. h[k + 1] = L(k) + 1
        BY <1>8, <2>2, <4>1, <4>2
      <4> QED
        BY <3>1, <4>3
    <3> QED
      BY <3>2, <3>3
  <2> HIDE DEF T
  <2>3. 0..n \subseteq T
    BY <1>1, <2>1, <2>2, InductionUpTo
  <2>4. \A i \in 1..n : i \in 0..n
    BY <1>1
  <2> QED
    BY <2>3, <2>4 DEF T
<1>14. \A i \in 1..n : SubSeq(buf, h[i], NulFrom(buf, h[i]) - 1) = strs[i]
  BY <1>8, <1>9, <1>13
<1>15. UnpackStrings(buf, n) = [i \in 1..n |-> strs[i]]
  BY <1>11, <1>14
<1>16. strs = [i \in 1..n |-> strs[i]]
  BY <1>1 DEF n
<1> QED
  BY <1>15, <1>16 DEF n, buf

\* The command lines of a run are such lists.
LEMMA CommandsAreLists ==
    ASSUME NEW strs \in Commands
    PROVE strs \in Seq(Seq(Char)) /\ strs # <<>>
<1>1. PICK n \in 1..MaxArgs : strs \in [1..n -> Strings]
  BY DEF Commands
<1>2. Strings \subseteq Seq(Char)
  <2>1. <<>> \in Seq(Char)
    BY EmptySeq
  <2>2. \A x \in Char : <<x>> \in Seq(Char)
    OBVIOUS
  <2> QED
    BY <2>1, <2>2 DEF Strings
<1>3. n \in Nat /\ n # 0
  BY OpsAssumption
<1>4. strs \in Seq(Seq(Char)) /\ Len(strs) = n
  BY <1>1, <1>2, <1>3
<1> QED
  BY <1>3, <1>4, EmptySeq

-----------------------------------------------------------------------------
(* The answers of lookups. *)

\* The places of a list where an address occurs for the first time, and those of
\* them up to i.
New(res) == {i \in DOMAIN res : res[i] \in Address /\ \A j \in 1..(i - 1) : res[j] # res[i]}
NewUpTo(res, i) == {j \in New(res) : j <= i}
Rank(res, i) == Cardinality(NewUpTo(res, i))

\* What the recursion of Collect computes.
LEMMA CollectSteps ==
    ASSUME NEW S, NEW res \in Seq(S)
    PROVE \E f :
            /\ f[0] = <<>>
            /\ \A i \in 1..Len(res) :
                 f[i] = IF res[i] \in Address \ Range(f[i - 1]) THEN Append(f[i - 1], res[i]) ELSE f[i - 1]
            /\ Collect(res) = f[Len(res)]
<1> DEFINE n == Len(res)
           V == Seq(Address)
           Step(i, v) == IF res[i] \in Address \ Range(v) THEN Append(v, res[i]) ELSE v
           g == [i \in 1..n |-> [v \in V |-> Step(i, v)]]
           R(h) == h = [i \in 0..n |-> IF i = 0 THEN <<>> ELSE Step(i, h[i - 1])]
           e == <<>>
<1>1. n \in Nat /\ e \in V
  BY LenProperties, EmptySeq
<1>2. \A i \in 1..n : \A v \in V : Step(i, v) \in V
  BY AppendProperties
<1>3. \A i \in 1..n : \A v \in V : g[i][v] = Step(i, v)
  OBVIOUS
<1>4. Collect(res) = (CHOOSE h : R(h))[n]
  BY DEF Collect
<1> HIDE DEF n, V, Step, g, e
<1>5. PICK f : Iterates(f, V, e, n, g)
  BY <1>1, <1>2, <1>3, Iteration
<1>6. f \in [0..n -> V] /\ f[0] = e /\ \A i \in 1..n : f[i] = g[i][f[i - 1]]
  BY <1>5 DEF Iterates
<1>7. ASSUME NEW i \in 0..n
      PROVE f[i] = IF i = 0 THEN <<>> ELSE Step(i, f[i - 1])
  <2>1. CASE i = 0
    BY <1>6, <2>1 DEF e
  <2>2. CASE i # 0
    <3>1. i \in 1..n /\ i - 1 \in 0..n
      BY <1>1, <2>2
    <3>2. f[i - 1] \in V /\ f[i] = g[i][f[i - 1]]
      BY <1>6, <3>1
    <3> QED
      BY <1>3, <2>2, <3>1, <3>2
  <2> QED
    BY <2>1, <2>2
<1>8. R(f)
  <2>1. f = [i \in 0..n |-> f[i]]
    BY <1>6
  <2> QED
    BY <1>7, <2>1
<1> DEFINE h == CHOOSE k : R(k)
<1>9. R(h) /\ Collect(res) = h[n]
  <2>1. R(h)
    <3> HIDE DEF R
    <3> QED
      BY <1>8
  <2>2. Collect(res) = h[n]
    BY <1>4
  <2> QED
    BY <2>1, <2>2
<1> HIDE DEF h
<1>10. \A i \in 0..n : h[i] = IF i = 0 THEN <<>> ELSE Step(i, h[i - 1])
  <2>1. \A k \in 0..n : [i \in 0..n |-> IF i = 0 THEN <<>> ELSE Step(i, h[i - 1])][k]
                        = IF k = 0 THEN <<>> ELSE Step(k, h[k - 1])
    OBVIOUS
  <2> QED
    BY <1>9, <2>1
<1>11. h[0] = <<>> /\ \A i \in 1..n : h[i] = Step(i, h[i - 1])
  <2>1. 0 \in 0..n /\ \A i \in 1..n : i \in 0..n /\ i # 0
    BY <1>1
  <2> QED
    BY <1>10, <2>1
<1>12. \A i \in 1..n : h[i] = IF res[i] \in Address \ Range(h[i - 1]) THEN Append(h[i - 1], res[i]) ELSE h[i - 1]
  BY <1>11 DEF Step
<1> QED
  BY <1>9, <1>11, <1>12 DEF n

\* The places in order of their number.
LEMMA Ranks ==
    ASSUME NEW S, NEW res \in Seq(S)
    PROVE /\ New(res) \subseteq 1..Len(res) /\ Len(res) \in Nat
          /\ NewUpTo(res, Len(res)) = New(res) /\ NewUpTo(res, 0) = {} /\ Rank(res, 0) = 0
          /\ \A i \in 0..Len(res) : IsFiniteSet(NewUpTo(res, i)) /\ Rank(res, i) \in Nat
          /\ \A i \in 1..Len(res) :
               IF i \in New(res) THEN Rank(res, i) = Rank(res, i - 1) + 1
                                 ELSE Rank(res, i) = Rank(res, i - 1)
<1> DEFINE n == Len(res)
<1>1. n \in Nat /\ DOMAIN res = 1..n
  BY LenProperties
<1>2. New(res) \subseteq 1..n
  BY <1>1 DEF New
<1>3. NewUpTo(res, n) = New(res) /\ NewUpTo(res, 0) = {}
  BY <1>1, <1>2 DEF NewUpTo
<1>4. \A i \in 0..n : IsFiniteSet(NewUpTo(res, i)) /\ Rank(res, i) \in Nat
  <2>1. IsFiniteSet(1..n)
    BY <1>1, FS_Interval
  <2>2. \A i : NewUpTo(res, i) \subseteq 1..n
    BY <1>2 DEF NewUpTo
  <2> QED
    BY <2>1, <2>2, FS_Subset, FS_CardinalityType DEF Rank
<1>5. Rank(res, 0) = 0
  BY <1>3, FS_EmptySet DEF Rank
<1>6. ASSUME NEW i \in 1..n, i \in New(res)
      PROVE Rank(res, i) = Rank(res, i - 1) + 1
  <2>1. NewUpTo(res, i) = NewUpTo(res, i - 1) \cup {i} /\ i \notin NewUpTo(res, i - 1)
    BY <1>1, <1>2, <1>6 DEF NewUpTo
  <2>2. i - 1 \in 0..n
    BY <1>1
  <2>3. IsFiniteSet(NewUpTo(res, i - 1))
    BY <1>4, <2>2
  <2> QED
    BY <2>1, <2>3, FS_AddElement DEF Rank
<1>7. ASSUME NEW i \in 1..n, i \notin New(res)
      PROVE Rank(res, i) = Rank(res, i - 1)
  <2>1. NewUpTo(res, i) = NewUpTo(res, i - 1)
    BY <1>1, <1>2, <1>7 DEF NewUpTo
  <2> QED
    BY <2>1 DEF Rank
<1> QED
  BY <1>1, <1>2, <1>3, <1>4, <1>5, <1>6, <1>7

\* What Collect has after i entries: the new ones so far, each at its rank.
Collected(res, i, names) ==
    /\ names \in Seq(Address) /\ Len(names) = Rank(res, i)
    /\ \A m \in NewUpTo(res, i) : Rank(res, m) \in 1..Rank(res, i) /\ names[Rank(res, m)] = res[m]
    /\ \A a \in Address : a \in Range(names) <=> \E m \in 1..i : res[m] = a
    /\ \A k \in 1..Rank(res, i) : \E m \in NewUpTo(res, i) : Rank(res, m) = k

\* One more entry of the answer: kept if it is an address and new.
LEMMA CollectedNext ==
    ASSUME NEW S, NEW res \in Seq(S), NEW i \in 1..Len(res), NEW names, Collected(res, i - 1, names)
    PROVE Collected(res, i, IF res[i] \in Address \ Range(names) THEN Append(names, res[i]) ELSE names)
<1> DEFINE l == Rank(res, i - 1)
           x == res[i]
<1>1. /\ New(res) \subseteq 1..Len(res) /\ Len(res) \in Nat /\ DOMAIN res = 1..Len(res)
      /\ l \in Nat /\ IF i \in New(res) THEN Rank(res, i) = l + 1 ELSE Rank(res, i) = l
  <2>1. i - 1 \in 0..Len(res)
    BY LenProperties
  <2> QED
    BY <2>1, Ranks, LenProperties
<1>2. /\ names \in Seq(Address) /\ Len(names) = l
      /\ \A m \in NewUpTo(res, i - 1) : Rank(res, m) \in 1..l /\ names[Rank(res, m)] = res[m]
      /\ \A a \in Address : a \in Range(names) <=> \E m \in 1..(i - 1) : res[m] = a
      /\ \A k \in 1..l : \E m \in NewUpTo(res, i - 1) : Rank(res, m) = k
  BY DEF Collected
<1>3. i \in New(res) <=> x \in Address \ Range(names)
  BY <1>1, <1>2 DEF New
<1>4. i \in 1..i /\ \A m \in 1..i : m = i \/ m \in 1..(i - 1)
  OBVIOUS
<1>5. \A m \in 1..(i - 1) : m \in 1..i
  OBVIOUS
<1>6. CASE i \in New(res)
  <2> DEFINE more == Append(names, x)
  <2>1. /\ more \in Seq(Address) /\ Len(more) = l + 1 /\ more[l + 1] = x
        /\ \A k \in 1..l : more[k] = names[k]
    BY <1>2, <1>3, <1>6, AppendProperties
  <2>2. Range(more) = Range(names) \cup {x}
    BY <1>2, <1>3, <1>6, RangeAppend
  <2>3. NewUpTo(res, i) = NewUpTo(res, i - 1) \cup {i} /\ Rank(res, i) = l + 1
    BY <1>1, <1>6 DEF NewUpTo
  <2> HIDE DEF more, l
  <2>4. ASSUME NEW m \in NewUpTo(res, i)
        PROVE Rank(res, m) \in 1..(l + 1) /\ more[Rank(res, m)] = res[m]
    <3>1. CASE m = i
      BY <1>1, <2>1, <2>3, <3>1
    <3>2. CASE m \in NewUpTo(res, i - 1)
      <4>1. Rank(res, m) \in 1..l /\ names[Rank(res, m)] = res[m]
        BY <1>2, <3>2
      <4>2. Rank(res, m) \in 1..(l + 1)
        BY <1>1, <4>1
      <4> QED
        BY <2>1, <4>1, <4>2
    <3> QED
      BY <2>3, <3>1, <3>2
  <2>5. \A a \in Address : a \in Range(more) <=> \E m \in 1..i : res[m] = a
    BY <1>2, <1>4, <1>5, <2>2
  <2>6. ASSUME NEW k \in 1..(l + 1)
        PROVE \E m \in NewUpTo(res, i) : Rank(res, m) = k
    <3>1. k = l + 1 \/ k \in 1..l
      BY <1>1
    <3> QED
      BY <1>2, <2>3, <3>1
  <2>7. Collected(res, i, more)
    BY <2>1, <2>3, <2>4, <2>5, <2>6 DEF Collected
  <2> QED
    BY <1>3, <1>6, <2>7 DEF more
<1>7. CASE i \notin New(res)
  <2>1. NewUpTo(res, i) = NewUpTo(res, i - 1) /\ Rank(res, i) = l
    BY <1>1, <1>7 DEF NewUpTo
  <2>2. \A a \in Address : a \in Range(names) <=> \E m \in 1..i : res[m] = a
    BY <1>2, <1>3, <1>4, <1>5, <1>7
  <2> HIDE DEF l
  <2>3. Collected(res, i, names)
    BY <1>2, <2>1, <2>2 DEF Collected
  <2> QED
    BY <1>3, <1>7, <2>3
<1> QED
  BY <1>6, <1>7

\* on_getaddrinfo gives the distinct addresses in their order.
LEMMA CollectIsDistinct ==
    ASSUME NEW S, NEW res \in Seq(S)
    PROVE Collect(res) = Distinct(res) /\ Collect(res) \in Seq(Address)
<1> DEFINE n == Len(res)
<1>1. n \in Nat
  BY LenProperties
<1>2. PICK f :
        /\ f[0] = <<>>
        /\ \A i \in 1..n :
             f[i] = IF res[i] \in Address \ Range(f[i - 1]) THEN Append(f[i - 1], res[i]) ELSE f[i - 1]
        /\ Collect(res) = f[n]
  BY CollectSteps
<1> DEFINE T == {i \in 0..n : Collected(res, i, f[i])}
<1>3. 0 \in T
  <2>1. Rank(res, 0) = 0 /\ NewUpTo(res, 0) = {}
    BY Ranks
  <2>2. f[0] \in Seq(Address) /\ Len(f[0]) = 0 /\ Range(f[0]) = {}
    <3>1. <<>> \in Seq(Address) /\ Len(<<>>) = 0
      BY EmptySeq
    <3>2. Range(<<>>) = {}
      BY DEF Range
    <3> QED
      BY <1>2, <3>1, <3>2
  <2> QED
    BY <1>1, <2>1, <2>2 DEF Collected
<1>4. ASSUME NEW k \in 0..(n - 1), k \in T
      PROVE k + 1 \in T
  <2>1. k + 1 \in 1..n /\ k + 1 \in 0..n /\ (k + 1) - 1 = k
    BY <1>1
  <2> DEFINE i == k + 1
  <2>2. i \in 1..n /\ i \in 0..n /\ i - 1 = k
    BY <2>1
  <2> HIDE DEF i
  <2>3. Collected(res, i - 1, f[i - 1])
    BY <1>4, <2>2
  <2>4. Collected(res, i, f[i])
    BY <1>2, <2>2, <2>3, CollectedNext
  <2> QED
    BY <2>2, <2>4 DEF i
<1> HIDE DEF T
<1>5. 0..n \subseteq T
  BY <1>1, <1>3, <1>4, InductionUpTo
<1>6. n \in T
  BY <1>1, <1>5
<1> DEFINE c == Collect(res)
           r == Cardinality(New(res))
<1>7. Collected(res, n, c)
  BY <1>2, <1>6 DEF T
<1>8. /\ c \in Seq(Address) /\ Len(c) = r /\ r = Rank(res, n) /\ r \in Nat
      /\ \A m \in New(res) : c[Rank(res, m)] = res[m]
      /\ \A k \in 1..r : \E m \in New(res) : Rank(res, m) = k
  <2>1. NewUpTo(res, n) = New(res) /\ n \in 0..n
    BY <1>1, Ranks
  <2>2. Rank(res, n) = r /\ r \in Nat
    BY <2>1, Ranks DEF Rank
  <2> QED
    BY <1>7, <2>1, <2>2 DEF Collected
<1>9. Distinct(res) = [k \in 1..r |-> res[CHOOSE m \in New(res) : Rank(res, m) = k]]
  BY DEF Distinct, New, Rank, NewUpTo
<1>10. ASSUME NEW k \in 1..r
       PROVE c[k] = res[CHOOSE m \in New(res) : Rank(res, m) = k]
  <2> DEFINE m0 == CHOOSE m \in New(res) : Rank(res, m) = k
  <2>1. m0 \in New(res) /\ Rank(res, m0) = k
    BY <1>8
  <2> HIDE DEF m0
  <2>2. c[k] = res[m0]
    BY <1>8, <2>1
  <2> QED
    BY <2>2 DEF m0
<1> HIDE DEF c, r
<1>11. c = [k \in 1..r |-> c[k]]
  BY <1>8
<1>12. c = Distinct(res)
  BY <1>9, <1>10, <1>11
<1> QED
  BY <1>8, <1>12 DEF c

\* A list of addresses without duplicates is as it is.
LEMMA DistinctEntries ==
    ASSUME NEW answer \in Seq(Address), IsInjective(answer)
    PROVE Distinct(answer) = answer
<1> DEFINE n == Len(answer)
<1>1. n \in Nat /\ DOMAIN answer = 1..n /\ \A i \in 1..n : answer[i] \in Address
  BY LenProperties, ElementOfSeq
<1>2. ASSUME NEW i \in 1..n, NEW j \in 1..(i - 1)
      PROVE answer[j] # answer[i]
  <2>1. j \in 1..n /\ i # j
    BY <1>1
  <2> QED
    BY <1>1, <2>1 DEF IsInjective
<1>3. New(answer) = 1..n
  BY <1>1, <1>2 DEF New
<1>4. ASSUME NEW i \in 1..n
      PROVE Rank(answer, i) = i
  <2>1. NewUpTo(answer, i) = 1..i
    BY <1>1, <1>3 DEF NewUpTo
  <2>2. Cardinality(1..i) = i
    <3>1. 1 \in Int /\ i \in Int /\ 1 <= i
      BY <1>1
    <3>2. Cardinality(1..i) = IF 1 > i THEN 0 ELSE i - 1 + 1
      BY <3>1, FS_Interval
    <3> QED
      BY <3>1, <3>2
  <2> QED
    BY <2>1, <2>2 DEF Rank
<1>5. Cardinality(New(answer)) = n
  <2>1. 1 \in Int /\ n \in Int
    BY <1>1
  <2>2. Cardinality(1..n) = IF 1 > n THEN 0 ELSE n - 1 + 1
    BY <2>1, FS_Interval
  <2> QED
    BY <1>1, <1>3, <2>2
<1>6. Distinct(answer)
        = [k \in 1..Cardinality(New(answer)) |-> answer[CHOOSE m \in New(answer) : Rank(answer, m) = k]]
  BY DEF Distinct, New, Rank, NewUpTo
<1>7. ASSUME NEW k \in 1..n
      PROVE (CHOOSE m \in New(answer) : Rank(answer, m) = k) = k
  <2>1. k \in New(answer) /\ Rank(answer, k) = k /\ \A m \in New(answer) : Rank(answer, m) = k => m = k
    BY <1>3, <1>4
  <2> QED
    BY <2>1
<1>8. answer = [k \in 1..n |-> answer[k]]
  BY <1>1
<1> QED
  BY <1>5, <1>6, <1>7, <1>8

\* An empty answer has no addresses.
LEMMA DistinctEmpty == Distinct(<<>>) = <<>>
<1>1. <<>> \in Seq(Address) /\ IsInjective(<<>>)
  BY EmptySeq DEF IsInjective
<1> QED
  BY <1>1, DistinctEntries

-----------------------------------------------------------------------------
(* A step is a step of one caller. *)

\* g is f but for its value at c.
IsFcn(f) == f = [x \in DOMAIN f |-> f[x]]
EqualBut(f, g, c) ==
    /\ DOMAIN g = DOMAIN f /\ \A d \in DOMAIN f \ {c} : g[d] = f[d]
    /\ IsFcn(f) => IsFcn(g)

\* Nothing but what belongs to c changes.
OnlyAt(c) ==
    /\ EqualBut(task, task', c) /\ EqualBut(call, call', c) /\ EqualBut(prog, prog', c)
    /\ EqualBut(val, val', c) /\ EqualBut(acc, acc', c) /\ EqualBut(total, total', c)
    /\ EqualBut(source, source', c) /\ EqualBut(sink, sink', c) /\ EqualBut(given, given', c)
    /\ EqualBut(failed, failed', c) /\ EqualBut(args, args', c) /\ EqualBut(argv, argv', c)
    /\ EqualBut(child, child', c) /\ EqualBut(bytes, bytes', c)

\* What an update at c, and no update, leave alone.
LEMMA ExceptIsBut ==
    ASSUME NEW f, NEW c, NEW e
    PROVE EqualBut(f, f, c) /\ EqualBut(f, [f EXCEPT ![c] = e], c)
<1>1. IsFcn([f EXCEPT ![c] = e])
  BY DEF IsFcn
<1> QED
  BY <1>1 DEF EqualBut

\* What is the same for caller d in two states.
Same(d) ==
    /\ task'[d] = task[d] /\ call'[d] = call[d] /\ prog'[d] = prog[d]
    /\ val'[d] = val[d] /\ acc'[d] = acc[d] /\ total'[d] = total[d]
    /\ source'[d] = source[d] /\ sink'[d] = sink[d] /\ given'[d] = given[d]
    /\ failed'[d] = failed[d] /\ args'[d] = args[d] /\ argv'[d] = argv[d]
    /\ child'[d] = child[d] /\ bytes'[d] = bytes[d]

\* A caller nothing of which changes keeps its part of the invariant.
LEMMA SameCarried ==
    ASSUME NEW d \in Caller, Same(d), Carried(d)
    PROVE Carried(d)'
<1>1. Ok(d)' = Ok(d) /\ Got(d)' = Got(d) /\ Result(d)' = Result(d) /\ ReadInto(d)' = ReadInto(d)
      /\ Whole(d)' = Whole(d) /\ Supplied(d)' = Supplied(d)
  BY DEF Same, Ok, Got, Result, ReadInto, Whole, Supplied
<1>2. Untouched(d)' /\ Submitted(d)' /\ SinkData(d)' /\ ArgsData(d)'
  BY DEF Same, Carried, Untouched, Submitted, SinkData, ArgsData
<1>3. ChildAgrees(d)'
  BY <1>1 DEF Same, Carried, ChildAgrees
<1>4. LoopData(d)'
  BY <1>1 DEF Same, Carried, LoopData
<1>5. PipeData(d)'
  BY <1>1 DEF Same, Carried, PipeData
<1>6. ReceiveData(d)'
  BY <1>1 DEF Same, Carried, ReceiveData
<1>7. WriteData(d)'
  BY <1>1 DEF Same, Carried, WriteData
<1>8. AnswerData(d)' /\ ConnectData(d)'
  BY <1>1 DEF Same, Carried, AnswerData, ConnectData
<1> QED
  BY <1>2, <1>3, <1>4, <1>5, <1>6, <1>7, <1>8 DEF Carried

\* A step of c keeps the invariant when c's own data do.
LEMMA OneCaller ==
    ASSUME IInv, DataInv, NEW c \in Caller, OnlyAt(c), Carried(c)',
           source'[c] \in Seq(Nat), total'[c] \in Nat, child'[c] \in ChildType,
           bytes'[c] \in Seq(Nat), task'[c].result \in Int
    PROVE DataInv'
<1>1. DOMAIN task = Caller /\ DOMAIN call = Caller /\ DOMAIN prog = Caller /\ DOMAIN bytes = Bytevector
      /\ DOMAIN val = Caller /\ DOMAIN acc = Caller /\ DOMAIN sink = Caller /\ DOMAIN given = Caller
      /\ DOMAIN failed = Caller /\ DOMAIN args = Caller /\ DOMAIN argv = Caller
      /\ DOMAIN source = Caller /\ DOMAIN total = Caller /\ DOMAIN child = Caller
  BY DEF IInv, Shape, DataInv, DataShape
<1>2. Caller \subseteq Bytevector /\ Shared \in Bytevector /\ Shared # c
  BY RequestsAssumption DEF Bytevector
<1>3. ASSUME NEW d \in Caller \ {c}
      PROVE Same(d)
  BY <1>1, <1>2 DEF OnlyAt, EqualBut, Same
<1>4. \A d \in Caller : Carried(d)'
  BY <1>3, SameCarried DEF DataInv
<1>5. bytes' \in [Bytevector -> Seq(Nat)] /\ bytes'[Shared] = Content
  <2>1. DOMAIN bytes' = Bytevector /\ \A b \in Bytevector \ {c} : bytes'[b] = bytes[b]
    BY <1>1 DEF OnlyAt, EqualBut
  <2>2. bytes \in [Bytevector -> Seq(Nat)] /\ bytes[Shared] = Content
    BY DEF DataInv, DataShape
  <2>3. IsFcn(bytes)
    BY <2>2 DEF IsFcn
  <2>4. IsFcn(bytes')
    BY <2>3 DEF OnlyAt, EqualBut
  <2>5. bytes' = [b \in Bytevector |-> bytes'[b]]
    BY <2>1, <2>4 DEF IsFcn
  <2> QED
    BY <1>2, <2>1, <2>2, <2>5
<1>6. source' \in [Caller -> Seq(Nat)] /\ total' \in [Caller -> Nat]
      /\ child' \in [Caller -> ChildType] /\ \A d \in Caller : task'[d].result \in Int
  <2>1. IsFcn(source) /\ IsFcn(total) /\ IsFcn(child)
    BY DEF IsFcn, DataInv, DataShape
  <2>2. IsFcn(source') /\ IsFcn(total') /\ IsFcn(child')
    BY <2>1 DEF OnlyAt, EqualBut
  <2>3. DOMAIN source' = Caller /\ DOMAIN total' = Caller /\ DOMAIN child' = Caller
    BY <1>1 DEF OnlyAt, EqualBut
  <2>4. /\ source' = [d \in Caller |-> source'[d]] /\ total' = [d \in Caller |-> total'[d]]
        /\ child' = [d \in Caller |-> child'[d]]
    BY <2>2, <2>3 DEF IsFcn
  <2>5. \A d \in Caller : source'[d] \in Seq(Nat) /\ total'[d] \in Nat /\ child'[d] \in ChildType
                         /\ task'[d].result \in Int
    BY <1>3 DEF Same, DataInv, DataShape
  <2> QED
    BY <2>4, <2>5
<1>7. /\ DOMAIN val' = Caller /\ DOMAIN acc' = Caller /\ DOMAIN sink' = Caller
      /\ DOMAIN given' = Caller /\ DOMAIN failed' = Caller
      /\ DOMAIN args' = Caller /\ DOMAIN argv' = Caller
  BY <1>1 DEF OnlyAt, EqualBut
<1> QED
  BY <1>4, <1>5, <1>6, <1>7 DEF DataInv, DataShape

\* Nothing changes.
LEMMA NothingMoves ==
    ASSUME DataInv, UNCHANGED vars
    PROVE DataInv'
<1>1. UNCHANGED <<task, bytes, prog, call, val, acc, total, source, sink, given, failed, args, argv, child>>
  BY DEF vars, requestVars, localVars, osVars
<1>2. \A d \in Caller : Same(d)
  BY <1>1 DEF Same
<1>3. \A d \in Caller : Carried(d)'
  BY <1>2, SameCarried DEF DataInv
<1> QED
  BY <1>1, <1>3 DEF DataInv, DataShape

-----------------------------------------------------------------------------
(* What the steps change. *)

\* The loop thread leaves the parameters of a request alone.
TaskKept(c) ==
    /\ task'[c].op = task[c].op /\ task'[c].pin = task[c].pin
    /\ task'[c].nbytes = task[c].nbytes /\ task'[c].buffer = task[c].buffer

\* An update at c.
LEMMA UpdateAt ==
    ASSUME NEW f, NEW c \in DOMAIN f, NEW e
    PROVE EqualBut(f, [f EXCEPT ![c] = e], c) /\ [f EXCEPT ![c] = e][c] = e
  BY ExceptIsBut

\* Task::Complete: the stage, the result and the names.
LEMMA CompleteData ==
    ASSUME IInv, NEW c \in Caller, NEW r, NEW out, Complete(c, r, out)
    PROVE /\ EqualBut(task, task', c) /\ TaskKept(c)
          /\ task'[c].at = "done" /\ task'[c].result = r /\ task'[c].names = out
<1>1. DOMAIN task = Caller /\ DOMAIN task[c] = Fields
  BY DEF IInv, Shape
<1>2. PICK e : task' = [task EXCEPT ![c] = e]
               /\ e = [task[c] EXCEPT !.at = "done", !.result = r, !.names = out]
  BY DEF Complete
<1>3. EqualBut(task, task', c) /\ task'[c] = e
  BY <1>1, <1>2, UpdateAt
<1>4. /\ e.op = task[c].op /\ e.pin = task[c].pin /\ e.nbytes = task[c].nbytes
      /\ e.buffer = task[c].buffer /\ e.at = "done" /\ e.result = r /\ e.names = out
  BY <1>1, <1>2 DEF Fields
<1> QED
  BY <1>3, <1>4 DEF TaskKept

\* The request of c moves to another stage.
LEMMA StageData ==
    ASSUME IInv, NEW c \in Caller, NEW stage, task' = [task EXCEPT ![c].at = stage]
    PROVE /\ EqualBut(task, task', c) /\ TaskKept(c)
          /\ task'[c].at = stage /\ task'[c].result = task[c].result
<1>1. DOMAIN task = Caller /\ DOMAIN task[c] = Fields
  BY DEF IInv, Shape
<1>2. PICK e : task' = [task EXCEPT ![c] = e] /\ e = [task[c] EXCEPT !.at = stage]
  OBVIOUS
<1>3. EqualBut(task, task', c) /\ task'[c] = e
  BY <1>1, <1>2, UpdateAt
<1>4. /\ e.op = task[c].op /\ e.pin = task[c].pin /\ e.nbytes = task[c].nbytes
      /\ e.buffer = task[c].buffer /\ e.at = stage /\ e.result = task[c].result
  BY <1>1, <1>2 DEF Fields
<1> QED
  BY <1>3, <1>4 DEF TaskKept

\* The end of a read: the stage, the result and the buffer.
LEMMA ReadEndsData ==
    ASSUME IInv, NEW c \in Caller, NEW data, ReadEnds(c, data)
    PROVE /\ EqualBut(task, task', c)
          /\ task'[c].op = task[c].op /\ task'[c].pin = task[c].pin /\ task'[c].nbytes = task[c].nbytes
          /\ task'[c].buffer = IF task[c].pin = NoBuffer THEN Filled(task[c].buffer, data) ELSE task[c].buffer
          /\ task'[c].at = "done" /\ task'[c].result = Len(data)
<1>1. DOMAIN task = Caller /\ DOMAIN task[c] = Fields
  BY DEF IInv, Shape
<1> DEFINE b == IF task[c].pin = NoBuffer THEN Filled(task[c].buffer, data) ELSE task[c].buffer
<1>2. PICK e : task' = [task EXCEPT ![c] = e]
               /\ e = [task[c] EXCEPT !.at = "done", !.result = Len(data), !.buffer = b]
  BY DEF ReadEnds
<1>3. EqualBut(task, task', c) /\ task'[c] = e
  BY <1>1, <1>2, UpdateAt
<1> HIDE DEF b
<1>4. /\ e.op = task[c].op /\ e.pin = task[c].pin /\ e.nbytes = task[c].nbytes
      /\ e.buffer = b /\ e.at = "done" /\ e.result = Len(data)
  BY <1>1, <1>2 DEF Fields
<1> QED
  BY <1>3, <1>4 DEF b

\* The caller submits its next request, or frees its last.
LEMMA TurnData ==
    ASSUME IInv, NEW c \in Caller, NEW t, Turn(c, t)
    PROVE EqualBut(task, task', c) /\ task'[c] = t
  BY UpdateAt DEF IInv, Shape, Turn

\* The fields of a request.
LEMMA RequestFields ==
    /\ \A o, n, data : LET t == new_task(o, n, data) IN
         /\ t.op = o /\ t.at = "queued" /\ t.nbytes = n /\ t.buffer = data /\ t.pin = NoBuffer
         /\ t.result = 0
    /\ \A o, b, n : LET t == new_pinned_task(o, b, n) IN
         /\ t.op = o /\ t.at = "queued" /\ t.nbytes = n /\ t.pin = b /\ t.result = 0
    /\ NoTask.at = "none" /\ NoTask.result = 0
  BY DEF new_task, new_pinned_task, NoTask

\* What the loop thread and the system leave alone at c, and how c is.
LoopKeeps(c) ==
    /\ call'[c] = call[c] /\ prog'[c] = prog[c] /\ val'[c] = val[c] /\ acc'[c] = acc[c]
    /\ total'[c] = total[c] /\ args'[c] = args[c]

\* The parts of the invariant that such a step cannot disturb.
LEMMA LoopKeepsData ==
    ASSUME NEW c \in Caller, call[c] = "busy", Carried(c), LoopKeeps(c), TaskKept(c),
           sink'[c] = sink[c], argv'[c] = argv[c]
    PROVE Untouched(c)' /\ Submitted(c)' /\ SinkData(c)' /\ ArgsData(c)'
  BY DEF Carried, LoopKeeps, TaskKept, Untouched, Submitted, SinkData, ArgsData

\* The request goes on: nothing has ended.
LEMMA GoingOnData ==
    ASSUME NEW c \in Caller, call[c] = "busy", Carried(c), LoopKeeps(c), TaskKept(c),
           task[c].at # "done", task'[c].at # "done", sink'[c] = sink[c], argv'[c] = argv[c],
           source'[c] = source[c], given'[c] = given[c], failed'[c] = failed[c], child'[c] = child[c],
           bytes'[c] = bytes[c]
    PROVE Carried(c)'
<1>1. Ok(c) /\ Ok(c)' /\ Got(c) = 0 /\ Got(c)' = 0 /\ Whole(c)' = Whole(c) /\ Supplied(c)' = Supplied(c)
  BY DEF Ok, Got, Whole, Supplied, LoopKeeps
<1>2. Untouched(c)' /\ Submitted(c)' /\ SinkData(c)' /\ ArgsData(c)'
  BY LoopKeepsData
<1>3. ChildAgrees(c)'
  BY <1>1 DEF Carried, LoopKeeps, TaskKept, ChildAgrees
<1>4. LoopData(c)'
  BY <1>1 DEF Carried, LoopKeeps, TaskKept, LoopData
<1>5. PipeData(c)'
  BY <1>1 DEF Carried, LoopKeeps, TaskKept, PipeData
<1>6. ReceiveData(c)'
  BY <1>1 DEF Carried, LoopKeeps, TaskKept, ReceiveData
<1>7. WriteData(c)'
  BY <1>1 DEF Carried, LoopKeeps, TaskKept, WriteData
<1>8. AnswerData(c)' /\ ConnectData(c)'
  BY <1>1 DEF Carried, LoopKeeps, TaskKept, AnswerData, ConnectData
<1> QED
  BY <1>2, <1>3, <1>4, <1>5, <1>6, <1>7, <1>8 DEF Carried

\* The request ends with an error: a lookup found nothing, and an address that
\* could not be connected to is noted.
LEMMA ErrorData ==
    ASSUME NEW c \in Caller, call[c] = "busy", Carried(c), LoopKeeps(c), TaskKept(c),
           prog[c] = "connect" => task[c].op \in {"dns", "connect"},
           task[c].at # "done", task'[c].at = "done", task'[c].result \in Int, task'[c].result < 0,
           sink'[c] = sink[c], argv'[c] = argv[c],
           source'[c] = source[c], child'[c] = child[c], bytes'[c] = bytes[c],
           task[c].op = "connect" =>
             given'[c] = given[c] /\ failed'[c] = Append(failed[c], Head(acc[c])),
           task[c].op = "dns" => Distinct(given'[c]) = <<>> /\ failed'[c] = failed[c]
    PROVE Carried(c)'
<1>1. Ok(c) /\ ~Ok(c)' /\ Result(c)' < 0 /\ ~(Result(c)' >= 0)
  BY DEF Ok, Result
<1>2. Untouched(c)' /\ Submitted(c)' /\ SinkData(c)' /\ ArgsData(c)'
  BY LoopKeepsData
<1>3. ChildAgrees(c)'
  BY <1>1 DEF Carried, LoopKeeps, TaskKept, ChildAgrees
<1>4. LoopData(c)' /\ PipeData(c)' /\ ReceiveData(c)'
  BY <1>1 DEF LoopKeeps, LoopData, PipeData, ReceiveData
<1>5. WriteData(c)'
  BY <1>1 DEF Carried, LoopKeeps, TaskKept, WriteData
<1>6. AnswerData(c)'
  BY <1>1 DEF LoopKeeps, AnswerData
<1>7. ASSUME prog[c] = "connect", task[c].op = "connect"
      PROVE ConnectData(c)'
  <2>1. /\ acc[c] \in Seq(Address) /\ acc[c] # <<>> /\ failed[c] \in Seq(Address) /\ val[c] = <<>>
        /\ failed[c] \o acc[c] = Distinct(given[c])
    BY <1>1, <1>7 DEF Carried, ConnectData
  <2>2. Head(acc[c]) \in Address
    BY <2>1, RangeTail
  <2>3. Append(failed[c], Head(acc[c])) \in Seq(Address)
    BY <2>1, <2>2, AppendProperties
  <2>4. Append(failed[c], Head(acc[c])) \o Tail(acc[c]) = failed[c] \o acc[c]
    BY <2>1, MoveFront
  <2> QED
    BY <1>1, <1>7, <2>1, <2>3, <2>4 DEF ConnectData, LoopKeeps, TaskKept
<1>8. ASSUME prog[c] = "connect", task[c].op = "dns"
      PROVE ConnectData(c)'
  BY <1>1, <1>8 DEF Carried, ConnectData, LoopKeeps, TaskKept
<1>9. ConnectData(c)'
  <2>1. CASE prog[c] # "connect"
    BY <2>1 DEF ConnectData, LoopKeeps
  <2> QED
    BY <1>7, <1>8, <2>1
<1> QED
  BY <1>2, <1>3, <1>4, <1>5, <1>6, <1>9 DEF Carried

\* A request that moves no data ends well: an open, a close, a connect, a wait.
LEMMA PlainEndData ==
    ASSUME NEW c \in Caller, call[c] = "busy", Carried(c), LoopKeeps(c), TaskKept(c),
           prog[c] \notin {"simple", "receive", "send", "pipe"},
           task[c].op \notin ReadOp \cup WriteOp \cup {"spawn", "dns"},
           task[c].at # "done", task'[c].at = "done", task'[c].result \in Nat,
           sink'[c] = sink[c], argv'[c] = argv[c], source'[c] = source[c], given'[c] = given[c],
           failed'[c] = failed[c], bytes'[c] = bytes[c],
           child'[c].out = child[c].out, child'[c].out # 0 => child'[c].state = child[c].state,
           child'[c].state = "none" <=> child[c].state = "none"
    PROVE Carried(c)'
<1>1. Ok(c) /\ Ok(c)' /\ Result(c)' >= 0 /\ ~(Result(c)' < 0)
      /\ Whole(c)' = Whole(c) /\ Supplied(c)' = Supplied(c)
  BY DEF Ok, Result, Whole, Supplied, LoopKeeps
<1>2. Untouched(c)' /\ Submitted(c)' /\ SinkData(c)' /\ ArgsData(c)'
  BY LoopKeepsData
<1>3. ChildAgrees(c)'
  BY <1>1 DEF Carried, LoopKeeps, TaskKept, ChildAgrees
<1>4. LoopData(c)'
  BY <1>1 DEF Carried, LoopKeeps, TaskKept, LoopData
<1>5. PipeData(c)' /\ ReceiveData(c)' /\ AnswerData(c)'
  BY DEF LoopKeeps, PipeData, ReceiveData, AnswerData
<1>6. WriteData(c)'
  BY <1>1 DEF Carried, LoopKeeps, TaskKept, WriteData
<1>7. ConnectData(c)'
  BY <1>1 DEF Carried, LoopKeeps, TaskKept, ConnectData
<1> QED
  BY <1>2, <1>3, <1>4, <1>5, <1>6, <1>7 DEF Carried

\* A simple call has its answer.
LEMMA AnswerEndData ==
    ASSUME NEW c \in Caller, call[c] = "busy", Carried(c), LoopKeeps(c), TaskKept(c),
           prog[c] = "simple", task'[c].at = "done", task'[c].names = Distinct(given'[c]),
           sink'[c] = sink[c], argv'[c] = argv[c], child'[c] = child[c]
    PROVE Carried(c)'
<1>1. Untouched(c)' /\ Submitted(c)' /\ SinkData(c)' /\ ArgsData(c)'
  BY LoopKeepsData
<1>2. ChildAgrees(c)'
  BY DEF Carried, LoopKeeps, ChildAgrees
<1>3. LoopData(c)' /\ PipeData(c)' /\ ReceiveData(c)' /\ WriteData(c)' /\ ConnectData(c)'
  BY DEF LoopKeeps, LoopData, PipeData, ReceiveData, WriteData, ConnectData
<1>4. AnswerData(c)'
  BY DEF LoopKeeps, AnswerData
<1> QED
  BY <1>1, <1>2, <1>3, <1>4 DEF Carried

\* io-tcp-connect has the addresses.
LEMMA LookupEndData ==
    ASSUME NEW c \in Caller, call[c] = "busy", Carried(c), LoopKeeps(c), TaskKept(c),
           prog[c] = "connect", task[c].op = "dns", task[c].at # "done",
           task'[c].at = "done", task'[c].result = 0, task'[c].names = Distinct(given'[c]),
           task'[c].names # <<>>, task'[c].names \in Seq(Address), failed'[c] = failed[c],
           sink'[c] = sink[c], argv'[c] = argv[c], child'[c] = child[c]
    PROVE Carried(c)'
<1>1. Untouched(c)' /\ Submitted(c)' /\ SinkData(c)' /\ ArgsData(c)'
  BY LoopKeepsData
<1>2. ChildAgrees(c)'
  BY DEF Carried, LoopKeeps, ChildAgrees
<1>3. LoopData(c)' /\ PipeData(c)' /\ ReceiveData(c)' /\ WriteData(c)' /\ AnswerData(c)'
  BY DEF LoopKeeps, LoopData, PipeData, ReceiveData, WriteData, AnswerData
<1>4. ~(Result(c)' < 0)
  BY DEF Result
<1>5. ConnectData(c)'
  BY <1>4 DEF Carried, LoopKeeps, TaskKept, ConnectData
<1> QED
  BY <1>1, <1>2, <1>3, <1>5 DEF Carried

\* The child goes on without writing to stdout.
LEMMA ChildGoesOnData ==
    ASSUME NEW c \in Caller, Carried(c), LoopKeeps(c), task'[c] = task[c],
           sink'[c] = sink[c], argv'[c] = argv[c], source'[c] = source[c], given'[c] = given[c],
           failed'[c] = failed[c], bytes'[c] = bytes[c], child[c] # NoChild,
           child'[c].out = child[c].out, child'[c].out # 0 => child'[c].state = child[c].state,
           child'[c].state = "none" <=> child[c].state = "none"
    PROVE Carried(c)'
<1>1. Ok(c)' = Ok(c) /\ Got(c)' = Got(c) /\ Result(c)' = Result(c) /\ ReadInto(c)' = ReadInto(c)
      /\ Whole(c)' = Whole(c) /\ Supplied(c)' = Supplied(c)
  BY DEF Ok, Got, Result, ReadInto, Whole, Supplied, LoopKeeps
<1>2. call[c] # "no"
  BY DEF Carried, Untouched
<1>3. Untouched(c)' /\ Submitted(c)' /\ SinkData(c)' /\ ArgsData(c)'
  BY <1>2 DEF Carried, LoopKeeps, Untouched, Submitted, SinkData, ArgsData
<1>4. ChildAgrees(c)'
  BY <1>1 DEF Carried, LoopKeeps, ChildAgrees
<1>5. LoopData(c)'
  BY <1>1 DEF Carried, LoopKeeps, LoopData
<1>6. PipeData(c)'
  BY <1>1 DEF Carried, LoopKeeps, PipeData
<1>7. ReceiveData(c)'
  BY <1>1 DEF Carried, LoopKeeps, ReceiveData
<1>8. WriteData(c)'
  BY <1>1 DEF Carried, LoopKeeps, WriteData
<1>9. AnswerData(c)' /\ ConnectData(c)'
  BY <1>1 DEF Carried, LoopKeeps, AnswerData, ConnectData
<1> QED
  BY <1>3, <1>4, <1>5, <1>6, <1>7, <1>8, <1>9 DEF Carried

\* The child writes the next byte behind what it has written.
LEMMA ChildWritesData ==
    ASSUME DataInv, NEW c \in Caller, ChildWritesOut(c), LoopKeeps(c), task'[c] = task[c],
           sink'[c] = sink[c], argv'[c] = argv[c], given'[c] = given[c], failed'[c] = failed[c],
           bytes'[c] = bytes[c], source'[c] = Append(source[c], OutLen - child[c].out + 1),
           child'[c].out = child[c].out - 1, child'[c].state = child[c].state
    PROVE Carried(c)'
<1> DEFINE s == Supplied(c)
<1>1. Carried(c) /\ OutLen \in Nat /\ child[c].out \in 1..OutLen
  <2>1. child[c].out \in 0..OutLen /\ child[c].out > 0
    BY DEF DataInv, DataShape, ChildType, ChildWritesOut
  <2> QED
    BY <2>1, OpsAssumption DEF DataInv
<1>2. prog[c] = "output" /\ child[c].state = "running"
  BY <1>1 DEF Carried, ChildAgrees
<1>3. s = OutLen - child[c].out /\ s \in Nat /\ Supplied(c)' = s + 1
      /\ source'[c] = Append(source[c], s + 1)
  BY <1>1, <1>2 DEF Supplied, LoopKeeps
<1>4. Ok(c)' = Ok(c) /\ Got(c)' = Got(c) /\ Result(c)' = Result(c) /\ ReadInto(c)' = ReadInto(c)
      /\ Whole(c)' = Whole(c)
  BY DEF Ok, Got, Result, ReadInto, Whole, LoopKeeps
<1>5. call[c] # "no"
  BY <1>1, <1>2 DEF Carried, Untouched, NoChild
<1>6. Untouched(c)' /\ Submitted(c)' /\ SinkData(c)' /\ ArgsData(c)'
  BY <1>1, <1>5 DEF Carried, LoopKeeps, Untouched, Submitted, SinkData, ArgsData
<1>7. ChildAgrees(c)'
  BY <1>1, <1>2, <1>4 DEF Carried, LoopKeeps, ChildAgrees
<1> HIDE DEF s
<1>8. ASSUME NEW a \in Nat, a <= s, source[c] = Span(a, s)
      PROVE source'[c] = Span(a, Supplied(c)') /\ a <= Supplied(c)'
  <2>1. Append(Span(a, s), s + 1) = Span(a, s + 1)
    BY <1>3, <1>8, SpanAppend
  <2> QED
    BY <1>3, <1>8, <2>1
<1>9. LoopData(c)'
  <2> SUFFICES ASSUME call[c] = "busy", Ok(c)
               PROVE /\ acc[c] \in Seq(Seq(Nat)) /\ Concat(Reverse(acc[c])) = Span(0, total[c])
                     /\ task[c].op \in {"fs_open", "spawn", "close_stdin"} =>
                          total[c] = 0 /\ source'[c] = Span(0, Supplied(c)')
                     /\ task[c].op \in ReadOp =>
                          /\ Got(c) \in Nat /\ total[c] + Got(c) <= Supplied(c)'
                          /\ source'[c] = Span(total[c] + Got(c), Supplied(c)')
                          /\ task[c].at = "done" =>
                               /\ ReadInto(c) = Span(total[c], total[c] + Result(c))
                               /\ Result(c) = 0 => total[c] = Whole(c)
                     /\ task[c].op \in {"fs_close", "close_stdout", "close_stderr", "wait", "close_proc"} =>
                          total[c] = Whole(c)
    BY <1>1, <1>2, <1>4 DEF Carried, LoopKeeps, LoopData
  <2>1. /\ acc[c] \in Seq(Seq(Nat)) /\ Concat(Reverse(acc[c])) = Span(0, total[c])
        /\ task[c].op \in {"fs_open", "spawn", "close_stdin"} =>
             total[c] = 0 /\ source[c] = Span(0, s)
        /\ task[c].op \in ReadOp =>
             /\ Got(c) \in Nat /\ total[c] + Got(c) <= s
             /\ source[c] = Span(total[c] + Got(c), s)
             /\ task[c].at = "done" =>
                  /\ ReadInto(c) = Span(total[c], total[c] + Result(c))
                  /\ Result(c) = 0 => total[c] = Whole(c)
        /\ task[c].op \in {"fs_close", "close_stdout", "close_stderr", "wait", "close_proc"} =>
             total[c] = Whole(c)
    BY <1>1, <1>2 DEF Carried, LoopData, s
  <2>2. ASSUME task[c].op \in {"fs_open", "spawn", "close_stdin"}
        PROVE source'[c] = Span(0, Supplied(c)')
    <3>1. 0 \in Nat /\ 0 <= s /\ source[c] = Span(0, s)
      BY <1>3, <2>1, <2>2
    <3> QED
      BY <1>8, <3>1
  <2>3. ASSUME task[c].op \in ReadOp
        PROVE total[c] + Got(c) <= Supplied(c)' /\ source'[c] = Span(total[c] + Got(c), Supplied(c)')
    <3>1. total[c] + Got(c) \in Nat /\ total[c] + Got(c) <= s /\ source[c] = Span(total[c] + Got(c), s)
      BY <2>1, <2>3 DEF DataInv, DataShape
    <3> QED
      BY <1>8, <3>1
  <2> QED
    BY <2>1, <2>2, <2>3
<1>10. PipeData(c)' /\ ReceiveData(c)' /\ WriteData(c)' /\ AnswerData(c)' /\ ConnectData(c)'
  BY <1>2 DEF LoopKeeps, PipeData, ReceiveData, WriteData, AnswerData, ConnectData
<1> QED
  BY <1>6, <1>7, <1>9, <1>10 DEF Carried

\* Which calls read and write.
LEMMA CallOfData ==
    ASSUME NEW p \in Prog, NEW o \in RequestsOf(p)
    PROVE /\ o \in ReadOp => p \in {"read_file", "receive", "pipe", "output"}
          /\ o \in WriteOp => p \in {"write_file", "send", "pipe"}
          /\ p = "connect" => o \in {"dns", "connect"}
<1>1. CASE p = "simple"
  BY <1>1 DEF RequestsOf, SimpleOp, FsPathOp, FsVoidOp, ReadOp, WriteOp
<1>2. CASE p # "simple"
  BY <1>2 DEF RequestsOf, Prog, ReadOp, WriteOp
<1> QED
  BY <1>1, <1>2

\* What a read of n bytes takes from the front of the source, and what it leaves.
Taken(a, b, n) ==
    /\ a + n <= b /\ SubSeq(Span(a, b), 1, n) = Span(a, a + n)
    /\ SubSeq(Span(a, b), 1, n) \in Seq(Nat) /\ Len(SubSeq(Span(a, b), 1, n)) = n
    /\ SubSeq(Span(a, b), n + 1, Len(Span(a, b))) = Span(a + n, b)
    /\ Span(a + n, b) \in Seq(Nat)
    /\ Span(a, b) = <<>> => a = b

\* A read of what there is takes the front of it.
LEMMA TakenFront ==
    ASSUME NEW a \in Nat, NEW b \in Nat, a <= b, NEW n \in Nat, n <= Len(Span(a, b))
    PROVE Taken(a, b, n)
<1>1. Len(Span(a, b)) = b - a
  BY SpanProperties
<1>2. a + n \in Nat /\ a <= a + n /\ a + n <= b /\ (a + n) - a = n
  BY <1>1
<1>3. SubSeq(Span(a, b), 1, n) = Span(a, a + n)
      /\ SubSeq(Span(a, b), n + 1, Len(Span(a, b))) = Span(a + n, b)
  BY <1>2, SpanParts
<1>4. Span(a, a + n) \in Seq(Nat) /\ Len(Span(a, a + n)) = (a + n) - a
  BY <1>2, SpanProperties
<1>5. Span(a + n, b) \in Seq(Nat)
  BY <1>2, SpanProperties
<1>6. Span(a, b) = <<>> => a = b
  BY SpanEmpty
<1> QED
  BY <1>2, <1>3, <1>4, <1>5, <1>6 DEF Taken

\* A read ends: n bytes more are with the caller, the others with the source.
LEMMA ReadDoneData ==
    ASSUME IInv, DataInv, NEW c \in Caller, ReadDone(c)
    PROVE DataInv'
<1> DEFINE w == Supplied(c)
           k == total[c]
           o == task[c].op
           p == prog[c]
<1>1. PICK n \in 0..task[c].nbytes :
        /\ n <= Len(source[c]) /\ (n = 0 <=> AtEnd(c)) /\ ReadEnds(c, SubSeq(source[c], 1, n))
        /\ source' = [source EXCEPT ![c] = SubSeq(source[c], n + 1, Len(source[c]))]
  BY DEF ReadDone
<1> DEFINE data == SubSeq(source[c], 1, n)
<1>2. /\ UNCHANGED <<prog, call, val, acc, total, args, sink, given, failed, argv, child>>
      /\ task[c].at = "uv" /\ o \in ReadOp /\ n \in Nat
  BY <1>1 DEF ReadDone, Pending, schemeVars, localVars, ReadOp
<1>3. call[c] = "busy" /\ p \in {"read_file", "receive", "pipe", "output"} /\ o \in RequestsOf(p)
  BY <1>2, UnderWay, CallOfData
<1>4. /\ Carried(c) /\ k \in Nat /\ source[c] \in Seq(Nat) /\ bytes[c] \in Seq(Nat)
      /\ bytes \in [Bytevector -> Seq(Nat)] /\ c \in Bytevector /\ c # NoBuffer /\ DOMAIN source = Caller
  BY RequestsAssumption DEF DataInv, DataShape, Bytevector
<1>5. /\ EqualBut(task, task', c)
      /\ task'[c].op = o /\ task'[c].pin = task[c].pin /\ task'[c].nbytes = task[c].nbytes
      /\ task'[c].buffer = IF task[c].pin = NoBuffer THEN Filled(task[c].buffer, data) ELSE task[c].buffer
      /\ task'[c].at = "done" /\ task'[c].result = Len(data)
  BY <1>1, ReadEndsData
<1>6. source'[c] = SubSeq(source[c], n + 1, Len(source[c])) /\ EqualBut(source, source', c)
  BY <1>1, <1>4, UpdateAt
<1>7. bytes' = [b \in Bytevector |-> IF b = task[c].pin THEN Filled(bytes[b], data) ELSE bytes[b]]
  BY <1>1 DEF ReadEnds
<1>8. task[c].pin = (IF p \in {"receive", "pipe"} THEN c ELSE NoBuffer)
      /\ (task[c].pin = NoBuffer => task[c].buffer \in Seq(Nat))
  BY <1>2, <1>3, <1>4 DEF Carried, Submitted
<1>9. Ok(c) /\ Got(c) = 0
  BY <1>2 DEF Ok, Got
\* Where the source begins.
<1> DEFINE a == IF p = "receive" THEN 0 ELSE k
           b == IF p = "output" THEN w ELSE SourceLen
<1>10. SourceLen \in Nat /\ OutLen \in Nat /\ child[c].out \in 0..OutLen
  BY OpsAssumption DEF DataInv, DataShape, ChildType
<1>11. w \in Nat /\ (p # "output" => w = SourceLen)
  BY <1>10 DEF Supplied
<1>12. a \in Nat /\ b \in Nat /\ a <= b /\ source[c] = Span(a, b)
  <2>1. CASE p \in {"read_file", "output"}
    <3>1. k + Got(c) <= w /\ source[c] = Span(k + Got(c), w)
      BY <1>2, <1>3, <1>4, <1>9, <2>1 DEF Carried, LoopData
    <3> QED
      BY <1>4, <1>9, <1>11, <2>1, <3>1
  <2>2. CASE p = "pipe"
    <3>1. o = "stream_read"
      BY <1>2, <1>3, <2>2 DEF RequestsOf, ReadOp
    <3>2. k + Got(c) <= SourceLen /\ source[c] = Span(k + Got(c), SourceLen)
      BY <1>3, <1>4, <1>9, <2>2, <3>1 DEF Carried, PipeData
    <3> QED
      BY <1>4, <1>9, <1>10, <2>2, <3>2
  <2>3. CASE p = "receive"
    <3>1. source[c] = Span(Got(c), SourceLen)
      BY <1>3, <1>4, <1>9, <2>3 DEF Carried, ReceiveData
    <3> QED
      BY <1>9, <1>10, <2>3, <3>1
  <2> QED
    BY <1>3, <2>1, <2>2, <2>3
<1>13. n = 0 => source[c] = <<>> /\ (p = "output" => child[c].state # "running")
  BY <1>1 DEF AtEnd
<1> HIDE DEF a, b, w, k, o, p
<1>14. /\ a + n <= b /\ data = Span(a, a + n) /\ data \in Seq(Nat) /\ Len(data) = n
       /\ source'[c] = Span(a + n, b) /\ source'[c] \in Seq(Nat) /\ (n = 0 => a = b)
  <2>1. n <= Len(Span(a, b))
    BY <1>1, <1>12
  <2> DEFINE s == Span(a, b)
  <2>2. /\ a + n <= b /\ SubSeq(s, 1, n) = Span(a, a + n) /\ SubSeq(s, 1, n) \in Seq(Nat)
        /\ Len(SubSeq(s, 1, n)) = n /\ SubSeq(s, n + 1, Len(s)) = Span(a + n, b)
        /\ Span(a + n, b) \in Seq(Nat) /\ (s = <<>> => a = b)
    <3>1. a \in Nat /\ b \in Nat /\ a <= b /\ n \in Nat
      BY <1>2, <1>12
    <3>2. Taken(a, b, n)
      BY <2>1, <3>1, TakenFront
    <3> QED
      BY <3>2 DEF Taken
  <2>3. source[c] = s
    BY <1>12
  <2> HIDE DEF s
  <2> QED
    BY <1>6, <1>13, <2>2, <2>3
<1> HIDE DEF data
<1>15. bytes'[c] = (IF p \in {"receive", "pipe"} THEN Filled(bytes[c], data) ELSE bytes[c])
       /\ bytes'[c] \in Seq(Nat)
  <2>1. bytes'[c] = (IF p \in {"receive", "pipe"} THEN Filled(bytes[c], data) ELSE bytes[c])
    BY <1>4, <1>7, <1>8
  <2>2. Filled(bytes[c], data) \in Seq(Nat)
    BY <1>4, <1>14, FilledFront
  <2> QED
    BY <1>4, <2>1, <2>2
<1>16. EqualBut(bytes, bytes', c)
  <2>1. DOMAIN bytes' = Bytevector /\ DOMAIN bytes = Bytevector
    BY <1>4, <1>7
  <2>2. \A x \in Bytevector \ {c} : bytes'[x] = bytes[x]
    <3>1. \A x \in Bytevector \ {c} : x # task[c].pin
      BY <1>8, RequestsAssumption DEF Bytevector
    <3> QED
      BY <1>7, <3>1
  <2>3. IsFcn(bytes')
    BY <1>7 DEF IsFcn
  <2> QED
    BY <2>1, <2>2, <2>3 DEF EqualBut
<1>17. OnlyAt(c)
  BY <1>2, <1>5, <1>6, <1>16, ExceptIsBut DEF OnlyAt
<1>18. /\ call'[c] = "busy" /\ prog'[c] = p /\ total'[c] = k /\ child'[c] = child[c] /\ acc'[c] = acc[c]
       /\ sink'[c] = sink[c] /\ argv'[c] = argv[c] /\ args'[c] = args[c] /\ task'[c].result = n
       /\ val'[c] = val[c]
  BY <1>2, <1>3, <1>5, <1>14 DEF p, k
<1>19. Ok(c)' /\ Got(c)' = n /\ Result(c)' = n /\ Whole(c)' = Whole(c) /\ Supplied(c)' = w
  BY <1>2, <1>5, <1>18 DEF Ok, Got, Result, Whole, Supplied, w, p
<1>20. Untouched(c)' /\ SinkData(c)' /\ ArgsData(c)'
  BY <1>4, <1>18 DEF Carried, Untouched, SinkData, ArgsData
<1>21. Submitted(c)'
  <2>1. task'[c].pin = NoBuffer => task'[c].buffer \in Seq(Nat)
    BY <1>5, <1>8, <1>14, FilledFront
  <2>2. o \notin WriteOp /\ o # "spawn"
    BY <1>2 DEF ReadOp, WriteOp
  <2> QED
    BY <1>5, <1>8, <1>18, <2>1, <2>2 DEF Submitted, p
<1>22. ChildAgrees(c)' /\ (p = "output" => child[c].state # "none")
  <2>1. o # "spawn"
    BY <1>2 DEF ReadOp
  <2> QED
    BY <1>3, <1>4, <1>5, <1>18, <2>1 DEF Carried, ChildAgrees, p, o
<1>23. LoopData(c)'
  <2> SUFFICES ASSUME p \in {"read_file", "output"}
               PROVE LoopData(c)'
    BY <1>18 DEF LoopData
  <2>1. a = k /\ b = w
    BY <1>11 DEF a, b
  <2>2. acc[c] \in Seq(Seq(Nat)) /\ Concat(Reverse(acc[c])) = Span(0, k)
    BY <1>3, <1>4, <1>9 DEF Carried, LoopData, p, k
  <2>3. ReadInto(c)' = Span(k, k + n)
    <3>1. task'[c].buffer = Filled(task[c].buffer, data) /\ task[c].buffer \in Seq(Nat)
      BY <1>5, <1>8
    <3>2. SubSeq(Filled(task[c].buffer, data), 1, n) = data
      BY <1>14, <3>1, FilledFront
    <3> QED
      BY <1>14, <1>18, <2>1, <3>1, <3>2 DEF ReadInto
  <2>4. n = 0 => k = Whole(c)
    <3>1. CASE p = "read_file"
      BY <1>11, <1>14, <2>1, <3>1 DEF Whole, p
    <3>2. CASE p = "output"
      <4>1. n = 0 => child[c].state # "running" /\ child[c].state # "none"
        BY <1>13, <1>22, <3>2
      <4>2. n = 0 => child[c].out = 0
        BY <1>4, <4>1 DEF Carried, ChildAgrees
      <4>3. n = 0 => w = OutLen
        BY <1>10, <3>2, <4>1, <4>2 DEF w, Supplied, p
      <4> QED
        BY <1>14, <2>1, <3>2, <4>3 DEF Whole, p
    <3> QED
      BY <3>1, <3>2
  <2>5. o \notin {"fs_open", "spawn", "close_stdin", "fs_close", "close_stdout", "close_stderr", "wait", "close_proc"}
    BY <1>2 DEF ReadOp
  <2> QED
    BY <1>2, <1>5, <1>14, <1>18, <1>19, <2>1, <2>2, <2>3, <2>4, <2>5 DEF LoopData
<1>24. PipeData(c)'
  <2> SUFFICES ASSUME p = "pipe"
               PROVE PipeData(c)'
    BY <1>18 DEF PipeData
  <2>1. a = k /\ b = SourceLen /\ o = "stream_read"
    BY <1>2, <1>3 DEF a, b, RequestsOf, ReadOp
  <2>2. sink[c] = Span(0, k)
    BY <1>3, <1>4, <1>9, <2>1 DEF Carried, PipeData, p, o, k
  <2>3. SubSeq(bytes'[c], 1, n) = Span(k, k + n)
    BY <1>4, <1>14, <1>15, <2>1, FilledFront
  <2> QED
    BY <1>2, <1>5, <1>14, <1>18, <1>19, <2>1, <2>2, <2>3 DEF PipeData
<1>25. ReceiveData(c)'
  <2> SUFFICES ASSUME p = "receive"
               PROVE ReceiveData(c)'
    BY <1>18 DEF ReceiveData
  <2>1. a = 0 /\ b = SourceLen
    BY DEF a, b
  <2>2. n \in 0..SourceLen /\ 0 + n = n
    BY <1>2, <1>10, <1>14, <2>1
  <2>3. SubSeq(bytes'[c], 1, n) = Span(0, n) /\ source'[c] = Span(n, SourceLen)
    <3>1. data = Span(0, n) /\ source'[c] = Span(n, SourceLen)
      BY <1>14, <2>1, <2>2
    <3>2. SubSeq(Filled(bytes[c], data), 1, n) = data
      BY <1>4, <1>14, FilledFront
    <3> QED
      BY <1>15, <3>1, <3>2
  <2> QED
    BY <1>5, <1>18, <1>19, <2>2, <2>3 DEF ReceiveData
<1>26. WriteData(c)' /\ AnswerData(c)' /\ ConnectData(c)'
  BY <1>3, <1>18 DEF WriteData, AnswerData, ConnectData, p
<1>27. Carried(c)'
  BY <1>20, <1>21, <1>22, <1>23, <1>24, <1>25, <1>26 DEF Carried
<1>28. child'[c] \in ChildType
  BY <1>18 DEF DataInv, DataShape
<1>29. /\ source'[c] \in Seq(Nat) /\ total'[c] \in Nat /\ bytes'[c] \in Seq(Nat)
       /\ task'[c].result \in Int
  BY <1>2, <1>4, <1>14, <1>15, <1>18
<1> QED
  BY <1>17, <1>27, <1>28, <1>29, OneCaller

\* A step of the loop thread or the system that keeps c's own data.
LEMMA LoopStep ==
    ASSUME IInv, DataInv, NEW c \in Caller, Carried(c)',
           UNCHANGED <<bytes, prog, call, val, acc, total, args>>,
           EqualBut(task, task', c), EqualBut(source, source', c), EqualBut(sink, sink', c),
           EqualBut(given, given', c), EqualBut(failed, failed', c), EqualBut(argv, argv', c),
           EqualBut(child, child', c),
           source'[c] \in Seq(Nat), child'[c] \in ChildType, task'[c].result \in Int
    PROVE DataInv'
<1>1. OnlyAt(c)
  BY ExceptIsBut DEF OnlyAt
<1>2. total'[c] \in Nat /\ bytes'[c] \in Seq(Nat)
  BY DEF DataInv, DataShape, Bytevector
<1> QED
  BY <1>1, <1>2, OneCaller

\* What c has when a request of its call is under way.
LEMMA Running ==
    ASSUME IInv, DataInv, NEW c \in Caller, task[c].at \in {"queued", "uv", "closing"}
    PROVE /\ call[c] = "busy" /\ Carried(c) /\ prog[c] \in Prog /\ task[c].op \in RequestsOf(prog[c])
          /\ source[c] \in Seq(Nat) /\ child[c] \in ChildType /\ task[c].result \in Int
          /\ DOMAIN task = Caller /\ DOMAIN source = Caller /\ DOMAIN sink = Caller
          /\ DOMAIN given = Caller /\ DOMAIN failed = Caller /\ DOMAIN argv = Caller
          /\ DOMAIN child = Caller
  BY UnderWay DEF IInv, Shape, DataInv, DataShape

\* A write ends: the system has n bytes more.
LEMMA WriteDoneData ==
    ASSUME IInv, DataInv, NEW c \in Caller, WriteDone(c)
    PROVE DataInv'
<1> DEFINE k == total[c]
           o == task[c].op
           p == prog[c]
           m == task[c].nbytes
<1>1. PICK n \in 1..m :
        /\ o = "stream_write" => n = m
        /\ Complete(c, n, <<>>)
        /\ sink' = [sink EXCEPT ![c] = sink[c] \o SubSeq(task_data(task[c]), 1, n)]
  BY DEF WriteDone, Finished
<1>2. /\ UNCHANGED <<bytes, prog, call, val, acc, total, args, source, given, failed, argv, child>>
      /\ task[c].at = "uv" /\ o \in WriteOp /\ n \in Nat /\ n # 0
  BY DEF WriteDone, Pending, schemeVars, localVars, WriteOp
<1>3. /\ call[c] = "busy" /\ Carried(c) /\ p \in Prog /\ o \in RequestsOf(p)
      /\ source[c] \in Seq(Nat) /\ child[c] \in ChildType /\ DOMAIN sink = Caller
  BY <1>2, Running
<1>4. p \in {"write_file", "send", "pipe"} /\ (p = "pipe" => o = "stream_write")
  BY <1>2, <1>3, CallOfData DEF RequestsOf, WriteOp
<1>5. /\ EqualBut(task, task', c) /\ TaskKept(c)
      /\ task'[c].at = "done" /\ task'[c].result = n /\ task'[c].names = <<>>
  BY <1>1, CompleteData
<1>6. sink'[c] = sink[c] \o SubSeq(task_data(task[c]), 1, n) /\ EqualBut(sink, sink', c)
  BY <1>1, <1>3, UpdateAt
<1>7. Ok(c) /\ Got(c) = 0 /\ Ok(c)' /\ Got(c)' = n /\ Result(c)' = n
  BY <1>2, <1>5 DEF Ok, Got, Result
<1>8. SourceLen \in Nat /\ k \in Nat /\ c # NoBuffer /\ Shared # NoBuffer /\ bytes[Shared] = Content
      /\ Content = Span(0, SourceLen)
  BY OpsAssumption, RequestsAssumption, NumberedIsSpan DEF DataInv, DataShape, Content
\* A single write takes a front part of the data.
<1>9. ASSUME p # "pipe"
      PROVE n \in 0..SourceLen /\ sink'[c] = Span(0, n)
  <2>1. m = SourceLen /\ task_data(task[c]) = Content
    BY <1>2, <1>3, <1>8, <1>9 DEF Carried, Submitted, task_data
  <2>2. sink[c] = Span(0, 0)
    BY <1>2, <1>3, <1>4, <1>7, <1>9 DEF Carried, WriteData
  <2>3. n <= SourceLen /\ 0 + n = n /\ 0 \in Nat /\ 0 <= n /\ 0 + n <= SourceLen
    BY <1>2, <1>8, <2>1
  <2>4. SubSeq(Span(0, SourceLen), 1, n) = Span(0, n)
    BY <1>2, <1>8, <2>3, SpanFront
  <2>5. Span(0, 0) \o Span(0, n) = Span(0, n)
    <3>1. 0 \in Nat /\ n \in Nat /\ 0 <= 0 /\ 0 <= n
      BY <1>2
    <3> QED
      BY <3>1, SpanConcat
  <2> QED
    BY <1>2, <1>6, <1>8, <2>1, <2>2, <2>3, <2>4, <2>5
\* A pipe's write takes all of it, behind what the sink has.
<1>10. ASSUME p = "pipe"
       PROVE /\ n = m /\ k + n <= SourceLen /\ SubSeq(bytes[c], 1, n) = Span(k, k + n)
             /\ sink'[c] = Span(0, k + n) /\ source[c] = Span(k + n, SourceLen)
  <2>1. o = "stream_write" /\ n = m
    BY <1>1, <1>4, <1>10
  <2>2. /\ k + n <= SourceLen /\ SubSeq(bytes[c], 1, n) = Span(k, k + n)
        /\ sink[c] = Span(0, k) /\ source[c] = Span(k + n, SourceLen)
    BY <1>2, <1>3, <1>7, <1>10, <2>1 DEF Carried, PipeData
  <2>3. task_data(task[c]) = bytes[c]
    BY <1>2, <1>3, <1>8, <1>10 DEF Carried, Submitted, task_data
  <2>4. 0 \in Nat /\ 0 <= k /\ k <= k + n /\ k + n \in Nat
    BY <1>2, <1>8
  <2>5. Span(0, k) \o Span(k, k + n) = Span(0, k + n)
    BY <1>8, <2>4, SpanConcat
  <2> QED
    BY <1>6, <2>1, <2>2, <2>3, <2>5
<1>11. LoopKeeps(c) /\ source'[c] = source[c] /\ child'[c] = child[c] /\ argv'[c] = argv[c] /\ bytes'[c] = bytes[c]
  BY <1>2 DEF LoopKeeps
<1> HIDE DEF k, o, p, m
<1>12. Untouched(c)' /\ Submitted(c)' /\ ArgsData(c)'
  BY <1>3, <1>11, <1>5 DEF Carried, LoopKeeps, TaskKept, Untouched, Submitted, ArgsData
<1>13. SinkData(c)'
  <2>1. CASE p # "pipe"
    BY <1>9, <2>1 DEF SinkData
  <2>2. CASE p = "pipe"
    <3>1. k + n \in 0..SourceLen
      BY <1>2, <1>8, <1>10, <2>2
    <3> QED
      BY <1>10, <2>2, <3>1 DEF SinkData
  <2> QED
    BY <2>1, <2>2
<1>14. ChildAgrees(c)' /\ LoopData(c)' /\ ReceiveData(c)' /\ AnswerData(c)' /\ ConnectData(c)'
  BY <1>3, <1>4, <1>11 DEF Carried, LoopKeeps, ChildAgrees, LoopData, ReceiveData, AnswerData, ConnectData, p
<1>15. PipeData(c)'
  <2> SUFFICES ASSUME p = "pipe"
               PROVE PipeData(c)'
    BY <1>11 DEF PipeData, LoopKeeps, p
  <2>1. o = "stream_write"
    BY <1>4
  <2> QED
    BY <1>2, <1>3, <1>5, <1>10, <1>11, <2>1 DEF PipeData, LoopKeeps, TaskKept, m, k, o
<1>16. WriteData(c)'
  <2> SUFFICES ASSUME p # "pipe"
               PROVE WriteData(c)'
    BY <1>11 DEF WriteData, LoopKeeps, p
  <2>1. o # "fs_open"
    BY <1>2 DEF WriteOp
  <2> QED
    BY <1>3, <1>5, <1>7, <1>9, <1>11, <2>1 DEF WriteData, LoopKeeps, TaskKept, o
<1>17. Carried(c)'
  BY <1>12, <1>13, <1>14, <1>15, <1>16 DEF Carried
<1>18. source'[c] \in Seq(Nat) /\ child'[c] \in ChildType /\ task'[c].result \in Int
  BY <1>2, <1>3, <1>5, <1>11
<1> QED
  BY <1>2, <1>5, <1>6, <1>17, <1>18, LoopStep, ExceptIsBut

\* The child is started with the arguments of the call.
LEMMA DispatchSpawnData ==
    ASSUME IInv, DataInv, NEW c \in Caller, DispatchSpawn(c)
    PROVE DataInv'
<1> DEFINE p == prog[c]
           new == [state |-> "running", out |-> IF p = "output" THEN OutLen ELSE 0,
                   err |-> IF p = "output" THEN ErrLen ELSE 0, errPipe |-> 0]
<1>1. /\ Dispatched(c, {"spawn"}) /\ Complete(c, 1, <<>>)
      /\ argv' = [argv EXCEPT ![c] = UnpackStrings(task[c].buffer, task[c].nbytes)]
      /\ child' = [child EXCEPT ![c] = new]
      /\ UNCHANGED <<bytes, prog, call, val, acc, total, args, source, sink, given, failed>>
  BY DEF DispatchSpawn, schemeVars, localVars
<1>2. task[c].at = "queued" /\ task[c].op = "spawn"
  BY <1>1, DispatchFacts
<1>3. /\ call[c] = "busy" /\ Carried(c) /\ p \in Prog /\ task[c].op \in RequestsOf(p)
      /\ source[c] \in Seq(Nat) /\ child[c] \in ChildType
      /\ DOMAIN argv = Caller /\ DOMAIN child = Caller
  BY <1>2, Running
<1>4. p \in {"run", "output"}
  BY <1>2, <1>3, CallOf
<1>5. /\ EqualBut(task, task', c) /\ TaskKept(c)
      /\ task'[c].at = "done" /\ task'[c].result = 1
  BY <1>1, CompleteData
<1>6. child'[c] = new /\ EqualBut(child, child', c)
  BY <1>1, <1>3, UpdateAt
<1>7. argv'[c] = UnpackStrings(task[c].buffer, task[c].nbytes) /\ EqualBut(argv, argv', c)
  BY <1>1, <1>3, UpdateAt
<1>8. argv'[c] = args[c]
  <2>1. args[c] \in Commands /\ task[c].buffer = PackStrings(args[c]) /\ task[c].nbytes = Len(args[c])
    BY <1>2, <1>3 DEF Carried, Submitted
  <2> QED
    BY <1>7, <2>1, UnpackPack, CommandsAreLists
<1>9. LoopKeeps(c) /\ source'[c] = source[c] /\ sink'[c] = sink[c]
  BY <1>1 DEF LoopKeeps
<1>10. OutLen \in Nat /\ ErrLen \in Nat
  BY OpsAssumption
<1>11. child'[c] \in ChildType /\ child'[c].state = "running"
       /\ child'[c].out = IF p = "output" THEN OutLen ELSE 0
  BY <1>6, <1>10 DEF ChildType
<1> HIDE DEF p, new
<1>12. Ok(c) /\ Ok(c)'
  BY <1>2, <1>5 DEF Ok, Result
<1>13. Untouched(c)' /\ Submitted(c)' /\ SinkData(c)' /\ ArgsData(c)'
  BY <1>3, <1>5, <1>8, <1>9 DEF Carried, LoopKeeps, TaskKept, Untouched, Submitted, SinkData, ArgsData
<1>14. ChildAgrees(c)'
  BY <1>5, <1>9, <1>11, <1>12 DEF ChildAgrees, LoopKeeps, p
<1>15. LoopData(c)'
  <2> SUFFICES ASSUME p = "output"
               PROVE LoopData(c)'
    BY <1>4, <1>9 DEF LoopData, LoopKeeps, p
  <2>1. child[c].state = "none"
    BY <1>2, <1>3 DEF Carried, ChildAgrees, p
  <2>2. Supplied(c) = 0 /\ Supplied(c)' = 0
    BY <1>9, <1>10, <1>11, <2>1 DEF Supplied, LoopKeeps, p
  <2>3. /\ acc[c] \in Seq(Seq(Nat)) /\ Concat(Reverse(acc[c])) = Span(0, total[c])
        /\ total[c] = 0 /\ source[c] = Span(0, 0)
    BY <1>2, <1>3, <1>12, <2>2 DEF Carried, LoopData, p
  <2> QED
    BY <1>2, <1>3, <1>5, <1>9, <2>2, <2>3 DEF LoopData, LoopKeeps, TaskKept, ReadOp
<1>16. PipeData(c)' /\ ReceiveData(c)' /\ WriteData(c)' /\ AnswerData(c)' /\ ConnectData(c)'
  BY <1>4, <1>9 DEF LoopKeeps, PipeData, ReceiveData, WriteData, AnswerData, ConnectData, p
<1>17. Carried(c)'
  BY <1>13, <1>14, <1>15, <1>16 DEF Carried
<1>18. source'[c] \in Seq(Nat) /\ task'[c].result \in Int
  BY <1>3, <1>5, <1>9
<1> QED
  BY <1>1, <1>5, <1>6, <1>7, <1>11, <1>17, <1>18, LoopStep, ExceptIsBut

\* A request goes to libuv, or on to the close of its timer.
LEMMA GoingOnStep ==
    ASSUME IInv, DataInv, NEW c \in Caller, task[c].at \in {"queued", "uv"},
           NEW stage \in {"uv", "closing"}, task' = [task EXCEPT ![c].at = stage],
           UNCHANGED <<bytes, prog, call, val, acc, total, args, source, sink, given, failed, argv, child>>
    PROVE DataInv'
<1>1. /\ call[c] = "busy" /\ Carried(c) /\ source[c] \in Seq(Nat) /\ child[c] \in ChildType
      /\ task[c].result \in Int
  BY Running
<1>2. /\ EqualBut(task, task', c) /\ TaskKept(c)
      /\ task'[c].at = stage /\ task'[c].result = task[c].result
  BY StageData
<1>3. task[c].at # "done" /\ task'[c].at # "done" /\ LoopKeeps(c)
  BY <1>2 DEF LoopKeeps
<1>4. Carried(c)'
  BY <1>1, <1>2, <1>3, GoingOnData
<1> QED
  BY <1>1, <1>2, <1>4, LoopStep, ExceptIsBut

\* A request ends with an error.
LEMMA ErrorStep ==
    ASSUME IInv, DataInv, NEW c \in Caller, task[c].at \in {"queued", "uv", "closing"},
           Complete(c, Negative, <<>>), EqualBut(failed, failed', c),
           failed'[c] = IF task[c].op = "connect" THEN Append(failed[c], Head(acc[c])) ELSE failed[c],
           UNCHANGED <<bytes, prog, call, val, acc, total, args, source, sink, given, argv, child>>
    PROVE DataInv'
<1>1. /\ call[c] = "busy" /\ Carried(c) /\ source[c] \in Seq(Nat) /\ child[c] \in ChildType
      /\ prog[c] \in Prog /\ task[c].op \in RequestsOf(prog[c]) /\ DOMAIN failed = Caller
  BY Running
<1>2. /\ EqualBut(task, task', c) /\ TaskKept(c) /\ task'[c].at = "done" /\ task'[c].result = Negative
  BY CompleteData
<1>3. task'[c].result \in Int /\ task'[c].result < 0
  BY <1>2 DEF Negative
<1>5. prog[c] = "connect" => task[c].op \in {"dns", "connect"}
  BY <1>1, CallOfData
<1>6. ASSUME task[c].op = "dns"
      PROVE Distinct(given'[c]) = <<>>
  <2>1. prog[c] \in {"simple", "connect"}
    BY <1>1, <1>6, CallOf
  <2>2. given[c] = <<>>
    BY <1>1, <1>6, <2>1 DEF Carried, ConnectData, AnswerData
  <2> QED
    BY <2>2, DistinctEmpty
<1>7. LoopKeeps(c) /\ task[c].at # "done"
  BY DEF LoopKeeps
<1>8. Carried(c)'
  BY <1>1, <1>2, <1>3, <1>5, <1>6, <1>7, ErrorData
<1> QED
  BY <1>1, <1>2, <1>3, <1>8, LoopStep, ExceptIsBut

\* The same, with the address it was for noted as one that failed.
LEMMA NotedStep ==
    ASSUME IInv, DataInv, NEW c \in Caller, task[c].at \in {"queued", "uv", "closing"},
           Complete(c, Negative, <<>>), Noted(c),
           UNCHANGED <<bytes, prog, call, val, acc, total, args, source, sink, given, argv, child>>
    PROVE DataInv'
<1>1. DOMAIN failed = Caller
  BY DEF DataInv, DataShape
<1>2. /\ EqualBut(failed, failed', c)
      /\ failed'[c] = IF task[c].op = "connect" THEN Append(failed[c], Head(acc[c])) ELSE failed[c]
  BY <1>1, UpdateAt DEF Noted
<1> QED
  BY <1>2, ErrorStep

\* A request that moves no data ends well.
LEMMA PlainEndStep ==
    ASSUME IInv, DataInv, NEW c \in Caller, task[c].at \in {"queued", "uv"},
           task[c].op \in {"fs_open", "fs_close", "connect", "wait", "close_stdin", "close_stdout",
                           "close_stderr", "close_proc"},
           NEW r \in Nat, NEW out, Complete(c, r, out),
           UNCHANGED <<bytes, prog, call, val, acc, total, args, source, sink, given, failed, argv>>,
           NEW e \in ChildType, child' = [child EXCEPT ![c] = e], e.out = child[c].out,
           e.out # 0 => e.state = child[c].state, e.state = "none" <=> child[c].state = "none"
    PROVE DataInv'
<1>1. /\ call[c] = "busy" /\ Carried(c) /\ source[c] \in Seq(Nat)
      /\ prog[c] \in Prog /\ task[c].op \in RequestsOf(prog[c]) /\ DOMAIN child = Caller
  BY Running
<1>2. /\ EqualBut(task, task', c) /\ TaskKept(c) /\ task'[c].at = "done" /\ task'[c].result = r
  BY CompleteData
<1>3. child'[c] = e /\ EqualBut(child, child', c)
  BY <1>1, UpdateAt
<1>4. prog[c] \in {"read_file", "write_file", "connect", "run", "output"}
  BY <1>1, CallOf
<1>5. task[c].op \notin ReadOp \cup WriteOp \cup {"spawn", "dns"}
  BY DEF ReadOp, WriteOp
<1>6. LoopKeeps(c) /\ task[c].at # "done"
  BY DEF LoopKeeps
<1>7. Carried(c)'
  BY <1>1, <1>2, <1>3, <1>4, <1>5, <1>6, PlainEndData
<1>8. task'[c].result \in Int
  BY <1>2
<1> QED
  BY <1>1, <1>2, <1>3, <1>7, <1>8, LoopStep, ExceptIsBut

\* An answer: of a simple call, or the lookup of io-tcp-connect.
LEMMA AnswerStep ==
    ASSUME IInv, DataInv, NEW c \in Caller, task[c].at \in {"queued", "uv", "closing"},
           prog[c] = "simple",
           NEW r \in Int, NEW answer, NEW out, Complete(c, r, out), out = Distinct(answer),
           UNCHANGED <<bytes, prog, call, val, acc, total, args, source, sink, failed, argv, child>>,
           EqualBut(given, given', c), given'[c] = answer
    PROVE DataInv'
<1>1. /\ call[c] = "busy" /\ Carried(c) /\ source[c] \in Seq(Nat) /\ child[c] \in ChildType
  BY Running
<1>2. /\ EqualBut(task, task', c) /\ TaskKept(c) /\ task'[c].at = "done" /\ task'[c].result = r
      /\ task'[c].names = out
  BY CompleteData
<1>3. LoopKeeps(c)
  BY DEF LoopKeeps
<1>4. Carried(c)'
  BY <1>1, <1>2, <1>3, AnswerEndData
<1> QED
  BY <1>1, <1>2, <1>4, LoopStep, ExceptIsBut

\* A simple call without an answer: a timer, or a stdio handle.
LEMMA NoAnswerStep ==
    ASSUME IInv, DataInv, NEW c \in Caller, task[c].at \in {"queued", "uv", "closing"},
           task[c].op \in {"timer", "stdio"}, NEW r \in Int, Complete(c, r, <<>>),
           UNCHANGED <<bytes, prog, call, val, acc, total, args, source, sink, given, failed, argv, child>>
    PROVE DataInv'
<1>1. call[c] = "busy" /\ Carried(c) /\ prog[c] \in Prog /\ task[c].op \in RequestsOf(prog[c])
  BY Running
<1>2. prog[c] = "simple"
  BY <1>1, CallOf
<1>3. given[c] = <<>>
  BY <1>1, <1>2 DEF Carried, AnswerData
<1>4. EqualBut(given, given', c) /\ given'[c] = <<>>
  BY <1>3, ExceptIsBut
<1> QED
  BY <1>2, <1>4, AnswerStep, DistinctEmpty

-----------------------------------------------------------------------------
(* The loop thread and the system, action by action. *)

\* Dispatch: to libuv, or an end at once.
LEMMA DispatchOneData ==
    ASSUME IInv, DataInv, NEW c \in Caller, DispatchOne(c)
    PROVE DataInv'
<1>1. ASSUME NEW ops, Dispatched(c, ops)
      PROVE task[c].at = "queued" /\ task[c].op \in ops
  <2>1. c \in Range(inbox) /\ task[c].op \in ops
    BY <1>1, RangeTail DEF IInv, Shape, Dispatched
  <2> QED
    BY <2>1 DEF IInv, Stages
<1>2. ASSUME NEW ops, Dispatched(c, ops), Complete(c, Negative, <<>>), Noted(c),
             UNCHANGED <<bytes, prog, call, val, acc, total, args, source, sink, given, argv, child>>
      PROVE DataInv'
  <2>1. task[c].at \in {"queued", "uv", "closing"}
    BY <1>1, <1>2
  <2> QED
    BY <1>2, <2>1, NotedStep
<1>3. CASE Dispatch(c)
  <2>1. CASE DispatchToUv(c) /\ UNCHANGED <<schemeVars, source, sink, handles, given, failed, argv, child>>
    <3>1. /\ Dispatched(c, UvOp) /\ task' = [task EXCEPT ![c].at = "uv"]
          /\ UNCHANGED <<bytes, prog, call, val, acc, total, args, source, sink, given, failed, argv, child>>
      BY <2>1 DEF DispatchToUv, schemeVars, localVars
    <3>2. task[c].at \in {"queued", "uv"}
      BY <1>1, <3>1
    <3> QED
      BY <3>1, <3>2, GoingOnStep
  <2>2. CASE DispatchFails(c) /\ Noted(c) /\ UNCHANGED <<schemeVars, source, sink, handles, given, argv, child>>
    <3>1. /\ Dispatched(c, {"dns", "connect", "stream_read", "stream_write"}) /\ Complete(c, Negative, <<>>)
          /\ UNCHANGED <<bytes, prog, call, val, acc, total, args, source, sink, given, argv, child>>
      BY <2>2 DEF DispatchFails, schemeVars, localVars
    <3> QED
      BY <1>2, <2>2, <3>1
  <2> QED
    BY <1>3, <2>1, <2>2 DEF Dispatch
<1>4. CASE DispatchStdio(c)
  <2>1. PICK r \in {Negative, 0, 1} : Complete(c, r, <<>>)
    BY <1>4 DEF DispatchStdio
  <2>2. /\ Dispatched(c, {"stdio"})
        /\ UNCHANGED <<bytes, prog, call, val, acc, total, args, source, sink, given, failed, argv, child>>
    BY <1>4 DEF DispatchStdio, schemeVars, localVars
  <2>3. task[c].at \in {"queued", "uv", "closing"} /\ task[c].op \in {"timer", "stdio"} /\ r \in Int
    BY <1>1, <2>1, <2>2 DEF Negative
  <2> QED
    BY <2>1, <2>2, <2>3, NoAnswerStep
<1>5. CASE DispatchSpawnFails(c)
  <2>1. /\ Dispatched(c, {"spawn"}) /\ Complete(c, Negative, <<>>)
        /\ UNCHANGED <<bytes, prog, call, val, acc, total, args, source, sink, given, failed, argv, child>>
    BY <1>5 DEF DispatchSpawnFails, schemeVars, localVars, osVars
  <2>2. task[c].op = "spawn" /\ task[c].at = "queued"
    BY <1>1, <2>1
  <2>3. EqualBut(failed, failed', c) /\ failed'[c] = failed[c]
    BY <2>1, ExceptIsBut
  <2> QED
    BY <2>1, <2>2, <2>3, ErrorStep
<1>6. CASE DispatchWait(c)
  <2>1. /\ Dispatched(c, {"wait"})
        /\ UNCHANGED <<bytes, prog, call, val, acc, total, args, source, sink, given, failed, argv, child>>
    BY <1>6 DEF DispatchWait, schemeVars, localVars, osVars
  <2>2. task[c].op = "wait" /\ task[c].at = "queued"
    BY <1>1, <2>1
  <2>3. CASE child[c].state = "reaped"
    <3>1. Complete(c, 0, <<>>)
      BY <1>6, <2>3 DEF DispatchWait
    <3>2. child' = [child EXCEPT ![c] = child[c]] /\ child[c] \in ChildType
      BY <2>1 DEF DataInv, DataShape
    <3> QED
      BY <2>1, <2>2, <3>1, <3>2, PlainEndStep
  <2>4. CASE child[c].state # "reaped"
    BY <1>6, <2>1, <2>2, <2>4, GoingOnStep DEF DispatchWait
  <2> QED
    BY <2>3, <2>4
<1> QED
  BY <1>3, <1>4, <1>5, <1>6, DispatchSpawnData DEF DispatchOne

\* A request that libuv worked on ends with an error.
LEMMA UvFailsData ==
    ASSUME IInv, DataInv, NEW c \in Caller, UvFails(c)
    PROVE DataInv'
<1>1. /\ task[c].at \in {"queued", "uv", "closing"} /\ Complete(c, Negative, <<>>) /\ Noted(c)
      /\ UNCHANGED <<bytes, prog, call, val, acc, total, args, source, sink, given, argv, child>>
  BY DEF UvFails, Pending, Finished, schemeVars, localVars
<1> QED
  BY <1>1, NotedStep

\* A timer fires, and its handle is closed.
LEMMA TimerData ==
    ASSUME IInv, DataInv, NEW c \in Caller, Timer(c)
    PROVE DataInv'
<1>1. UNCHANGED <<prog, call, val, acc, total, args, source, sink, given, failed, argv, child>>
  BY DEF Timer, schemeVars, localVars, osVars
<1>2. CASE OnTimer(c)
  <2>1. task[c].at \in {"queued", "uv"} /\ task' = [task EXCEPT ![c].at = "closing"] /\ UNCHANGED bytes
    BY <1>2 DEF OnTimer, Pending
  <2> QED
    BY <1>1, <2>1, GoingOnStep
<1>3. CASE OnTimerClosed(c)
  <2>1. task[c].at = "closing" /\ Complete(c, 0, <<>>) /\ UNCHANGED bytes
    BY <1>3 DEF OnTimerClosed, Finished
  <2>2. task[c].op = "timer"
    BY <2>1 DEF IInv, Stages
  <2> QED
    BY <1>1, <2>1, <2>2, NoAnswerStep
<1> QED
  BY <1>2, <1>3 DEF Timer

\* Entries of a directory, or a single result.
LEMMA FsPathDoneData ==
    ASSUME IInv, DataInv, NEW c \in Caller, FsPathDone(c)
    PROVE DataInv'
<1>1. PICK answer \in Entries :
        /\ task[c].op = "unlink" => answer = <<>>
        /\ OnFsDone(c, IF task[c].op = "scandir" THEN Len(answer) ELSE 0, answer)
        /\ given' = [given EXCEPT ![c] = answer]
  BY DEF FsPathDone
<1>2. /\ task[c].at = "uv" /\ task[c].op \in FsPathOp
      /\ UNCHANGED <<bytes, prog, call, val, acc, total, args, source, sink, failed, argv, child>>
  BY DEF FsPathDone, Pending, schemeVars, localVars
<1>3. prog[c] = "simple" /\ DOMAIN given = Caller
  <2>1. prog[c] \in Prog /\ task[c].op \in RequestsOf(prog[c]) /\ DOMAIN given = Caller
    BY <1>2, Running
  <2> QED
    BY <1>2, <2>1, CallOf
<1>4. answer \in Seq(Address) /\ Len(answer) \in Nat /\ IsInjective(answer)
  <2>1. PICK n \in 0..MaxAnswer : answer \in [1..n -> Address]
    BY DEF Entries
  <2>2. n \in Nat
    OBVIOUS
  <2>3. answer \in Seq(Address) /\ Len(answer) \in Nat
    BY <2>1, <2>2
  <2> QED
    BY <2>3 DEF Entries
<1>5. Distinct(answer) = answer
  BY <1>4, DistinctEntries
<1> DEFINE r == IF task[c].op = "scandir" THEN Len(answer) ELSE 0
<1>6. r \in Nat /\ r >= 0
  BY <1>4
<1>7. FsResult(c, r, answer) = answer
  <2> HIDE DEF r
  <2> QED
    BY <1>1, <1>6 DEF FsResult, FsVoidOp
<1>8. Complete(c, r, answer)
  BY <1>1, <1>7 DEF OnFsDone, Finished
<1>9. EqualBut(given, given', c) /\ given'[c] = answer
  BY <1>1, <1>3, UpdateAt
<1> HIDE DEF r
<1>10. task[c].at \in {"queued", "uv", "closing"} /\ r \in Int
  BY <1>2, <1>6
<1> QED
  BY <1>2, <1>3, <1>5, <1>8, <1>9, <1>10, AnswerStep

\* open, close and connect.
LEMMA PlainEndsData ==
    ASSUME IInv, DataInv, NEW c \in Caller,
           FsOpenDone(c) \/ FsCloseDone(c) \/ ConnectDone(c) \/ CloseDone(c)
    PROVE DataInv'
<1>1. /\ task[c].at \in {"queued", "uv"}
      /\ task[c].op \in {"fs_open", "fs_close", "connect", "wait", "close_stdin", "close_stdout",
                         "close_stderr", "close_proc"}
      /\ UNCHANGED <<bytes, prog, call, val, acc, total, args, source, sink, given, failed, argv, child>>
  BY DEF FsOpenDone, FsCloseDone, ConnectDone, CloseDone, Pending, schemeVars, localVars
<1>2. PICK r, out : r \in Nat /\ Complete(c, r, out)
  <2>1. 0 \in Nat /\ 1 \in Nat /\ 3 \in Nat
    OBVIOUS
  <2> QED
    BY <2>1 DEF FsOpenDone, FsCloseDone, ConnectDone, CloseDone, OnFsDone, Finished
<1>3. child' = [child EXCEPT ![c] = child[c]] /\ child[c] \in ChildType
  BY <1>1 DEF DataInv, DataShape
<1> QED
  BY <1>1, <1>2, <1>3, PlainEndStep

\* A lookup is answered: every address, once, in the system's order.
LEMMA DnsDoneData ==
    ASSUME IInv, DataInv, NEW c \in Caller, DnsDone(c)
    PROVE DataInv'
<1>1. PICK res \in Answers : OnGetaddrinfo(c, res) /\ given' = [given EXCEPT ![c] = res]
  BY DEF DnsDone
<1>2. /\ task[c].at = "uv" /\ task[c].op = "dns"
      /\ UNCHANGED <<bytes, prog, call, val, acc, total, args, source, sink, failed, argv, child>>
  BY <1>1 DEF DnsDone, OnGetaddrinfo, Pending, schemeVars, localVars
<1>3. /\ call[c] = "busy" /\ Carried(c) /\ source[c] \in Seq(Nat) /\ child[c] \in ChildType
      /\ prog[c] \in Prog /\ task[c].op \in RequestsOf(prog[c]) /\ DOMAIN given = Caller
  BY <1>2, Running
<1>4. prog[c] \in {"simple", "connect"}
  BY <1>2, <1>3, CallOf
<1>5. EqualBut(given, given', c) /\ given'[c] = res
  BY <1>1, <1>3, UpdateAt
<1>6. Collect(res) = Distinct(res) /\ Collect(res) \in Seq(Address)
  <2>1. PICK n \in 0..MaxAnswer : res \in [1..n -> Address \cup {OtherFamily}]
    BY DEF Answers
  <2>2. n \in Nat
    OBVIOUS
  <2>3. res \in Seq(Address \cup {OtherFamily})
    BY <2>1, <2>2
  <2> QED
    BY <2>3, CollectIsDistinct
<1>7. /\ Collect(res) = <<>> => Complete(c, NoName, Collect(res))
      /\ Collect(res) # <<>> => Complete(c, 0, Collect(res))
  BY <1>1 DEF OnGetaddrinfo, Finished
<1>8. PICK r \in {0, NoName} :
        Complete(c, r, Collect(res)) /\ (Collect(res) = <<>> <=> r = NoName)
  BY <1>7 DEF NoName
<1>9. /\ EqualBut(task, task', c) /\ TaskKept(c) /\ task'[c].at = "done" /\ task'[c].result = r
      /\ task'[c].names = Collect(res)
  BY <1>8, CompleteData
<1>10. r \in Int /\ task[c].at \in {"queued", "uv", "closing"}
  BY <1>2 DEF NoName
<1>11. LoopKeeps(c) /\ task[c].at # "done"
  BY <1>2 DEF LoopKeeps
<1>12. CASE prog[c] = "simple"
  BY <1>2, <1>5, <1>6, <1>8, <1>10, <1>12, AnswerStep
<1>13. CASE prog[c] = "connect"
  <2>1. ASSUME r = NoName
        PROVE Carried(c)'
    <3>1. task'[c].result \in Int /\ task'[c].result < 0 /\ Distinct(given'[c]) = <<>>
      BY <1>5, <1>6, <1>8, <1>9, <2>1 DEF NoName
    <3> QED
      BY <1>2, <1>3, <1>9, <1>11, <3>1, ErrorData
  <2>2. ASSUME r = 0
        PROVE Carried(c)'
    <3>1. /\ task'[c].names = Distinct(given'[c]) /\ task'[c].names # <<>>
          /\ task'[c].names \in Seq(Address) /\ task'[c].result = 0
      BY <1>5, <1>6, <1>8, <1>9, <2>2 DEF NoName
    <3> QED
      BY <1>2, <1>3, <1>9, <1>11, <1>13, <3>1, LookupEndData
  <2>3. Carried(c)'
    BY <1>8, <2>1, <2>2
  <2>4. task'[c].result \in Int
    BY <1>9, <1>10
  <2> QED
    BY <1>2, <1>3, <1>5, <1>9, <2>3, <2>4, LoopStep, ExceptIsBut
<1> QED
  BY <1>4, <1>12, <1>13

\* What belongs to a child and not to a request: it goes on, and the request of its
\* caller does not.
LEMMA ChildStep ==
    ASSUME IInv, DataInv, NEW c \in Caller, NEW e \in ChildType, child' = [child EXCEPT ![c] = e],
           UNCHANGED <<task, bytes, prog, call, val, acc, total, args, source, sink, given, failed, argv>>,
           child[c] # NoChild, e.state = "none" <=> child[c].state = "none",
           e.out = child[c].out, e.out # 0 => e.state = child[c].state
    PROVE DataInv'
<1>1. Carried(c) /\ DOMAIN child = Caller /\ source[c] \in Seq(Nat) /\ task[c].result \in Int
  BY DEF DataInv, DataShape
<1>2. EqualBut(child, child', c) /\ child'[c] = e
  BY <1>1, UpdateAt
<1>3. LoopKeeps(c)
  BY DEF LoopKeeps
<1>4. Carried(c)'
  BY <1>1, <1>2, <1>3, ChildGoesOnData
<1> QED
  BY <1>1, <1>2, <1>4, LoopStep, ExceptIsBut

\* The exit of a child is seen.
LEMMA OnProcessExitData ==
    ASSUME IInv, DataInv, NEW c \in Caller, OnProcessExit(c)
    PROVE DataInv'
<1>1. /\ child[c].state = "exited" /\ child[c] \in ChildType /\ Carried(c)
      /\ UNCHANGED <<prog, call, val, acc, total, args, source, sink, given, failed, argv>>
  BY DEF OnProcessExit, DataInv, DataShape, schemeVars, localVars
<1>2. child[c].out = 0
  BY <1>1 DEF Carried, ChildAgrees
<1>3. PICK e : child' = [child EXCEPT ![c] = e] /\ e = [child[c] EXCEPT !.state = "reaped"]
  BY DEF OnProcessExit
<1>4. e \in ChildType /\ e.out = 0 /\ e.state = "reaped"
  BY <1>1, <1>2, <1>3 DEF ChildType
<1>5. CASE Pending(c, {"wait"})
  <2>1. Complete(c, 0, <<>>) /\ UNCHANGED bytes /\ task[c].at = "uv" /\ task[c].op = "wait"
    BY <1>5 DEF OnProcessExit, Finished, Pending
  <2> QED
    BY <1>1, <1>2, <1>3, <1>4, <2>1, PlainEndStep
<1>6. CASE ~Pending(c, {"wait"})
  <2>1. UNCHANGED <<task, bytes>> /\ child[c] # NoChild
    BY <1>1, <1>6 DEF OnProcessExit, requestVars, NoChild
  <2> QED
    BY <1>1, <1>2, <1>3, <1>4, <2>1, ChildStep
<1> QED
  BY <1>5, <1>6

\* The child writes, and exits.
LEMMA ChildData ==
    ASSUME IInv, DataInv, NEW c \in Caller, Child(c)
    PROVE DataInv'
<1>1. /\ UNCHANGED <<task, bytes, prog, call, val, acc, total, args, sink, given, failed, argv>>
      /\ child[c] \in ChildType /\ Carried(c) /\ DOMAIN child = Caller
      /\ source[c] \in Seq(Nat) /\ DOMAIN source = Caller /\ task[c].result \in Int
  BY DEF Child, ChildWritesOut, ChildWritesErr, ChildExits, requestVars, schemeVars, localVars,
         DataInv, DataShape
<1>2. OutLen \in Nat /\ child[c].out \in 0..OutLen /\ child[c].err \in Nat /\ child[c].errPipe \in Nat
  BY <1>1, OpsAssumption DEF ChildType
<1>3. CASE ChildWritesOut(c)
  <2>1. child[c].out > 0
        /\ source' = [source EXCEPT ![c] = Append(source[c], OutLen - child[c].out + 1)]
    BY <1>3 DEF ChildWritesOut
  <2>2. PICK e : child' = [child EXCEPT ![c] = e] /\ e = [child[c] EXCEPT !.out = child[c].out - 1]
    BY <1>3 DEF ChildWritesOut
  <2>3. child[c].out - 1 \in 0..OutLen
    BY <1>2, <2>1
  <2>4. e \in ChildType /\ e.out = child[c].out - 1 /\ e.state = child[c].state
    BY <1>1, <2>2, <2>3 DEF ChildType
  <2>5. EqualBut(child, child', c) /\ child'[c] = e
    <3>1. c \in DOMAIN child /\ child' = [child EXCEPT ![c] = e]
      BY <1>1, <2>2
    <3> QED
      BY <3>1, UpdateAt
  <2>6. EqualBut(source, source', c) /\ source'[c] = Append(source[c], OutLen - child[c].out + 1)
    BY <1>1, <2>1, UpdateAt
  <2>7. source'[c] \in Seq(Nat)
    <3>1. OutLen - child[c].out + 1 \in Nat
      BY <1>2
    <3> QED
      BY <1>1, <2>6, <3>1, AppendProperties
  <2>8. LoopKeeps(c)
    BY <1>1 DEF LoopKeeps
  <2>9. Carried(c)'
    BY <1>1, <1>3, <2>4, <2>5, <2>6, <2>8, ChildWritesData
  <2> QED
    BY <1>1, <2>4, <2>5, <2>6, <2>7, <2>9, LoopStep, ExceptIsBut
<1>4. CASE ChildWritesErr(c)
  <2>1. child[c].err > 0 /\ UNCHANGED source
    BY <1>4 DEF ChildWritesErr
  <2>2. PICK e : /\ child' = [child EXCEPT ![c] = e]
                 /\ e = [child[c] EXCEPT !.err = child[c].err - 1, !.errPipe = child[c].errPipe + 1]
    BY <1>4 DEF ChildWritesErr
  <2>3. child[c].err - 1 \in Nat /\ child[c].errPipe + 1 \in Nat
    BY <1>2, <2>1
  <2>4. e \in ChildType /\ e.out = child[c].out /\ e.state = child[c].state
    BY <1>1, <2>2, <2>3 DEF ChildType
  <2>5. child[c] # NoChild
    BY <2>1 DEF NoChild
  <2> QED
    BY <1>1, <2>1, <2>2, <2>4, <2>5, ChildStep
<1>5. CASE ChildExits(c)
  <2>1. child[c].state = "running" /\ child[c].out = 0 /\ UNCHANGED source
    BY <1>5 DEF ChildExits
  <2>2. PICK e : child' = [child EXCEPT ![c] = e] /\ e = [child[c] EXCEPT !.state = "exited"]
    BY <1>5 DEF ChildExits
  <2>3. e \in ChildType /\ e.out = child[c].out /\ e.state = "exited"
    BY <1>1, <2>2 DEF ChildType
  <2>4. child[c] # NoChild
    BY <2>1 DEF NoChild
  <2> QED
    BY <1>1, <2>1, <2>2, <2>3, <2>4, ChildStep
<1> QED
  BY <1>3, <1>4, <1>5 DEF Child

-----------------------------------------------------------------------------
(* The callers: the first request of a call. *)

\* How caller c is when it has submitted t, the first request of call p.
Begun(c, p, t, strs) ==
    /\ call'[c] = "busy" /\ prog'[c] = p /\ task'[c] = t /\ args'[c] = strs
    /\ source'[c] = IF p \in {"read_file", "receive", "pipe"} THEN Content ELSE <<>>
    /\ val'[c] = <<>> /\ acc'[c] = <<>> /\ total'[c] = 0 /\ sink'[c] = <<>>
    /\ given'[c] = <<>> /\ failed'[c] = <<>> /\ argv'[c] = <<>> /\ child'[c] = NoChild

\* Nothing has been read, written or looked up.
LEMMA BegunData ==
    ASSUME NEW c \in Caller, NEW p \in Prog, NEW t, NEW strs, Begun(c, p, t, strs), Submitted(c)',
           t.at = "queued", p \in {"read_file", "write_file"} => t.op = "fs_open",
           p = "output" => t.op = "spawn", p = "connect" => t.op = "dns",
           p = "pipe" => t.op = "stream_read"
    PROVE Carried(c)'
<1>1. Ok(c)' /\ Got(c)' = 0 /\ task'[c].at # "done" /\ Result(c)' = t.result
  BY DEF Begun, Ok, Got, Result
<1>2. /\ SourceLen \in Nat /\ 0 \in 0..SourceLen /\ 0 <= SourceLen /\ OutLen \in Nat
      /\ Content = Span(0, SourceLen) /\ <<>> = Span(0, 0)
  <2>1. SourceLen \in Nat /\ 0 <= SourceLen /\ 0 \in Nat /\ 0 <= 0 /\ OutLen \in Nat
    BY OpsAssumption
  <2>2. Content = Span(0, SourceLen)
    BY <2>1, NumberedIsSpan DEF Content
  <2>3. <<>> = Span(0, 0)
    BY <2>1, SpanEmpty
  <2> QED
    BY <2>1, <2>2, <2>3
<1>3. Untouched(c)' /\ ArgsData(c)' /\ AnswerData(c)' /\ ConnectData(c)'
  BY <1>1 DEF Begun, Untouched, ArgsData, AnswerData, ConnectData
<1>4. ChildAgrees(c)'
  BY <1>1 DEF Begun, ChildAgrees, NoChild
<1>5. LoopData(c)'
  <2>1. <<>> \in Seq(Seq(Nat)) /\ Concat(Reverse(<<>>)) = <<>>
    BY EmptySeq, ReverseProperties, ConcatEmpty
  <2>2. SUFFICES ASSUME p \in {"read_file", "output"}
                 PROVE LoopData(c)'
    BY DEF Begun, LoopData
  <2>3. source'[c] = Span(0, Supplied(c)')
    BY <1>2, <2>2 DEF Begun, Supplied, NoChild
  <2>4. task'[c].op \in {"fs_open", "spawn"}
    BY <2>2 DEF Begun
  <2>5. /\ call'[c] = "busy" /\ acc'[c] = <<>> /\ total'[c] = 0
        /\ Concat(Reverse(acc'[c])) = Span(0, total'[c]) /\ acc'[c] \in Seq(Seq(Nat))
    BY <1>2, <2>1 DEF Begun
  <2> QED
    BY <2>3, <2>4, <2>5 DEF LoopData, ReadOp
<1>6. PipeData(c)'
  <2>1. SUFFICES ASSUME p = "pipe"
                 PROVE PipeData(c)'
    BY DEF Begun, PipeData
  <2>2. /\ call'[c] = "busy" /\ task'[c].op = "stream_read" /\ total'[c] = 0
        /\ sink'[c] = Span(0, 0) /\ source'[c] = Span(0, SourceLen)
    BY <1>2, <2>1 DEF Begun
  <2>3. 0 \in Nat /\ 0 + 0 = 0
    OBVIOUS
  <2> QED
    BY <1>1, <1>2, <2>2, <2>3 DEF PipeData
<1>7. ReceiveData(c)'
  BY <1>1, <1>2 DEF Begun, ReceiveData
<1>8. WriteData(c)' /\ SinkData(c)'
  BY <1>1, <1>2 DEF Begun, WriteData, SinkData
<1> QED
  BY <1>3, <1>4, <1>5, <1>6, <1>7, <1>8 DEF Carried

\* A call begins, and nobody else does anything.
LEMMA BeginStep ==
    ASSUME IInv, DataInv, NEW c \in Caller, NEW p \in Prog, NEW t, NEW strs, Begin(c, p, t, strs),
           Begun(c, p, t, strs) => Submitted(c)', t.result = 0,
           t.at = "queued", p \in {"read_file", "write_file"} => t.op = "fs_open",
           p = "output" => t.op = "spawn", p = "connect" => t.op = "dns",
           p = "pipe" => t.op = "stream_read"
    PROVE DataInv'
<1>1. /\ DOMAIN call = Caller /\ DOMAIN prog = Caller /\ DOMAIN source = Caller /\ DOMAIN args = Caller
      /\ Carried(c) /\ child[c] \in ChildType /\ bytes[c] \in Seq(Nat)
  BY DEF IInv, Shape, DataInv, DataShape, Bytevector
<1>2. /\ call[c] = "no" /\ prog' = [prog EXCEPT ![c] = p] /\ call' = [call EXCEPT ![c] = "busy"]
      /\ Turn(c, t) /\ args' = [args EXCEPT ![c] = strs]
      /\ source' = [source EXCEPT ![c] = IF p \in {"read_file", "receive", "pipe"} THEN Content ELSE <<>>]
      /\ UNCHANGED <<bytes, val, acc, total, sink, given, failed, argv, child>>
  BY DEF Begin, localVars
<1>3. EqualBut(task, task', c) /\ task'[c] = t
  BY <1>2, TurnData
<1>4. /\ EqualBut(call, call', c) /\ call'[c] = "busy"
      /\ EqualBut(prog, prog', c) /\ prog'[c] = p
      /\ EqualBut(args, args', c) /\ args'[c] = strs
      /\ EqualBut(source, source', c)
      /\ source'[c] = IF p \in {"read_file", "receive", "pipe"} THEN Content ELSE <<>>
  BY <1>1, <1>2, UpdateAt
<1>5. Begun(c, p, t, strs)
  BY <1>1, <1>2, <1>3, <1>4 DEF Carried, Untouched, Begun
<1>6. Carried(c)'
  BY <1>5, BegunData
<1>7. OnlyAt(c)
  BY <1>2, <1>3, <1>4, ExceptIsBut DEF OnlyAt
<1>8. source'[c] \in Seq(Nat)
  <2>1. Content \in Seq(Nat)
    BY OpsAssumption DEF Content, Numbered
  <2> QED
    BY <1>4, <2>1, EmptySeq
<1>9. total'[c] \in Nat /\ task'[c].result \in Int /\ child'[c] \in ChildType /\ bytes'[c] \in Seq(Nat)
  BY <1>1, <1>2, <1>3, <1>5 DEF Begun
<1> QED
  BY <1>6, <1>7, <1>8, <1>9, OneCaller

\* The calls.
LEMMA CallData ==
    ASSUME IInv, DataInv, NEW c \in Caller, Call(c)
    PROVE DataInv'
<1>1. ASSUME NEW p, NEW t, NEW strs, Begun(c, p, t, strs), t.op \notin ReadOp \cup WriteOp \cup {"spawn"}
      PROVE Submitted(c)'
  BY <1>1 DEF Begun, Submitted
<1>2. ASSUME NEW o \in SimpleOp, Begin(c, "simple", NewReq(o), <<>>)
      PROVE DataInv'
  <2>1. NewReq(o).op = o /\ NewReq(o).at = "queued" /\ NewReq(o).result = 0
    BY RequestFields DEF NewReq
  <2>2. o \notin ReadOp \cup WriteOp \cup {"spawn"}
    BY DEF SimpleOp, FsPathOp, FsVoidOp, ReadOp, WriteOp
  <2>3. "simple" \in Prog
    BY DEF Prog
  <2> QED
    BY <1>1, <1>2, <2>1, <2>2, <2>3, BeginStep
<1>3. ASSUME NEW p \in {"read_file", "write_file"}, Begin(c, p, NewReq("fs_open"), <<>>)
      PROVE DataInv'
  <2>1. NewReq("fs_open").op = "fs_open" /\ NewReq("fs_open").at = "queued" /\ NewReq("fs_open").result = 0
    BY RequestFields DEF NewReq
  <2>2. "fs_open" \notin ReadOp \cup WriteOp \cup {"spawn"} /\ p \in Prog
    BY DEF Prog, ReadOp, WriteOp
  <2> QED
    BY <1>1, <1>3, <2>1, <2>2, BeginStep
<1>4. ASSUME NEW p \in {"receive", "pipe"}, NEW o \in ReadOp, p = "pipe" => o = "stream_read",
             Begin(c, p, new_pinned_task(o, c, Chunk), <<>>)
      PROVE DataInv'
  <2> DEFINE t == new_pinned_task(o, c, Chunk)
  <2>1. t.op = o /\ t.at = "queued" /\ t.result = 0 /\ t.pin = c
    BY RequestFields
  <2>2. p \in Prog /\ c # NoBuffer /\ o \notin WriteOp \cup {"spawn"}
    BY RequestsAssumption DEF Prog, ReadOp, WriteOp
  <2>3. Begin(c, p, t, <<>>)
    BY <1>4
  <2> HIDE DEF t
  <2>4. ASSUME Begun(c, p, t, <<>>)
        PROVE Submitted(c)'
    BY <2>1, <2>2, <2>4 DEF Begun, Submitted
  <2> QED
    BY <1>4, <2>1, <2>2, <2>3, <2>4, BeginStep
<1>5. ASSUME NEW o \in WriteOp, NEW t \in {WriteReq(o), new_pinned_task(o, Shared, SourceLen)},
             Begin(c, "send", t, <<>>)
      PROVE DataInv'
  <2>1. /\ t.op = o /\ t.at = "queued" /\ t.result = 0 /\ t.nbytes = SourceLen
        /\ t.pin = Shared \/ (t.pin = NoBuffer /\ t.buffer = Content)
    BY RequestFields DEF WriteReq
  <2>2. "send" \in Prog /\ o \notin ReadOp \cup {"spawn"}
    BY DEF Prog, ReadOp, WriteOp
  <2>3. ASSUME Begun(c, "send", t, <<>>)
        PROVE Submitted(c)'
    BY <2>1, <2>2, <2>3 DEF Begun, Submitted
  <2> QED
    BY <1>5, <2>1, <2>2, <2>3, BeginStep
<1>6. ASSUME Begin(c, "connect", DnsReq, <<>>)
      PROVE DataInv'
  <2>1. DnsReq.op = "dns" /\ DnsReq.at = "queued" /\ DnsReq.result = 0
    BY RequestFields DEF DnsReq, NewReq
  <2>2. "dns" \notin ReadOp \cup WriteOp \cup {"spawn"} /\ "connect" \in Prog
    BY DEF Prog, ReadOp, WriteOp
  <2> QED
    BY <1>1, <1>6, <2>1, <2>2, BeginStep
<1>7. ASSUME NEW strs \in Commands, NEW p \in {"run", "output"}, Begin(c, p, SpawnReq(strs), strs)
      PROVE DataInv'
  <2> DEFINE t == SpawnReq(strs)
  <2>1. /\ t.op = "spawn" /\ t.at = "queued" /\ t.result = 0
        /\ t.buffer = PackStrings(strs) /\ t.nbytes = Len(strs)
    BY RequestFields DEF SpawnReq
  <2>2. "spawn" \notin ReadOp \cup WriteOp /\ p \in Prog
    BY DEF Prog, ReadOp, WriteOp
  <2>3. Begin(c, p, t, strs)
    BY <1>7
  <2> HIDE DEF t
  <2>4. ASSUME Begun(c, p, t, strs)
        PROVE Submitted(c)'
    BY <2>1, <2>2, <2>4 DEF Begun, Submitted
  <2> QED
    BY <2>1, <2>2, <2>3, <2>4, BeginStep
<1> QED
  BY <1>2, <1>3, <1>4, <1>5, <1>6, <1>7 DEF Call, ReadOp, WriteOp

-----------------------------------------------------------------------------
(* The callers: from one request to the next, and the end of a call. *)

\* What Scheme code between two awaits leaves alone.
Kept(c) ==
    /\ bytes'[c] = bytes[c] /\ prog'[c] = prog[c] /\ source'[c] = source[c] /\ sink'[c] = sink[c]
    /\ given'[c] = given[c] /\ failed'[c] = failed[c] /\ args'[c] = args[c] /\ argv'[c] = argv[c]
    /\ child'[c] = child[c]

\* The requests after the last read.
ClosingOp == {"fs_close", "close_stdout", "close_stderr", "wait", "close_proc"}

\* The next request: what the call's own data say, and the rest.
LEMMA NextRequestData ==
    ASSUME NEW c \in Caller, call[c] = "busy", Carried(c), Kept(c), task[c].at = "done",
           call'[c] = "busy", NEW t, task'[c] = t, t.at = "queued",
           prog[c] \in {"read_file", "write_file", "pipe", "connect", "run", "output"},
           prog[c] = "output" => Result(c) >= 0 /\ t.op # "spawn",
           Submitted(c)', LoopData(c)', PipeData(c)', WriteData(c)', ConnectData(c)'
    PROVE Carried(c)'
<1>1. Untouched(c)' /\ SinkData(c)' /\ ArgsData(c)'
  BY DEF Carried, Kept, Untouched, SinkData, ArgsData
<1>2. ReceiveData(c)' /\ AnswerData(c)'
  BY DEF Kept, ReceiveData, AnswerData
<1>3. ChildAgrees(c)'
  BY DEF Carried, Kept, ChildAgrees, Ok
<1> QED
  BY <1>1, <1>2, <1>3 DEF Carried

\* The end of a call.
LEMMA EndData ==
    ASSUME NEW c \in Caller, Carried(c), Kept(c), call'[c] \in {"returned", "raised"},
           LoopData(c)', PipeData(c)', ReceiveData(c)', WriteData(c)', AnswerData(c)', ConnectData(c)'
    PROVE Carried(c)'
<1>1. Untouched(c)' /\ Submitted(c)' /\ SinkData(c)' /\ ArgsData(c)' /\ ChildAgrees(c)'
  BY DEF Carried, Kept, Untouched, Submitted, SinkData, ArgsData, ChildAgrees
<1> QED
  BY <1>1 DEF Carried

\* A request without data.
LEMMA PlainSubmitted ==
    ASSUME NEW c \in Caller, task'[c].op \notin ReadOp \cup WriteOp \cup {"spawn"}
    PROVE Submitted(c)'
  BY DEF Submitted

\* A caller goes on, and nobody else does anything.
LEMMA ResumeStep ==
    ASSUME IInv, DataInv, NEW c \in Caller, UNCHANGED <<uv, bytes, prog, osVars>>,
           NEW t, Turn(c, t), t.result = 0, EqualBut(call, call', c), EqualBut(val, val', c),
           EqualBut(acc, acc', c), EqualBut(total, total', c), total'[c] \in Nat,
           Carried(c)'
    PROVE DataInv'
<1>1. EqualBut(task, task', c) /\ task'[c] = t
  BY TurnData
<1>2. UNCHANGED <<bytes, prog, source, sink, given, failed, args, argv, child>>
  BY DEF osVars
<1>3. OnlyAt(c)
  BY <1>1, <1>2, ExceptIsBut DEF OnlyAt
<1>4. source'[c] \in Seq(Nat) /\ child'[c] \in ChildType /\ bytes'[c] \in Seq(Nat)
  BY <1>2 DEF DataInv, DataShape, Bytevector
<1>5. task'[c].result \in Int
  BY <1>1
<1> QED
  BY <1>3, <1>4, <1>5, OneCaller

\* The next request of a call that keeps its local variables.
LEMMA ThenStep ==
    ASSUME IInv, DataInv, NEW c \in Caller, task[c].at = "done",
           UNCHANGED <<uv, bytes, prog, osVars>>, NEW t, Then(c, t), t.result = 0, t.at = "queued",
           prog[c] \in {"read_file", "write_file", "pipe", "run", "output"}, Result(c) >= 0,
           t.op # "spawn", task'[c] = t => Submitted(c)',
           task'[c] = t /\ UNCHANGED <<call, val, acc, total>> /\ Kept(c) =>
             LoopData(c)' /\ PipeData(c)' /\ WriteData(c)'
    PROVE DataInv'
<1>1. Turn(c, t) /\ UNCHANGED <<call, val, acc, total>>
  BY DEF Then, localVars
<1>2. task'[c] = t
  BY <1>1, TurnData
<1>3. Kept(c)
  BY DEF Kept, osVars
<1>4. call[c] = "busy" /\ Carried(c) /\ total[c] \in Nat
  BY DEF IInv, Stages, DataInv, DataShape
<1>5. ConnectData(c)'
  BY <1>3 DEF Kept, ConnectData
<1>6. Carried(c)'
  BY <1>1, <1>2, <1>3, <1>4, <1>5, NextRequestData
<1> QED
  BY <1>1, <1>4, <1>6, ResumeStep, ExceptIsBut

\* A call returns v.
LEMMA ReturnStep ==
    ASSUME IInv, DataInv, NEW c \in Caller, UNCHANGED <<uv, bytes, prog, osVars>>, NEW v, Return(c, v),
           call'[c] = "returned" /\ val'[c] = v /\ Kept(c) =>
             LoopData(c)' /\ PipeData(c)' /\ ReceiveData(c)' /\ WriteData(c)' /\ AnswerData(c)' /\ ConnectData(c)'
    PROVE DataInv'
<1>1. /\ Turn(c, NoTask) /\ call' = [call EXCEPT ![c] = "returned"] /\ val' = [val EXCEPT ![c] = v]
      /\ UNCHANGED <<acc, total>>
  BY DEF Return
<1>2. DOMAIN call = Caller /\ DOMAIN val = Caller /\ Carried(c) /\ total[c] \in Nat
  BY DEF IInv, Shape, DataInv, DataShape
<1>3. /\ EqualBut(call, call', c) /\ call'[c] = "returned"
      /\ EqualBut(val, val', c) /\ val'[c] = v
  BY <1>1, <1>2, UpdateAt
<1>4. Kept(c)
  BY DEF Kept, osVars
<1>5. Carried(c)'
  BY <1>2, <1>3, <1>4, EndData
<1> QED
  BY <1>1, <1>2, <1>3, <1>5, ResumeStep, ExceptIsBut, RequestFields

\* What the chunks of a loop that reads to the end are put together to.
LEMMA AssembledIs ==
    ASSUME NEW c \in Caller, total[c] \in Nat, acc[c] \in Seq(Seq(Nat)),
           Concat(Reverse(acc[c])) = Span(0, total[c])
    PROVE Assembled(c) = Numbered(total[c])
<1>1. Span(0, total[c]) \in Seq(Nat) /\ Len(Span(0, total[c])) = total[c]
  <2>1. 0 \in Nat /\ 0 <= total[c] /\ total[c] - 0 = total[c]
    OBVIOUS
  <2> QED
    BY <2>1, SpanProperties
<1>2. Filled(Zeros(total[c]), Span(0, total[c])) = Span(0, total[c])
  BY <1>1, FilledWhole
<1> QED
  BY <1>2, NumberedIsSpan DEF Assembled

\* The next request of such a loop: source and chunks are one behind the other
\* while it reads, and everything has been read when it does not.
LEMMA LoopNext ==
    ASSUME NEW c \in Caller, Kept(c), call'[c] = "busy", NEW t, task'[c] = t, t.at = "queued",
           t.op \in ClosingOp \cup ReadOp \cup {"close_stdin"},
           acc'[c] \in Seq(Seq(Nat)), total'[c] \in Nat, Concat(Reverse(acc'[c])) = Span(0, total'[c]),
           t.op \in ClosingOp => total'[c] = Whole(c),
           t.op = "close_stdin" => total'[c] = 0,
           t.op \notin ClosingOp => total'[c] <= Supplied(c) /\ source[c] = Span(total'[c], Supplied(c))
    PROVE LoopData(c)'
<1>1. Got(c)' = 0 /\ task'[c].at # "done"
  BY DEF Got
<1>2. Whole(c)' = Whole(c) /\ Supplied(c)' = Supplied(c) /\ source'[c] = source[c]
  BY DEF Kept, Whole, Supplied
<1>3. total'[c] + 0 = total'[c] /\ 0 \in Nat
  OBVIOUS
<1>4. CASE t.op \in ReadOp
  BY <1>1, <1>2, <1>3, <1>4 DEF LoopData, ReadOp, ClosingOp
<1>5. CASE t.op \in ClosingOp
  BY <1>2, <1>5 DEF LoopData, ReadOp, ClosingOp
<1>6. CASE t.op = "close_stdin"
  BY <1>2, <1>6 DEF LoopData, ReadOp, ClosingOp
<1> QED
  BY <1>4, <1>5, <1>6

\* Such a loop goes on to a request and keeps its chunks.
LEMMA LoopThen ==
    ASSUME IInv, DataInv, NEW c \in Caller, task[c].at = "done", Result(c) >= 0,
           UNCHANGED <<uv, bytes, prog, osVars>>, prog[c] \in {"read_file", "output"},
           NEW t, Then(c, t), t.result = 0, t.at = "queued",
           t.op \in ClosingOp \cup ReadOp \cup {"close_stdin"},
           t.op \in ReadOp => t.pin = NoBuffer /\ t.buffer \in Seq(Nat),
           t.op \in ClosingOp => total[c] = Whole(c),
           t.op \notin ClosingOp => total[c] = 0 /\ source[c] = Span(0, Supplied(c)) /\ Supplied(c) \in Nat
    PROVE DataInv'
<1>1. call[c] = "busy" /\ LoopData(c) /\ total[c] \in Nat
  BY DEF IInv, Stages, DataInv, DataShape, Carried
<1>2. Ok(c)
  BY DEF Ok
<1>3. acc[c] \in Seq(Seq(Nat)) /\ Concat(Reverse(acc[c])) = Span(0, total[c])
  BY <1>1, <1>2 DEF LoopData
<1>4. t.op # "spawn" /\ t.op \notin WriteOp
  BY DEF ClosingOp, ReadOp, WriteOp
<1>5. ASSUME task'[c] = t
      PROVE Submitted(c)'
  BY <1>4, <1>5 DEF Submitted
<1>6. ASSUME task'[c] = t, UNCHANGED <<call, val, acc, total>>, Kept(c)
      PROVE LoopData(c)' /\ PipeData(c)' /\ WriteData(c)'
  <2>1. PipeData(c)' /\ WriteData(c)'
    BY <1>6 DEF Kept, PipeData, WriteData
  <2>2. call'[c] = "busy" /\ acc'[c] = acc[c] /\ total'[c] = total[c]
    BY <1>1, <1>6
  <2>3. t.op \notin ClosingOp => total'[c] <= Supplied(c) /\ source[c] = Span(total'[c], Supplied(c))
    BY <2>2
  <2>4. /\ acc'[c] \in Seq(Seq(Nat)) /\ total'[c] \in Nat /\ Concat(Reverse(acc'[c])) = Span(0, total'[c])
        /\ t.op \in ClosingOp => total'[c] = Whole(c)
        /\ t.op = "close_stdin" => total'[c] = 0
    BY <1>1, <1>3, <2>2 DEF ClosingOp
  <2>5. LoopData(c)'
    BY <1>6, <2>2, <2>3, <2>4, LoopNext
  <2> QED
    BY <2>1, <2>5
<1> QED
  BY <1>4, <1>5, <1>6, ThenStep

\* A chunk is kept and the next read submitted, or the end has been reached.
LEMMA ReadOnData ==
    ASSUME IInv, DataInv, NEW c \in Caller, task[c].at = "done", Result(c) >= 0,
           UNCHANGED <<uv, bytes, prog, osVars>>, prog[c] \in {"read_file", "output"},
           task[c].op \in ReadOp, NEW after \in ClosingOp, ReadOn(c, after)
    PROVE DataInv'
<1>1. call[c] = "busy" /\ Carried(c) /\ LoopData(c) /\ total[c] \in Nat /\ DOMAIN acc = Caller
      /\ DOMAIN total = Caller
  BY DEF IInv, Stages, DataInv, DataShape, Carried
<1>2. Ok(c) /\ Got(c) = Result(c)
  BY DEF Ok, Got
<1>3. /\ acc[c] \in Seq(Seq(Nat)) /\ Concat(Reverse(acc[c])) = Span(0, total[c])
      /\ Result(c) \in Nat /\ total[c] + Result(c) <= Supplied(c)
      /\ source[c] = Span(total[c] + Result(c), Supplied(c))
      /\ ReadInto(c) = Span(total[c], total[c] + Result(c))
      /\ Result(c) = 0 => total[c] = Whole(c)
  BY <1>1, <1>2 DEF LoopData
<1>4. CASE Result(c) = 0
  <2>1. NewReq(after).op = after /\ NewReq(after).at = "queued" /\ NewReq(after).result = 0
    BY RequestFields DEF NewReq
  <2>2. Then(c, NewReq(after)) /\ after \notin ReadOp
    BY <1>4 DEF ReadOn, ClosingOp, ReadOp
  <2> QED
    BY <1>3, <1>4, <2>1, <2>2, LoopThen
<1>5. CASE Result(c) # 0
  <2> DEFINE t == ReadReq(task[c].op)
             k == total[c] + Result(c)
             x == ReadInto(c)
  <2>1. t.op = task[c].op /\ t.at = "queued" /\ t.result = 0 /\ t.pin = NoBuffer /\ t.buffer = Zeros(Chunk)
    BY RequestFields DEF ReadReq
  <2>2. /\ acc' = [acc EXCEPT ![c] = <<x>> \o acc[c]] /\ total' = [total EXCEPT ![c] = k]
        /\ Turn(c, t) /\ UNCHANGED <<call, val>>
    BY <1>5 DEF ReadOn
  <2>3. t.buffer \in Seq(Nat) /\ t.op \notin WriteOp \cup ClosingOp \cup {"spawn", "close_stdin"}
    BY <2>1, OpsAssumption DEF Zeros, ReadOp, WriteOp, ClosingOp
  <2>4. k \in Nat /\ total[c] <= k /\ 0 <= total[c] /\ 0 \in Nat
    BY <1>1, <1>3
  <2> HIDE DEF t, k
  <2>5. x \in Seq(Nat) /\ x = Span(total[c], k)
    BY <1>1, <1>3, <2>4, SpanProperties DEF k
  <2>6. Span(0, total[c]) \o x = Span(0, k)
    <3>1. Span(0, total[c]) \o Span(total[c], k) = Span(0, k)
      BY <1>1, <2>4, SpanConcat
    <3> QED
      BY <2>5, <3>1
  <2> HIDE DEF x
  <2>7. <<x>> \o acc[c] \in Seq(Seq(Nat)) /\ Concat(Reverse(<<x>> \o acc[c])) = Span(0, k)
    BY <1>3, <2>5, <2>6, ChunkAdded
  <2>8. EqualBut(acc, acc', c) /\ acc'[c] = <<x>> \o acc[c] /\ EqualBut(total, total', c) /\ total'[c] = k
    BY <1>1, <2>2, UpdateAt
  <2>9. task'[c] = t /\ call'[c] = "busy"
    BY <1>1, <2>2, TurnData
  <2>10. Kept(c)
    BY DEF Kept, osVars
  <2>11. Submitted(c)'
    BY <2>1, <2>3, <2>9, <2>10 DEF Submitted, Kept
  <2>12. PipeData(c)' /\ WriteData(c)' /\ ConnectData(c)'
    BY <2>10 DEF Kept, PipeData, WriteData, ConnectData
  <2>13. k <= Supplied(c) /\ source[c] = Span(k, Supplied(c))
    BY <1>3 DEF k
  <2>14. LoopData(c)'
    <3>1. t.op \in ClosingOp \cup ReadOp \cup {"close_stdin"}
      BY <2>1
    <3> QED
      BY <2>1, <2>3, <2>4, <2>7, <2>8, <2>9, <2>10, <2>13, <3>1, LoopNext
  <2>15. Carried(c)'
    BY <1>1, <2>1, <2>3, <2>9, <2>10, <2>11, <2>12, <2>14, NextRequestData
  <2>16. total'[c] \in Nat
    BY <2>4, <2>8
  <2> QED
    BY <2>1, <2>2, <2>8, <2>15, <2>16, ResumeStep, ExceptIsBut
<1> QED
  BY <1>4, <1>5

\* Such a loop returns what it has read.
LEMMA LoopReturns ==
    ASSUME IInv, DataInv, NEW c \in Caller, task[c].at = "done", Result(c) >= 0,
           UNCHANGED <<uv, bytes, prog, osVars>>, prog[c] \in {"read_file", "output"},
           task[c].op \in ClosingOp, Return(c, Assembled(c))
    PROVE DataInv'
<1>1. call[c] = "busy" /\ LoopData(c) /\ total[c] \in Nat
  BY DEF IInv, Stages, DataInv, DataShape, Carried
<1>2. Ok(c)
  BY DEF Ok
<1>3. /\ acc[c] \in Seq(Seq(Nat)) /\ Concat(Reverse(acc[c])) = Span(0, total[c])
      /\ total[c] = Whole(c)
  BY <1>1, <1>2 DEF LoopData, ClosingOp
<1>4. Assembled(c) = Numbered(Whole(c))
  BY <1>1, <1>3, AssembledIs
<1>5. ASSUME call'[c] = "returned", val'[c] = Assembled(c), Kept(c)
      PROVE /\ LoopData(c)' /\ PipeData(c)' /\ ReceiveData(c)' /\ WriteData(c)' /\ AnswerData(c)'
            /\ ConnectData(c)'
  <2>1. Whole(c)' = Whole(c)
    BY <1>5 DEF Kept, Whole
  <2>2. LoopData(c)'
    BY <1>4, <1>5, <2>1 DEF LoopData
  <2> QED
    BY <1>5, <2>2 DEF Kept, PipeData, ReceiveData, WriteData, AnswerData, ConnectData
<1> QED
  BY <1>5, ReturnStep

\* A call without data to account for returns.
LEMMA PlainReturns ==
    ASSUME IInv, DataInv, NEW c \in Caller, UNCHANGED <<uv, bytes, prog, osVars>>,
           prog[c] \in {"write_file", "run"}, NEW v, Return(c, v)
    PROVE DataInv'
<1>1. ASSUME call'[c] = "returned", val'[c] = v, Kept(c)
      PROVE /\ LoopData(c)' /\ PipeData(c)' /\ ReceiveData(c)' /\ WriteData(c)' /\ AnswerData(c)'
            /\ ConnectData(c)'
  BY <1>1 DEF Kept, LoopData, PipeData, ReceiveData, WriteData, AnswerData, ConnectData
<1> QED
  BY <1>1, ReturnStep

\* io-read-file.
LEMMA ReadFileData ==
    ASSUME IInv, DataInv, NEW c \in Caller, task[c].at = "done", Result(c) >= 0,
           UNCHANGED <<uv, bytes, prog, osVars>>, ReadFile(c)
    PROVE DataInv'
<1>1. CASE At(c, {"read_file"}, {"fs_open"}) /\ Then(c, ReadReq("fs_read"))
  <2> DEFINE t == ReadReq("fs_read")
  <2>1. t.op = "fs_read" /\ t.at = "queued" /\ t.result = 0 /\ t.pin = NoBuffer /\ t.buffer = Zeros(Chunk)
    BY RequestFields DEF ReadReq
  <2>2. Then(c, t) /\ prog[c] = "read_file" /\ task[c].op = "fs_open" /\ call[c] = "busy"
    BY <1>1 DEF At, IInv, Stages
  <2>3. total[c] = 0 /\ source[c] = Span(0, Supplied(c)) /\ Supplied(c) \in Nat
    BY <2>2, OpsAssumption DEF DataInv, Carried, LoopData, Ok, Supplied
  <2>4. t.buffer \in Seq(Nat) /\ t.op \in ReadOp \ ClosingOp
    BY <2>1, OpsAssumption DEF Zeros, ReadOp, ClosingOp
  <2> HIDE DEF t
  <2> QED
    BY <2>1, <2>2, <2>3, <2>4, LoopThen
<1>2. CASE At(c, {"read_file"}, {"fs_read"}) /\ ReadOn(c, "fs_close")
  BY <1>2, ReadOnData DEF At, ReadOp, ClosingOp
<1>3. CASE At(c, {"read_file"}, {"fs_close"}) /\ Return(c, Assembled(c))
  BY <1>3, LoopReturns DEF At, ClosingOp
<1> QED
  BY <1>1, <1>2, <1>3 DEF ReadFile

\* io-run and io-run/output.
LEMMA RunData ==
    ASSUME IInv, DataInv, NEW c \in Caller, task[c].at = "done", Result(c) >= 0,
           UNCHANGED <<uv, bytes, prog, osVars>>, Run(c)
    PROVE DataInv'
<1>1. call[c] = "busy" /\ Carried(c) /\ Ok(c) /\ child[c] \in ChildType
  BY DEF IInv, Stages, DataInv, DataShape, Ok
<1>2. \A o : NewReq(o).op = o /\ NewReq(o).at = "queued" /\ NewReq(o).result = 0
  BY RequestFields DEF NewReq
<1>3. ASSUME prog[c] = "run", NEW o \in ClosingOp, Then(c, NewReq(o))
      PROVE DataInv'
  <2>1. o \notin ReadOp \cup WriteOp \cup {"spawn"}
    BY DEF ClosingOp, ReadOp, WriteOp
  <2>2. ASSUME task'[c] = NewReq(o)
        PROVE Submitted(c)'
    BY <1>2, <2>1, <2>2, PlainSubmitted
  <2>3. ASSUME Kept(c)
        PROVE LoopData(c)' /\ PipeData(c)' /\ WriteData(c)'
    BY <1>3, <2>3 DEF Kept, LoopData, PipeData, WriteData
  <2> QED
    BY <1>2, <1>3, <2>1, <2>2, <2>3, ThenStep
<1>4. ASSUME prog[c] = "output", task[c].op \in ClosingOp, NEW o \in ClosingOp, Then(c, NewReq(o))
      PROVE DataInv'
  <2>1. total[c] = Whole(c)
    BY <1>1, <1>4 DEF Carried, LoopData, ClosingOp
  <2>2. o \notin ReadOp
    BY DEF ClosingOp, ReadOp
  <2> QED
    BY <1>2, <1>4, <2>1, <2>2, LoopThen
<1>5. ASSUME prog[c] = "output", task[c].op \in {"spawn", "close_stdin"}
      PROVE total[c] = 0 /\ source[c] = Span(0, Supplied(c)) /\ Supplied(c) \in Nat
  <2>1. total[c] = 0 /\ source[c] = Span(0, Supplied(c))
    BY <1>1, <1>5 DEF Carried, LoopData
  <2>2. OutLen \in Nat /\ child[c].out \in 0..OutLen
    BY <1>1, OpsAssumption DEF ChildType
  <2>3. OutLen - child[c].out \in Nat
    BY <2>2
  <2> QED
    BY <1>5, <2>1, <2>3 DEF Supplied
<1>6. CASE At(c, {"output"}, {"spawn"}) /\ Then(c, FirstOfOutput)
  <2>1. "close_stdin" \notin ClosingOp \cup ReadOp
    BY DEF ClosingOp, ReadOp
  <2> QED
    BY <1>2, <1>5, <1>6, <2>1, LoopThen DEF At, FirstOfOutput
<1>7. CASE At(c, {"output"}, {"close_stdin"}) /\ Then(c, ReadReq("stream_read"))
  <2> DEFINE t == ReadReq("stream_read")
  <2>1. t.op = "stream_read" /\ t.at = "queued" /\ t.result = 0 /\ t.pin = NoBuffer
        /\ t.buffer = Zeros(Chunk)
    BY RequestFields DEF ReadReq
  <2>2. t.buffer \in Seq(Nat) /\ t.op \in ReadOp \ ClosingOp
    BY <2>1, OpsAssumption DEF Zeros, ReadOp, ClosingOp
  <2>3. Then(c, t) /\ prog[c] = "output" /\ task[c].op = "close_stdin"
    BY <1>7 DEF At
  <2> HIDE DEF t
  <2> QED
    BY <1>5, <2>1, <2>2, <2>3, LoopThen
<1>8. CASE At(c, {"output"}, {"stream_read"}) /\ ReadOn(c, "close_stdout")
  BY <1>8, ReadOnData DEF At, ReadOp, ClosingOp
<1>9. CASE At(c, {"run", "output"}, {"close_proc"}) /\ Return(c, Assembled(c))
  BY <1>9, LoopReturns, PlainReturns DEF At, ClosingOp
<1>10. CASE At(c, {"run"}, {"spawn"}) /\ Then(c, NewReq("wait"))
  BY <1>3, <1>10 DEF At, ClosingOp
<1>11. CASE At(c, {"output"}, {"close_stdout"}) /\ Then(c, NewReq(LastStream))
  BY <1>4, <1>11 DEF At, ClosingOp, LastStream
<1>12. CASE At(c, {"output"}, {"close_stderr"}) /\ Then(c, NewReq("wait"))
  BY <1>4, <1>12 DEF At, ClosingOp
<1>13. CASE At(c, {"run", "output"}, {"wait"}) /\ Then(c, NewReq("close_proc"))
  BY <1>3, <1>4, <1>13 DEF At, ClosingOp
<1> QED
  BY <1>6, <1>7, <1>8, <1>9, <1>10, <1>11, <1>12, <1>13 DEF Run

\* io-write-file.
LEMMA WriteFileData ==
    ASSUME IInv, DataInv, NEW c \in Caller, task[c].at = "done", Result(c) >= 0,
           UNCHANGED <<uv, bytes, prog, osVars>>, WriteFile(c)
    PROVE DataInv'
<1>1. call[c] = "busy" /\ Carried(c) /\ prog[c] = "write_file"
  BY DEF IInv, Stages, DataInv, WriteFile, At
<1>2. ASSUME Kept(c)
      PROVE LoopData(c)' /\ PipeData(c)'
  BY <1>1, <1>2 DEF Kept, LoopData, PipeData
<1>3. CASE At(c, {"write_file"}, {"fs_open"}) /\ Then(c, WriteReq("fs_write"))
  <2> DEFINE t == WriteReq("fs_write")
  <2>1. /\ t.op = "fs_write" /\ t.at = "queued" /\ t.result = 0 /\ t.pin = NoBuffer
        /\ t.nbytes = SourceLen /\ t.buffer = Content
    BY RequestFields DEF WriteReq
  <2>2. Then(c, t) /\ prog'[c] = "write_file"
    BY <1>1, <1>3
  <2>3. t.op \in WriteOp \ ReadOp
    BY <2>1 DEF ReadOp, WriteOp
  <2>4. sink[c] = Span(0, 0) /\ 0 \in 0..SourceLen
    <3>1. sink[c] = <<>>
      BY <1>1, <1>3 DEF Carried, WriteData, At
    <3>2. 0 \in Nat /\ 0 <= 0 /\ 0 \in 0..SourceLen
      BY OpsAssumption
    <3> QED
      BY <3>1, <3>2, SpanEmpty
  <2> HIDE DEF t
  <2>5. ASSUME task'[c] = t
        PROVE Submitted(c)'
    BY <2>1, <2>2, <2>3, <2>5 DEF Submitted
  <2>6. ASSUME task'[c] = t, UNCHANGED <<call, val, acc, total>>, Kept(c)
        PROVE WriteData(c)'
    <3>1. Got(c)' = 0
      BY <2>1, <2>6 DEF Got
    <3> QED
      BY <1>1, <2>1, <2>4, <2>6, <3>1 DEF Kept, WriteData
  <2> QED
    BY <1>1, <1>2, <2>1, <2>2, <2>5, <2>6, ThenStep
<1>4. CASE At(c, {"write_file"}, {"fs_write"}) /\ Then(c, NewReq("fs_close"))
  <2>1. /\ NewReq("fs_close").op = "fs_close" /\ NewReq("fs_close").at = "queued"
        /\ NewReq("fs_close").result = 0
    BY RequestFields DEF NewReq
  <2>2. "fs_close" \notin ReadOp \cup WriteOp \cup {"spawn"}
    BY DEF ReadOp, WriteOp
  <2>3. ASSUME task'[c] = NewReq("fs_close")
        PROVE Submitted(c)'
    BY <2>1, <2>2, <2>3, PlainSubmitted
  <2>4. ASSUME task'[c] = NewReq("fs_close"), UNCHANGED <<call, val, acc, total>>, Kept(c)
        PROVE WriteData(c)'
    BY <1>1, <2>1, <2>2, <2>4 DEF Kept, WriteData
  <2> QED
    BY <1>1, <1>2, <1>4, <2>1, <2>3, <2>4, ThenStep
<1>5. CASE At(c, {"write_file"}, {"fs_close"}) /\ Return(c, <<>>)
  BY <1>1, <1>5, PlainReturns
<1> QED
  BY <1>3, <1>4, <1>5 DEF WriteFile

\* io-stream-pipe: the bytevector goes from the read to the write and back.
LEMMA PipeStepData ==
    ASSUME IInv, DataInv, NEW c \in Caller, task[c].at = "done", Result(c) >= 0,
           UNCHANGED <<uv, bytes, prog, osVars>>, Pipe(c)
    PROVE DataInv'
<1>1. call[c] = "busy" /\ Carried(c) /\ PipeData(c) /\ prog[c] = "pipe" /\ Ok(c) /\ Got(c) = Result(c)
      /\ total[c] \in Nat /\ DOMAIN total = Caller
  BY DEF IInv, Stages, DataInv, DataShape, Carried, Pipe, At, Ok, Got
<1>2. SourceLen \in Nat /\ c # NoBuffer
  BY OpsAssumption, RequestsAssumption
<1>3. ASSUME Kept(c)
      PROVE LoopData(c)' /\ WriteData(c)' /\ ReceiveData(c)' /\ AnswerData(c)' /\ ConnectData(c)'
  BY <1>1, <1>3 DEF Kept, LoopData, WriteData, ReceiveData, AnswerData, ConnectData
<1>4. ASSUME task[c].op = "stream_read"
      PROVE /\ Result(c) \in Nat /\ total[c] + Result(c) <= SourceLen
            /\ sink[c] = Span(0, total[c]) /\ source[c] = Span(total[c] + Result(c), SourceLen)
            /\ SubSeq(bytes[c], 1, Result(c)) = Span(total[c], total[c] + Result(c))
            /\ Result(c) = 0 => total[c] = SourceLen
  BY <1>1, <1>4 DEF PipeData
<1>5. CASE task[c].op = "stream_read" /\ Result(c) = 0
  <2>1. Return(c, <<total[c]>>)
    BY <1>5 DEF Pipe, At
  <2>2. total[c] = SourceLen /\ sink[c] = Content
    BY <1>2, <1>4, <1>5, NumberedIsSpan DEF Content
  <2>3. ASSUME call'[c] = "returned", val'[c] = <<total[c]>>, Kept(c)
        PROVE PipeData(c)'
    BY <2>2, <2>3 DEF Kept, PipeData
  <2> QED
    BY <1>3, <2>1, <2>3, ReturnStep
<1>6. CASE task[c].op = "stream_read" /\ Result(c) # 0
  <2> DEFINE n == Result(c)
             t == new_pinned_task("stream_write", c, n)
  <2>1. t.op = "stream_write" /\ t.at = "queued" /\ t.result = 0 /\ t.pin = c /\ t.nbytes = n
    BY RequestFields
  <2>2. Then(c, t) /\ prog'[c] = "pipe"
    BY <1>1, <1>6 DEF Pipe, At
  <2>3. t.op \notin ReadOp
    BY <2>1 DEF ReadOp
  <2> HIDE DEF t
  <2>4. ASSUME task'[c] = t
        PROVE Submitted(c)'
    BY <2>1, <2>2, <2>3, <2>4 DEF Submitted
  <2>5. ASSUME task'[c] = t, UNCHANGED <<call, val, acc, total>>, Kept(c)
        PROVE PipeData(c)'
    <3>1. call'[c] = "busy" /\ total'[c] = total[c] /\ task'[c].at # "done"
          /\ task'[c].op = "stream_write" /\ task'[c].nbytes = n
          /\ sink'[c] = sink[c] /\ source'[c] = source[c] /\ bytes'[c] = bytes[c]
      BY <1>1, <2>1, <2>5 DEF Kept
    <3>2. /\ n \in Nat /\ total[c] + n <= SourceLen /\ SubSeq(bytes[c], 1, n) = Span(total[c], total[c] + n)
          /\ sink[c] = Span(0, total[c]) /\ source[c] = Span(total[c] + n, SourceLen)
      BY <1>4, <1>6
    <3> HIDE DEF n
    <3> QED
      BY <3>1, <3>2 DEF PipeData
  <2> QED
    BY <1>1, <1>3, <2>1, <2>2, <2>4, <2>5, ThenStep
<1>7. CASE task[c].op = "stream_write"
  <2> DEFINE n == task[c].nbytes
             t == new_pinned_task("stream_read", c, Chunk)
             k == total[c] + n
  <2>1. t.op = "stream_read" /\ t.at = "queued" /\ t.result = 0 /\ t.pin = c
    BY RequestFields
  <2>2. /\ Turn(c, t) /\ total' = [total EXCEPT ![c] = k] /\ UNCHANGED <<call, val, acc>>
    BY <1>7 DEF Pipe, At
  <2>3. t.op \in ReadOp \ WriteOp
    BY <2>1 DEF ReadOp, WriteOp
  <2> HIDE DEF t
  <2>4. n \in Nat /\ k <= SourceLen /\ sink[c] = Span(0, k) /\ source[c] = Span(k, SourceLen)
    BY <1>1, <1>7 DEF PipeData
  <2>5. k \in Nat
    BY <1>1, <2>4
  <2> HIDE DEF k
  <2>6. EqualBut(total, total', c) /\ total'[c] = k /\ task'[c] = t /\ call'[c] = "busy"
    BY <1>1, <2>2, UpdateAt, TurnData
  <2>7. Kept(c)
    BY DEF Kept, osVars
  <2>8. Submitted(c)'
    BY <1>1, <1>2, <2>1, <2>3, <2>6, <2>7 DEF Submitted, Kept
  <2>9. PipeData(c)'
    <3>1. Got(c)' = 0 /\ task'[c].at # "done" /\ task'[c].op = "stream_read"
      BY <2>1, <2>6 DEF Got
    <3>2. k + 0 = k /\ 0 \in Nat
      BY <2>5
    <3>3. sink'[c] = Span(0, k) /\ source'[c] = Span(k, SourceLen)
      BY <2>4, <2>7 DEF Kept
    <3> QED
      BY <2>4, <2>6, <3>1, <3>2, <3>3 DEF PipeData
  <2>10. Carried(c)'
    BY <1>1, <1>3, <2>1, <2>6, <2>7, <2>8, <2>9, NextRequestData
  <2> QED
    BY <2>1, <2>2, <2>5, <2>6, <2>10, ResumeStep, ExceptIsBut
<1> QED
  BY <1>5, <1>6, <1>7 DEF Pipe, At

\* Calls of a single request.
LEMMA SimpleData ==
    ASSUME IInv, DataInv, NEW c \in Caller, task[c].at = "done", Result(c) >= 0,
           UNCHANGED <<uv, bytes, prog, osVars>>, Simple(c)
    PROVE DataInv'
<1> DEFINE v == IF prog[c] = "simple" THEN task[c].names ELSE <<Result(c)>>
<1>1. /\ call[c] = "busy" /\ Carried(c) /\ prog[c] \in {"simple", "receive", "send"} /\ Return(c, v)
      /\ Ok(c) /\ Got(c) = Result(c) /\ task[c].op \in RequestsOf(prog[c])
  BY DEF IInv, Stages, HandlesFollow, Follows, DataInv, Simple, Ok, Got
<1>2. ASSUME call'[c] = "returned", val'[c] = v, Kept(c)
      PROVE /\ LoopData(c)' /\ PipeData(c)' /\ ReceiveData(c)' /\ WriteData(c)' /\ AnswerData(c)'
            /\ ConnectData(c)'
  <2>1. LoopData(c)' /\ PipeData(c)' /\ ConnectData(c)'
    BY <1>1, <1>2 DEF Kept, LoopData, PipeData, ConnectData
  <2>2. AnswerData(c)'
    BY <1>1, <1>2 DEF Kept, Carried, AnswerData
  <2>3. ReceiveData(c)'
    <3>1. SUFFICES ASSUME prog[c] = "receive"
                   PROVE ReceiveData(c)'
      BY <1>2 DEF Kept, ReceiveData
    <3>2. /\ Result(c) \in 0..SourceLen /\ source[c] = Span(Result(c), SourceLen)
          /\ SubSeq(bytes[c], 1, Result(c)) = Span(0, Result(c))
      BY <1>1, <3>1 DEF Carried, ReceiveData
    <3>3. /\ val'[c] = <<Result(c)>> /\ call'[c] = "returned"
          /\ source'[c] = source[c] /\ bytes'[c] = bytes[c]
      BY <1>2, <3>1 DEF Kept
    <3> QED
      BY <3>2, <3>3 DEF ReceiveData
  <2>4. WriteData(c)'
    <3>1. SUFFICES ASSUME prog[c] = "send"
                   PROVE WriteData(c)'
      BY <1>1, <1>2 DEF Kept, WriteData
    <3>2. task[c].op \in WriteOp
      BY <1>1, <3>1 DEF RequestsOf, WriteOp
    <3>3. Result(c) \in 0..SourceLen /\ sink[c] = Span(0, Result(c))
      BY <1>1, <3>1, <3>2 DEF Carried, WriteData
    <3>4. val'[c] = <<Result(c)>> /\ call'[c] = "returned" /\ sink'[c] = sink[c]
      BY <1>2, <3>1 DEF Kept
    <3> QED
      BY <3>3, <3>4 DEF WriteData
  <2> QED
    BY <2>1, <2>2, <2>3, <2>4
<1> HIDE DEF v
<1> QED
  BY <1>1, <1>2, ReturnStep

\* io-tcp-connect goes on to the first of the addresses that are left.
LEMMA ConnectToData ==
    ASSUME IInv, DataInv, NEW c \in Caller, task[c].at = "done", prog[c] = "connect",
           UNCHANGED <<uv, bytes, prog, osVars>>, NEW addresses \in Seq(Address), addresses # <<>>,
           failed[c] \in Seq(Address), failed[c] \o addresses = Distinct(given[c]),
           ConnectTo(c, addresses)
    PROVE DataInv'
<1> DEFINE t == NewReq("connect")
<1>1. t.op = "connect" /\ t.at = "queued" /\ t.result = 0
  BY RequestFields DEF NewReq
<1>2. /\ acc' = [acc EXCEPT ![c] = addresses] /\ Turn(c, t) /\ UNCHANGED <<call, val, total>>
  BY DEF ConnectTo
<1> HIDE DEF t
<1>3. call[c] = "busy" /\ Carried(c) /\ total[c] \in Nat /\ DOMAIN acc = Caller
  BY DEF IInv, Stages, DataInv, DataShape
<1>4. EqualBut(acc, acc', c) /\ acc'[c] = addresses
  BY <1>2, <1>3, UpdateAt
<1>5. task'[c] = t /\ call'[c] = "busy" /\ val'[c] = val[c]
  BY <1>2, <1>3, TurnData
<1>6. Kept(c)
  BY DEF Kept, osVars
<1>7. Submitted(c)'
  <2>1. "connect" \notin ReadOp \cup WriteOp \cup {"spawn"}
    BY DEF ReadOp, WriteOp
  <2> QED
    BY <1>1, <1>5, <2>1, PlainSubmitted
<1>8. LoopData(c)' /\ PipeData(c)' /\ WriteData(c)'
  BY <1>6 DEF Kept, LoopData, PipeData, WriteData
<1>9. ConnectData(c)'
  <2>1. Ok(c)' /\ task'[c].op = "connect"
    BY <1>1, <1>5 DEF Ok
  <2>2. val[c] = <<>>
    BY <1>3 DEF Carried, ConnectData
  <2>3. failed'[c] = failed[c] /\ given'[c] = given[c]
    BY <1>6 DEF Kept
  <2> QED
    BY <1>4, <1>5, <2>1, <2>2, <2>3 DEF ConnectData
<1>10. Carried(c)'
  BY <1>1, <1>3, <1>5, <1>6, <1>7, <1>8, <1>9, NextRequestData
<1> QED
  BY <1>1, <1>2, <1>3, <1>4, <1>10, ResumeStep, ExceptIsBut

\* io-tcp-connect: after the lookup, and after a connect.
LEMMA ConnectStepData ==
    ASSUME IInv, DataInv, NEW c \in Caller, task[c].at = "done", Result(c) >= 0,
           UNCHANGED <<uv, bytes, prog, osVars>>, Connect(c)
    PROVE DataInv'
<1>1. call[c] = "busy" /\ Carried(c) /\ prog[c] = "connect" /\ Result(c) \in Int
  BY DEF IInv, Stages, DataInv, DataShape, Connect, At, Result
<1>2. ASSUME task[c].op = "connect"
      PROVE /\ acc[c] \in Seq(Address) /\ acc[c] # <<>> /\ failed[c] \in Seq(Address)
            /\ failed[c] \o (IF Ok(c) THEN acc[c] ELSE Tail(acc[c])) = Distinct(given[c])
  BY <1>1, <1>2 DEF Carried, ConnectData
<1>3. CASE At(c, {"connect"}, {"dns"}) /\ ConnectTo(c, task[c].names)
  <2>1. /\ failed[c] = <<>> /\ task[c].names = Distinct(given[c]) /\ task[c].names # <<>>
        /\ task[c].names \in Seq(Address)
    <3>1. task[c].op = "dns" /\ ~(Result(c) < 0)
      BY <1>1, <1>3 DEF At
    <3> QED
      BY <1>1, <3>1 DEF Carried, ConnectData
  <2>2. <<>> \in Seq(Address) /\ <<>> \o task[c].names = task[c].names
    BY <2>1, EmptySeq, ConcatSimplifications
  <2> QED
    BY <1>1, <1>3, <2>1, <2>2, ConnectToData
<1>4. CASE At(c, {"connect"}, {"connect"}) /\ Return(c, <<Head(acc[c])>>)
  <2> DEFINE a == Head(acc[c])
  <2>1. /\ acc[c] \in Seq(Address) /\ acc[c] # <<>> /\ failed[c] \in Seq(Address)
        /\ failed[c] \o acc[c] = Distinct(given[c])
    <3>1. task[c].op = "connect" /\ Ok(c)
      BY <1>4 DEF At, Ok
    <3> QED
      BY <1>2, <3>1
  <2>2. a \in Address /\ Tail(acc[c]) \in Seq(Address)
    BY <2>1, RangeTail
  <2>3. Append(failed[c], a) \o Tail(acc[c]) = Distinct(given[c])
    BY <2>1, MoveFront
  <2> HIDE DEF a
  <2>4. failed[c] \o <<a>> = Append(failed[c], a) /\ Append(failed[c], a) \in Seq(Address)
    BY <2>1, <2>2, AppendIsConcat, AppendProperties
  <2>5. IsPrefix(failed[c] \o <<a>>, Distinct(given[c]))
    BY <2>2, <2>3, <2>4, PrefixOfConcat
  <2>6. ASSUME call'[c] = "returned", val'[c] = <<a>>, Kept(c)
        PROVE /\ LoopData(c)' /\ PipeData(c)' /\ ReceiveData(c)' /\ WriteData(c)' /\ AnswerData(c)'
              /\ ConnectData(c)'
    <3>1. LoopData(c)' /\ PipeData(c)' /\ ReceiveData(c)' /\ WriteData(c)' /\ AnswerData(c)'
      BY <1>1, <2>6 DEF Kept, LoopData, PipeData, ReceiveData, WriteData, AnswerData
    <3>2. ConnectData(c)'
      BY <2>5, <2>6 DEF Kept, ConnectData
    <3> QED
      BY <3>1, <3>2
  <2>7. Return(c, <<a>>)
    BY <1>4 DEF a
  <2> QED
    BY <2>6, <2>7, ReturnStep
<1> QED
  BY <1>3, <1>4 DEF Connect

\* io-tcp-connect: after a connect that failed, the addresses behind it.
LEMMA ConnectNextData ==
    ASSUME IInv, DataInv, NEW c \in Caller, task[c].at = "done", UNCHANGED <<uv, bytes, prog, osVars>>,
           ConnectNext(c)
    PROVE DataInv'
<1>1. /\ prog[c] = "connect" /\ task[c].op = "connect" /\ Result(c) < 0 /\ Len(acc[c]) > 1
      /\ ConnectTo(c, Tail(acc[c]))
  BY DEF ConnectNext, At
<1>2. call[c] = "busy" /\ Carried(c) /\ Result(c) \in Int
  BY DEF IInv, Stages, DataInv, DataShape, Result
<1>3. ~Ok(c)
  BY <1>1, <1>2 DEF Ok
<1>4. /\ acc[c] \in Seq(Address) /\ acc[c] # <<>> /\ failed[c] \in Seq(Address)
      /\ failed[c] \o Tail(acc[c]) = Distinct(given[c])
  BY <1>1, <1>2, <1>3 DEF Carried, ConnectData
<1>5. Len(acc[c]) # 1
  <2> DEFINE l == Len(acc[c])
  <2>1. l \in Nat /\ l > 1
    BY <1>1, <1>4, LenProperties
  <2>2. SUFFICES l # 1
    OBVIOUS
  <2> HIDE DEF l
  <2> QED
    BY <2>1
<1>6. Tail(acc[c]) \in Seq(Address) /\ Tail(acc[c]) # <<>>
  BY <1>4, <1>5, RangeTail, TailOfTwo
<1> QED
  BY <1>1, <1>4, <1>6, ConnectToData

\* An error leaves the call; io-tcp-connect gives up after its last address.
LEMMA RaiseData ==
    ASSUME IInv, DataInv, NEW c \in Caller, task[c].at = "done", UNCHANGED <<uv, bytes, prog, osVars>>,
           Raise(c)
    PROVE DataInv'
<1>1. /\ Result(c) < 0 /\ (task[c].op = "connect" => Len(acc[c]) = 1) /\ Turn(c, NoTask)
      /\ call' = [call EXCEPT ![c] = "raised"] /\ UNCHANGED <<val, acc, total>>
  BY DEF Raise, localVars
<1>2. /\ call[c] = "busy" /\ Carried(c) /\ Result(c) \in Int /\ total[c] \in Nat /\ DOMAIN call = Caller
      /\ prog[c] \in Prog /\ task[c].op \in RequestsOf(prog[c])
  BY DEF IInv, Shape, Stages, HandlesFollow, Follows, DataInv, DataShape, Result
<1>3. EqualBut(call, call', c) /\ call'[c] = "raised"
  BY <1>1, <1>2, UpdateAt
<1>4. Kept(c)
  BY DEF Kept, osVars
<1>5. LoopData(c)' /\ PipeData(c)' /\ ReceiveData(c)' /\ WriteData(c)' /\ AnswerData(c)'
  BY <1>3 DEF LoopData, PipeData, ReceiveData, WriteData, AnswerData
<1>6. ConnectData(c)'
  <2>1. SUFFICES ASSUME prog[c] = "connect"
                 PROVE val[c] = <<>> /\ failed[c] \in Seq(Address) /\ failed[c] = Distinct(given[c])
    BY <1>1, <1>3, <1>4 DEF Kept, ConnectData
  <2>2. val[c] = <<>> /\ task[c].op \in {"dns", "connect"}
    BY <1>2, <2>1, CallOfData DEF Carried, ConnectData
  <2>3. CASE task[c].op = "dns"
    BY <1>1, <1>2, <2>1, <2>2, <2>3, EmptySeq DEF Carried, ConnectData
  <2>4. CASE task[c].op = "connect"
    <3>1. ~Ok(c) /\ Len(acc[c]) = 1
      BY <1>1, <1>2, <2>4 DEF Ok
    <3>2. /\ acc[c] \in Seq(Address) /\ acc[c] # <<>> /\ failed[c] \in Seq(Address)
          /\ failed[c] \o Tail(acc[c]) = Distinct(given[c])
      BY <1>2, <2>1, <2>4, <3>1 DEF Carried, ConnectData
    <3>3. Tail(acc[c]) = <<>>
      <4>1. Tail(acc[c]) \in Seq(Address) /\ Len(Tail(acc[c])) = 0
        BY <3>1, <3>2, HeadTailProperties
      <4> QED
        BY <4>1, EmptySeq
    <3>4. failed[c] \o <<>> = failed[c]
      BY <3>2, ConcatSimplifications
    <3> QED
      BY <2>2, <3>2, <3>3, <3>4
  <2> QED
    BY <2>2, <2>3, <2>4
<1>7. Carried(c)'
  BY <1>2, <1>3, <1>4, <1>5, <1>6, EndData
<1> QED
  BY <1>1, <1>2, <1>3, <1>7, ResumeStep, ExceptIsBut, RequestFields

\* What a caller does when its await returns.
LEMMA ResumeData ==
    ASSUME IInv, DataInv, NEW c \in Caller, Resume(c)
    PROVE DataInv'
<1>1. task[c].at = "done" /\ UNCHANGED <<uv, bytes, prog, osVars>>
  BY DEF Resume
<1> QED
  BY <1>1, RaiseData, ConnectNextData, ConnectStepData, SimpleData, ReadFileData, WriteFileData, PipeStepData, RunData
     DEF Resume

-----------------------------------------------------------------------------
(* The theorems. *)

\* Every step keeps the data where they belong.
LEMMA NextData ==
    ASSUME IInv, DataInv, [Next]_vars
    PROVE DataInv'
<1>1. ASSUME NEW c \in Caller, Callback(c)
      PROVE DataInv'
  BY <1>1, TimerData, FsPathDoneData, PlainEndsData, ReadDoneData, WriteDoneData, DnsDoneData,
     OnProcessExitData DEF Callback
<1>2. CASE UNCHANGED vars
  BY <1>2, NothingMoves
<1> QED
  BY <1>1, <1>2, CallData, ResumeData, DispatchOneData, UvFailsData, ChildData DEF Next, AllEnded

\* Nothing has moved at the start.
LEMMA InitData == Init => DataInv
<1> SUFFICES ASSUME Init
             PROVE DataInv
  OBVIOUS
<1>1. SourceLen \in Nat /\ Chunk \in Nat /\ OutLen \in Nat /\ 0 \in 0..OutLen /\ 0 \in 0..SourceLen
      /\ 0 \in Nat /\ 0 <= 0
  BY OpsAssumption
<1>2. Content \in Seq(Nat) /\ Zeros(Chunk) \in Seq(Nat) /\ NoChild \in ChildType
      /\ <<>> \in Seq(Nat)
  BY <1>1 DEF Content, Numbered, Zeros, NoChild, ChildType
<1>3. DataShape
  <2>1. bytes \in [Bytevector -> Seq(Nat)] /\ bytes[Shared] = Content
    BY <1>2 DEF Init, Bytevector
  <2>2. \A c \in Caller : task[c].result \in Int
    BY DEF Init, NoTask
  <2>3. source \in [Caller -> Seq(Nat)] /\ total \in [Caller -> Nat] /\ child \in [Caller -> ChildType]
    BY <1>1, <1>2 DEF Init
  <2>4. /\ DOMAIN val = Caller /\ DOMAIN acc = Caller /\ DOMAIN sink = Caller /\ DOMAIN given = Caller
        /\ DOMAIN failed = Caller /\ DOMAIN args = Caller /\ DOMAIN argv = Caller
    BY DEF Init
  <2> QED
    BY <2>1, <2>2, <2>3, <2>4 DEF DataShape
<1>4. ASSUME NEW c \in Caller
      PROVE Carried(c)
  <2>1. /\ prog[c] = "simple" /\ call[c] = "no" /\ val[c] = <<>> /\ acc[c] = <<>> /\ total[c] = 0
        /\ source[c] = <<>> /\ sink[c] = <<>> /\ given[c] = <<>> /\ failed[c] = <<>> /\ argv[c] = <<>>
        /\ child[c] = NoChild
    BY DEF Init
  <2>2. sink[c] = Span(0, 0)
    BY <1>1, <2>1, SpanEmpty
  <2>3. Untouched(c) /\ Submitted(c) /\ ArgsData(c) /\ SinkData(c)
    BY <1>1, <2>1, <2>2 DEF Untouched, Submitted, ArgsData, SinkData
  <2>4. ChildAgrees(c)
    BY <2>1 DEF ChildAgrees, NoChild
  <2>5. LoopData(c) /\ PipeData(c) /\ ReceiveData(c) /\ WriteData(c) /\ AnswerData(c) /\ ConnectData(c)
    BY <2>1 DEF LoopData, PipeData, ReceiveData, WriteData, AnswerData, ConnectData
  <2> QED
    BY <2>3, <2>4, <2>5 DEF Carried
<1> QED
  BY <1>3, <1>4 DEF DataInv

\* Where the data of every call are, at every moment: in the source, in a buffer or a
\* bytevector, in the chunks of the loop, in the sink, one behind the other.
THEOREM DataInductive == Spec => []DataInv
<1>1. Init => DataInv
  BY InitData
<1>2. IInv /\ DataInv /\ [Next]_vars => DataInv'
  BY NextData
<1> QED
  BY <1>1, <1>2, Inductive, PTL DEF Spec

\* Whatever the system delivers per read and takes per write: what a call of io-fs.ss, io-net.ss
\* or io-proc.ss returns is all that the system delivered, in order; io-stream-pipe hands on every
\* byte, io-write and io-stream-write as many as they report, and nothing but the caller's bytes is ever
\* written.  That io-write-file writes all of them is not part of this, and not so:
\* HighLevelOpsWrite.cfg.
THEOREM DataArrivesIntact == Spec => []DataIntact
<1>1. ASSUME DataInv, NEW c \in Caller
      PROVE /\ call[c] = "returned" =>
                 CASE prog[c] = "simple" -> val[c] = Distinct(given[c])
                   [] prog[c] = "read_file" -> val[c] = Content
                   [] prog[c] = "output" -> val[c] = Numbered(OutLen)
                   [] prog[c] = "pipe" -> val[c] = <<SourceLen>> /\ sink[c] = Content
                   [] prog[c] = "receive" -> SubSeq(bytes[c], 1, val[c][1]) \o source[c] = Content
                   [] prog[c] = "send" -> sink[c] = SubSeq(Content, 1, val[c][1])
                   [] OTHER -> TRUE
            /\ IsPrefix(sink[c], Content)
            /\ argv[c] # <<>> => argv[c] = args[c]
  <2>1. Carried(c) /\ SourceLen \in Nat /\ Content = Span(0, SourceLen)
    BY <1>1, OpsAssumption, NumberedIsSpan DEF DataInv, Content
  <2>2. IsPrefix(sink[c], Content)
    BY <2>1, SpanPrefix DEF Carried, SinkData
  <2>3. argv[c] # <<>> => argv[c] = args[c]
    BY <2>1 DEF Carried, ArgsData
  <2>4. ASSUME call[c] = "returned"
        PROVE /\ prog[c] = "simple" => val[c] = Distinct(given[c])
              /\ prog[c] = "read_file" => val[c] = Content
              /\ prog[c] = "output" => val[c] = Numbered(OutLen)
              /\ prog[c] = "pipe" => val[c] = <<SourceLen>> /\ sink[c] = Content
    BY <2>1, <2>4 DEF Carried, AnswerData, LoopData, PipeData, Whole, Content
  <2>5. ASSUME call[c] = "returned", prog[c] = "receive"
        PROVE SubSeq(bytes[c], 1, val[c][1]) \o source[c] = Content
    <3>1. PICK r \in 0..SourceLen : /\ val[c] = <<r>> /\ source[c] = Span(r, SourceLen)
                                    /\ SubSeq(bytes[c], 1, r) = Span(0, r)
      BY <2>1, <2>5 DEF Carried, ReceiveData
    <3>2. val[c][1] = r /\ r \in Nat /\ 0 \in Nat /\ 0 <= r /\ r <= SourceLen
      BY <2>1, <3>1
    <3>3. Span(0, r) \o Span(r, SourceLen) = Span(0, SourceLen)
      BY <2>1, <3>2, SpanConcat
    <3> QED
      BY <2>1, <3>1, <3>2, <3>3
  <2>6. ASSUME call[c] = "returned", prog[c] = "send"
        PROVE sink[c] = SubSeq(Content, 1, val[c][1])
    <3>1. PICK r \in 0..SourceLen : val[c] = <<r>> /\ sink[c] = Span(0, r)
      BY <2>1, <2>6 DEF Carried, WriteData
    <3>2. val[c][1] = r /\ r \in Nat /\ r <= SourceLen
      BY <2>1, <3>1
    <3>3. SubSeq(Span(0, SourceLen), 1, r) = Span(0, r)
      BY <2>1, <3>2, SpanFront
    <3> QED
      BY <2>1, <3>1, <3>2, <3>3
  <2> QED
    BY <2>2, <2>3, <2>4, <2>5, <2>6
<1>2. DataInv => DataIntact
  BY <1>1 DEF DataIntact
<1> QED
  BY <1>2, DataInductive, PTL

\* io-tcp-connect tries the distinct addresses of a lookup in the system's order, each once,
\* until one answers, and gives up only after the last.
THEOREM AddressesTriedInOrder == Spec => []ConnectsInOrder
<1>1. ASSUME IInv, DataInv, NEW c \in Caller, prog[c] = "connect"
      PROVE /\ IsPrefix(failed[c] \o val[c], Distinct(given[c]))
            /\ call[c] = "raised" => failed[c] = Distinct(given[c])
  <2>1. Untouched(c) /\ ConnectData(c)
    BY <1>1 DEF DataInv, Carried
  <2>2. \A s \in Seq(Address) : s \o <<>> = s /\ <<>> \o s = s
    BY ConcatSimplifications
  <2>3. <<>> \in Seq(Address) /\ Distinct(<<>>) = <<>>
    BY EmptySeq, DistinctEmpty
  <2>4. \A s \in Seq(Address), t \in Seq(Address) : IsPrefix(s, s) /\ IsPrefix(s, s \o t)
    BY PrefixOfConcat
  <2>5. CASE call[c] = "no"
    <3>1. val[c] = <<>> /\ failed[c] = <<>> /\ given[c] = <<>>
      BY <2>1, <2>5 DEF Untouched
    <3> QED
      BY <2>2, <2>3, <2>4, <2>5, <3>1
  <2>6. CASE call[c] = "busy"
    <3>1. task[c].op \in {"dns", "connect"} /\ val[c] = <<>> /\ prog[c] \in Prog
      BY <1>1, <2>1, <2>6, CallOfData DEF IInv, Shape, HandlesFollow, Follows, ConnectData
    <3>2. CASE task[c].op = "dns"
      <4>1. failed[c] = <<>> /\ Distinct(given[c]) \in Seq(Address)
        BY <1>1, <2>1, <2>3, <2>6, <3>2 DEF ConnectData
      <4>2. failed[c] \o val[c] = <<>> /\ <<>> \o Distinct(given[c]) = Distinct(given[c])
        BY <2>2, <2>3, <3>1, <4>1
      <4> QED
        BY <2>3, <2>4, <2>6, <4>1, <4>2
    <3>3. CASE task[c].op = "connect"
      <4>1. /\ acc[c] \in Seq(Address) /\ acc[c] # <<>> /\ failed[c] \in Seq(Address)
            /\ failed[c] \o (IF Ok(c) THEN acc[c] ELSE Tail(acc[c])) = Distinct(given[c])
        BY <1>1, <2>1, <2>6, <3>3 DEF ConnectData
      <4>2. Tail(acc[c]) \in Seq(Address)
        BY <4>1, RangeTail
      <4>3. PICK left \in Seq(Address) : failed[c] \o left = Distinct(given[c])
        BY <4>1, <4>2
      <4>4. failed[c] \o val[c] = failed[c] /\ IsPrefix(failed[c], failed[c] \o left)
        BY <2>2, <2>4, <3>1, <4>1
      <4> QED
        BY <2>6, <4>3, <4>4
    <3> QED
      BY <3>1, <3>2, <3>3
  <2>7. CASE call[c] = "returned"
    BY <1>1, <2>1, <2>7 DEF ConnectData
  <2>8. CASE call[c] = "raised"
    <3>1. val[c] = <<>> /\ failed[c] \in Seq(Address) /\ failed[c] = Distinct(given[c])
      BY <1>1, <2>1, <2>8 DEF ConnectData
    <3> QED
      BY <2>2, <2>4, <3>1
  <2>9. call[c] \in {"no", "busy", "returned", "raised"}
    BY <1>1 DEF IInv, Shape
  <2> QED
    BY <2>5, <2>6, <2>7, <2>8, <2>9
<1>2. IInv /\ DataInv => ConnectsInOrder
  BY <1>1 DEF ConnectsInOrder
<1> QED
  BY <1>2, Inductive, DataInductive, PTL
=============================================================================
