--------------------------- MODULE RuntimePrelude ---------------------------
(***************************************************************************)
(* The functions that the LLVM back end writes in front of every program   *)
(* (LLVMIRGenerator::generate): strings in buffers of their own, files,    *)
(* the output of commands and the serial port.  A buffer has a size; its   *)
(* cells are those that were written, inside it or not.                    *)
(***************************************************************************)
EXTENDS Integers, Sequences, SequencesExt, FiniteSets

CONSTANTS Strings,            \* arguments: sequences of characters without "nul"
          Numbers,
          Streams,            \* what is typed, printed by a command or stored in a file
          Paths,
          InputSize, OutputSize, LineSize, Misses,  \* 4096, 65536, 4096 and 50
          Bauds, MaxCalls, MaxBytes                 \* bounds

VARIABLES stdin, files, speed, wire, arrived,
          call,     \* the function that runs, with its locals
          taken,    \* what it has taken from its stream
          pause,    \* reads in a row that found nothing
          result,   \* of the last call
          calls

ASSUME PreludeAssumption ==
    /\ Strings \cup Streams \subseteq Seq(STRING) /\ Numbers \subseteq Int
    /\ {InputSize, OutputSize, LineSize} \subseteq Nat \ {0} /\ Misses \in Nat

preludeVars == <<stdin, files, speed, wire, arrived, call, taken, pause, result, calls>>

-----------------------------------------------------------------------------
Malloc(n) == [size |-> n, cells |-> <<>>]
Store(b, at, s) ==
    [b EXCEPT !.cells = [i \in DOMAIN b.cells \cup at..at + Len(s) - 1 |->
                             IF i - at \in 0..Len(s) - 1 THEN s[i - at + 1] ELSE b.cells[i]]]
Nul == <<"nul">>
EmptyString == Store(Malloc(1), 0, Nul)   \* @.empty.s, also for what is no string
AtLeast(n, low) == IF n < low THEN low ELSE n
AtMost(n, high) == IF n > high THEN high ELSE n

eng_str_concat(a, b) == Store(Store(Malloc(Len(a) + Len(b) + 1), 0, a), Len(a), b \o Nul)

eng_chr(c) == Store(Store(Malloc(2), 0, <<c>>), 1, Nul)

ToUpper(c) == IF c = "a" THEN "A" ELSE c
ToLower(c) == IF c = "A" THEN "a" ELSE c
eng_case_map(s, up) ==
    Store(Store(Malloc(Len(s) + 1), 0, s \o Nul), 0,
          [i \in DOMAIN s |-> IF up THEN ToUpper(s[i]) ELSE ToLower(s[i])])

Bug_eng_substr(s, start, len) ==
    LET s1 == AtLeast(start, 0)
        take == AtMost(AtLeast(len, 0), Len(s))
    IN  Store(Store(Malloc(take + 1), 0, SubSeq(s \o <<"?", "?", "?", "?">>, s1 + 1, s1 + take)), take, Nul)
eng_substr(s, start, len) ==
    LET s1 == AtMost(AtLeast(start, 0), Len(s))
        take == AtMost(AtLeast(len, 0), Len(s) - s1)
    IN  Store(Store(Malloc(take + 1), 0, SubSeq(s, s1 + 1, s1 + take)), take, Nul)

eng_repeat(s, n) ==
    LET count == AtLeast(n, 0)
        copied[i \in 0..count] ==
            IF i = 0 THEN Malloc(Len(s) * count + 1) ELSE Store(copied[i - 1], (i - 1) * Len(s), s)
    IN  Store(copied[count], Len(s) * count, Nul)

\* The separator is looked for behind the last character, and what follows is placed as
\* far again behind it: outside the buffer, unless base is empty.
eng_path_join(base, rel) ==
    LET b == Store(Store(Malloc(Len(base) + Len(rel) + 2), 0, base), Len(base), <<"/">>)
    IN  Store(b, 2 * Len(base) + 1, rel \o Nul)

eng_run_command(status) == status \div 256
eng_baud_code(b) == IF b \in Bauds THEN b ELSE 9600

-----------------------------------------------------------------------------
Idle == [name |-> "none"]
Return(name, args, value) ==
    /\ call' = Idle
    /\ result' = [name |-> name, args |-> args, value |-> value]

Inside(b) == DOMAIN b.cells \subseteq 0..b.size - 1

\* What a program does that has written outside a buffer is not defined: it calls no more.
Ready == /\ call = Idle /\ calls < MaxCalls
         /\ result.name # "run_command" => Inside(result.value)
Begin == Ready /\ calls' = calls + 1 /\ taken' = <<>> /\ pause' = 0

PreludeInit ==
    /\ stdin \in Streams /\ \E p \in SUBSET Paths : files \in [p -> Streams]
    /\ speed = 0 /\ wire = <<>> /\ arrived = 0
    /\ call = Idle /\ taken = <<>> /\ pause = 0
    /\ result = [name |-> "none", args |-> <<>>, value |-> EmptyString]
    /\ calls = 0

Compute ==
    /\ Begin
    /\ \/ \E a, b \in Strings : Return("concat", <<a, b>>, eng_str_concat(a, b))
       \/ \E a \in Strings : \E c \in ToSet(a) : Return("chr", <<c>>, eng_chr(c))
       \/ \E a \in Strings, up \in BOOLEAN : Return("case", <<a, up>>, eng_case_map(a, up))
       \/ \E a \in Strings, i, n \in Numbers : Return("substring", <<a, i, n>>, eng_substr(a, i, n))
       \/ \E a \in Strings, n \in Numbers : Return("repeat", <<a, n>>, eng_repeat(a, n))
       \/ \E a, b \in Strings : Return("path_join", <<a, b>>, eng_path_join(a, b))
       \/ \E n \in Numbers : Return("run_command", <<n>>, eng_run_command(256 * n))
    /\ UNCHANGED <<stdin, files, speed, wire, arrived>>

-----------------------------------------------------------------------------
(* fgets: a line with its end, or as much as there is room for.            *)
Newline == "newline"
Room(s, size) == LET ends == {i \in 1..AtMost(Len(s), size - 1) : s[i] = Newline}
                 IN  IF ends = {} THEN AtMost(Len(s), size - 1)
                     ELSE CHOOSE i \in ends : \A j \in ends : i <= j
Gets(s, size) == SubSeq(s, 1, Room(s, size))
Left(s, size) == SubSeq(s, Room(s, size) + 1, Len(s))
Stripped(s) == IF s # <<>> /\ Last(s) = Newline THEN Front(s) ELSE s

eng_input ==
    /\ Ready /\ calls' = calls + 1
    /\ LET line == Gets(stdin, InputSize)
           b == Store(Malloc(InputSize), 0, line \o Nul)
       IN  /\ taken' = line
           /\ Return("input", <<>>, IF line # <<>> /\ Last(line) = Newline
                                    THEN Store(b, Len(line) - 1, Nul) ELSE b)
    /\ stdin' = Left(stdin, InputSize)
    /\ UNCHANGED <<files, speed, wire, arrived, pause>>

ContentOf(p) == IF p \in DOMAIN files THEN files[p] ELSE <<>>
Saved(p, content) == files' = [q \in DOMAIN files \cup {p} |-> IF q = p THEN content ELSE files[q]]

\* the size is taken first: the file may be another one when it is read
OpenToRead(p) ==
    /\ Begin
    /\ IF p \notin DOMAIN files
       THEN Return("read_file", <<p>>, EmptyString)
       ELSE call' = [name |-> "read_file", path |-> p, size |-> Len(files[p])] /\ UNCHANGED result
    /\ UNCHANGED <<stdin, files, speed, wire, arrived>>

Read ==
    /\ call.name = "read_file"
    /\ LET content == ContentOf(call.path)
           rd == SubSeq(content, 1, AtMost(call.size, Len(content)))
       IN  /\ taken' = rd
           /\ Return("read_file", <<call.path>>, Store(Store(Malloc(call.size + 1), 0, rd), Len(rd), Nul))
    /\ UNCHANGED <<stdin, files, speed, wire, arrived, pause, calls>>

\* opened for writing a file is empty until its buffer is written, when it is closed;
\* nobody looks whether that failed
OpenToWrite(p, s, append) ==
    /\ Begin
    /\ call' = [name |-> "write_file", path |-> p, data |-> s]
    /\ Saved(p, IF append THEN ContentOf(p) ELSE <<>>)
    /\ UNCHANGED <<stdin, speed, wire, arrived, result>>

CloseWritten ==
    /\ call.name = "write_file"
    /\ \E n \in 0..Len(call.data) :
          Saved(call.path, ContentOf(call.path) \o SubSeq(call.data, 1, n))
    /\ Return("write_file", <<call.path>>, EmptyString)
    /\ UNCHANGED <<stdin, speed, wire, arrived, taken, pause, calls>>

\* another process writes or removes a file
Meanwhile(p) ==
    /\ call # Idle
    /\ \/ \E content \in Streams : Saved(p, content)
       \/ files' = [q \in DOMAIN files \ {p} |-> files[q]]
    /\ UNCHANGED <<stdin, speed, wire, arrived, call, taken, pause, result, calls>>

\* exec_output: the command has printed `out`
Popen ==
    /\ Begin
    /\ \E out \in Streams :
          call' = [name |-> "exec_output", out |-> out, left |-> out, buf |-> Malloc(OutputSize + 1), off |-> 0]
    /\ UNCHANGED <<stdin, files, speed, wire, arrived, result>>

Collect ==
    /\ call.name = "exec_output"
    /\ LET size == AtLeast(OutputSize - call.off, 1)
           piece == Gets(call.left, size)
           b == Store(call.buf, call.off, piece \o Nul)
           newoff == call.off + Len(piece)
       IN  /\ taken' = taken \o piece
           /\ IF call.left = <<>>
              THEN Return("exec_output", <<call.out>>, Store(call.buf, call.off, Nul))
              ELSE IF newoff > OutputSize - 1
              THEN Return("exec_output", <<call.out>>, Store(b, call.off, Nul))
              ELSE /\ call' = [call EXCEPT !.buf = b, !.off = newoff, !.left = Left(call.left, size)]
                   /\ UNCHANGED result
    /\ UNCHANGED <<stdin, files, speed, wire, arrived, pause, calls>>

-----------------------------------------------------------------------------
(* The serial port: speed is 0 while none is open.                         *)
serial_open(b) ==
    /\ Begin
    /\ speed' \in {0, eng_baud_code(b)}
    /\ wire' = <<>>
    /\ Return("serial_open", <<>>, EmptyString)
    /\ UNCHANGED <<stdin, files, arrived>>

serial_close ==
    /\ Begin
    /\ speed' = 0 /\ wire' = <<>>
    /\ Return("serial_close", <<>>, EmptyString)
    /\ UNCHANGED <<stdin, files, arrived>>

Arrive ==
    /\ speed # 0 /\ arrived < MaxBytes
    /\ \E c \in {"a", Newline} : wire' = Append(wire, c)
    /\ arrived' = arrived + 1
    /\ UNCHANGED <<stdin, files, speed, call, taken, pause, result, calls>>

serial_read_line ==
    /\ Begin
    /\ IF speed = 0
       THEN Return("serial_read_line", <<TRUE>>, Store(Malloc(LineSize), 0, Nul))
       ELSE /\ call' = [name |-> "serial_read_line", buf |-> Malloc(LineSize), i |-> 0, missed |-> 0]
            /\ UNCHANGED result
    /\ UNCHANGED <<stdin, files, speed, wire, arrived>>

\* fin; the argument says whether this was for want of bytes
Finish(b, i, tired) == Return("serial_read_line", <<tired>>, Store(b, i, Nul))

Bug_Keep(c) == call' = [call EXCEPT !.buf = Store(@, call.i, <<c>>), !.i = @ + 1]
Keep(c) == call' = [call EXCEPT !.buf = Store(@, call.i, <<c>>), !.i = @ + 1, !.missed = 0]

ReadByte ==
    /\ call.name = "serial_read_line"
    /\ IF call.i > LineSize - 2
       THEN Finish(call.buf, call.i, FALSE) /\ UNCHANGED <<wire, taken, pause>>
       ELSE IF wire # <<>>
       THEN /\ wire' = Tail(wire)
            /\ taken' = Append(taken, Head(wire))
            /\ pause' = 0
            /\ IF Head(wire) = Newline
               THEN Finish(Store(call.buf, call.i, <<Newline>>), call.i, FALSE)
               ELSE Keep(Head(wire)) /\ UNCHANGED result
       ELSE /\ pause' = pause + 1
            /\ IF call.missed + 1 > Misses
               THEN Finish(call.buf, call.i, TRUE)
               ELSE call' = [call EXCEPT !.missed = @ + 1] /\ UNCHANGED result
            /\ UNCHANGED <<wire, taken>>
    /\ UNCHANGED <<stdin, files, speed, arrived, calls>>

PreludeNext ==
    \/ Compute \/ eng_input \/ Read \/ CloseWritten \/ Popen \/ Collect
    \/ \E p \in Paths : OpenToRead(p) \/ Meanwhile(p)
    \/ \E p \in Paths, s \in Strings, append \in BOOLEAN : OpenToWrite(p, s, append)
    \/ \E b \in Bauds \cup {1} : serial_open(b)
    \/ serial_close \/ Arrive \/ serial_read_line \/ ReadByte

PreludeSpec == PreludeInit /\ [][PreludeNext]_preludeVars

-----------------------------------------------------------------------------
\* The buffer holds the string and its end, and nothing was written outside
Holds(b, s) == /\ Inside(b)
               /\ \A i \in 0..Len(s) : i \in DOMAIN b.cells /\ b.cells[i] = (s \o Nul)[i + 1]

\* The characters of s at positions start, start + 1, ..., of which there are len
Within(s, start, len) ==
    LET first == AtLeast(start, 0)
        there == {i \in DOMAIN s : first < i /\ i <= first + len}
    IN  [k \in 1..Cardinality(there) |-> s[first + k]]

Meaning(name, args) ==
    CASE name = "concat" -> args[1] \o args[2]
      [] name = "chr" -> args
      [] name = "case" -> [i \in DOMAIN args[1] |-> IF args[2] THEN ToUpper(args[1][i]) ELSE ToLower(args[1][i])]
      [] name = "substring" -> Within(args[1], args[2], args[3])
      [] name = "repeat" -> FlattenSeq([i \in 1..AtLeast(args[2], 0) |-> args[1]])
      [] name = "path_join" -> (args[1] \o <<"/">>) \o args[2]
      [] name = "exec_output" -> args[1]
      [] name \in {"input", "serial_read_line"} -> Stripped(taken)
      [] name = "read_file" -> taken
      [] OTHER -> <<>>

\* A path joined to a base: tests/smoke/14_os_helpers.expected:3 has the joined path, but
\* the copy of the second part begins behind a gap and ends outside the buffer.
JoinedToBase == result.name = "path_join" /\ result.args[1] # <<>>

\* Every string a builtin returns, but a path joined to a base, is what it stands for, ended,
\* within its buffer; a line of the serial port ends early only when it is too long, or when
\* nothing came for a whole while (generate: eng_substr, eng_repeat, eng_exec_output, ...).
BuiltinsSayWhatTheyMean ==
    result.name # "run_command" /\ call = Idle =>
        /\ JoinedToBase \/ Holds(result.value, Meaning(result.name, result.args))
        /\ result.name = "serial_read_line" /\ speed # 0 =>
               \/ Stripped(taken) # taken \/ Len(taken) = LineSize - 1
               \/ pause = Misses + 1
=============================================================================
