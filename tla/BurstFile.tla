----------------------------- MODULE BurstFile ------------------------------
(***************************************************************************)
(* read_burstfile (src/file.c): the loop of fgets over what follows the    *)
(* 20 bytes of header, the count of processes, and the loop over the       *)
(* tokens of each line.  A token is the number atoi makes of it, 0 for     *)
(* what is not a number: the footer, a blank line and the tail of a header *)
(* longer than 20 bytes are all the line <<0>>.                            *)
(***************************************************************************)
EXTENDS Integers, Sequences, BurstLine

CONSTANTS
    Files,          (* lines of tokens, and whether the last one ends in \n *)
    LineTokens,     (* tokens in the 1023 characters one fgets takes        *)
    StrLines        (* lines str has room for: 1024                         *)

(* No line without a token, as at least its newline is one; it is one of   *)
(* its own where a line fills the 1023 characters without it.  A file      *)
(* without lines counts as ended.                                          *)
ASSUME FilesAssumption ==
    \A f \in Files : /\ f \in [lines : Seq(Seq(Int)), ended : BOOLEAN]
                     /\ f.lines = <<>> => f.ended
                     /\ \A n \in DOMAIN f.lines : f.lines[n] # <<>>
ASSUME LineAssumption == LineTokens \in Nat \ {0}
ASSUME StrAssumption == StrLines \in Nat \ {0}

VARIABLES
    file,                   (* the file, for reference                      *)
    unread,                 (* its lines from the file position on          *)
    eof,                    (* feof(fp)                                     *)
    str,                    (* what each fgets left                         *)
    t_process,
    b_data,                 (* the lines parsed so far                      *)
    i, cpu_burst, io_burst, (* the token loop                               *)
    pc

input == <<file, unread, eof, str>>
loop == <<i, cpu_burst, io_burst>>
fileVars == <<input, t_process, b_data, loop, pc>>

Init ==
    /\ file \in Files
    /\ unread = file.lines
    /\ eof = FALSE
    /\ str = <<>>
    /\ t_process = 0
    /\ b_data = <<>>
    /\ i = 0 /\ cpu_burst = <<>> /\ io_burst = <<>>
    /\ pc = "fgets"
-----------------------------------------------------------------------------
(* while (!feof(fp)) fgets(str[total_process++], 1024, fp)                 *)

(* A line that fits is read whole.  The end of the file shows at once only *)
(* behind a last line without newline that leaves room in the 1023.        *)
ReadLine ==
    /\ pc = "fgets" /\ ~ eof /\ Len(str) < StrLines
    /\ unread # <<>> /\ Len(Head(unread)) <= LineTokens
    /\ str' = Append(str, Head(unread))
    /\ unread' = Tail(unread)
    /\ eof' = (Len(unread) = 1 /\ ~ file.ended /\ Len(Head(unread)) < LineTokens)
    /\ UNCHANGED <<file, t_process, b_data, loop, pc>>

(* A longer line is read in pieces. *)
ReadPiece ==
    /\ pc = "fgets" /\ ~ eof /\ Len(str) < StrLines
    /\ unread # <<>> /\ Len(Head(unread)) > LineTokens
    /\ str' = Append(str, SubSeq(Head(unread), 1, LineTokens))
    /\ unread' = <<SubSeq(Head(unread), LineTokens + 1, Len(Head(unread)))>> \o Tail(unread)
    /\ UNCHANGED <<file, eof, t_process, b_data, loop, pc>>

(* str has no further line: fgets writes through the pointer behind it.    *)
ReadPastStr ==
    /\ pc = "fgets" /\ ~ eof /\ Len(str) = StrLines
    /\ unread # <<>>
    /\ pc' = "crash"
    /\ UNCHANGED <<input, t_process, b_data, loop>>

(* Where the end did not show, fgets finds nothing, and that read counts   *)
(* too.  It writes nothing, so that it may even be the one behind str.     *)
ReadNothing ==
    /\ pc = "fgets" /\ ~ eof
    /\ unread = <<>>
    /\ str' = Append(str, <<>>)
    /\ eof' = TRUE
    /\ UNCHANGED <<file, unread, t_process, b_data, loop, pc>>

(* Fault: only the read that found nothing is taken off. *)
CountLessOne ==
    /\ pc = "fgets" /\ eof
    /\ t_process' = Len(str) - 1
    /\ pc' = "line"
    /\ UNCHANGED <<input, b_data, loop>>

(* calloc with a negative count gives NULL, which is written through; with *)
(* 0 it gives a block too small for what is written.                       *)
CountLines ==
    /\ pc = "fgets" /\ eof
    /\ t_process' = Len(str) - 2
    /\ \/ t_process' >= 0 /\ pc' = "line"
       \/ t_process' <= 0 /\ pc' = "crash"
    /\ UNCHANGED <<input, b_data, loop>>
-----------------------------------------------------------------------------
(* _process_burst_line_s and _process_burst_line.  The early return for a  *)
(* line without a token is dead: only the read that found nothing gives    *)
(* one, and that is among the two not counted.                             *)

line == str[Len(b_data) + 1]
token == line[i + 2]            (* the first is the arrival time *)

BeginLine ==
    /\ pc = "line" /\ Len(b_data) < t_process
    /\ i' = 0 /\ cpu_burst' = <<>> /\ io_burst' = <<>>
    /\ pc' = "token"
    /\ UNCHANGED <<input, t_process, b_data>>

More == i + 2 <= Len(line) /\ token # -1

(* Fault: the loop passes over -1 instead of leaving. *)
TakeTokenUnguarded ==
    /\ pc = "token" /\ i + 2 <= Len(line)
    /\ i' = i + 1
    /\ IF i % 2 = 0
       THEN cpu_burst' = Append(cpu_burst, token) /\ UNCHANGED io_burst
       ELSE io_burst' = Append(io_burst, token) /\ UNCHANGED cpu_burst
    /\ UNCHANGED <<input, t_process, b_data, pc>>

TakeToken ==
    /\ pc = "token" /\ More
    /\ i' = i + 1
    /\ IF i % 2 = 0
       THEN cpu_burst' = Append(cpu_burst, token) /\ UNCHANGED io_burst
       ELSE io_burst' = Append(io_burst, token) /\ UNCHANGED cpu_burst
    /\ UNCHANGED <<input, t_process, b_data, pc>>

(* Fault: the line is left only at -1. *)
EndLineAtMinusOne ==
    /\ pc = "token" /\ i + 2 <= Len(line) /\ token = -1
    /\ b_data' = Append(b_data, [a_time |-> line[1], cpu_burst |-> cpu_burst,
                                 io_burst |-> io_burst])
    /\ pc' = "line"
    /\ UNCHANGED <<input, t_process, loop>>

EndLine ==
    /\ pc = "token" /\ ~ More
    /\ b_data' = Append(b_data, [a_time |-> line[1], cpu_burst |-> cpu_burst,
                                 io_burst |-> io_burst])
    /\ pc' = "line"
    /\ UNCHANGED <<input, t_process, loop>>

Return ==
    /\ pc = "line" /\ Len(b_data) >= t_process
    /\ pc' = "done"
    /\ UNCHANGED <<input, t_process, b_data, loop>>

Next ==
    \/ ReadLine \/ ReadPiece \/ ReadPastStr \/ ReadNothing \/ CountLines
    \/ BeginLine \/ TakeToken \/ EndLine \/ Return

Spec == Init /\ [][Next]_fileVars
-----------------------------------------------------------------------------
(* A line in the format of src/file.c: an arrival time, bursts up to the   *)
(* first -1 or the end, CPU bursts at the odd places, I/O at the even.     *)
Bursts(l, n) ==
    /\ n \in 0 .. Len(l) - 1
    /\ \A j \in 1 .. n : l[j + 1] # -1
    /\ n + 1 = Len(l) \/ l[n + 2] = -1

Parsed(l, n) ==
    [a_time |-> l[1],
     cpu_burst |-> [j \in 1 .. (n + 1) \div 2 |-> l[2 * j]],
     io_burst |-> [j \in 1 .. n \div 2 |-> l[2 * j + 1]]]

IsParse(d, l) == \E n \in 0 .. Len(l) - 1 : Bursts(l, n) /\ d = Parsed(l, n)

(* Types, and the bounds of b_data and of the line in the token loop.      *)
FileTypeOK ==
    /\ file \in Files
    /\ unread \in Seq(Seq(Int)) /\ str \in Seq(Seq(Int)) /\ eof \in BOOLEAN
    /\ t_process \in Int
    /\ b_data \in Seq([a_time : Int, cpu_burst : Seq(Int), io_burst : Seq(Int)])
    /\ i \in Nat /\ cpu_burst \in Seq(Int) /\ io_burst \in Seq(Int)
    /\ pc \in {"fgets", "line", "token", "done", "crash"}
    /\ pc \in {"line", "done"} => Len(b_data) <= t_process
    /\ pc = "token" => Len(b_data) < t_process /\ i < Len(line)

(* Every line parsed is one of the lines of str, never behind them, and    *)
(* holds its numbers, in order and in the right list, whatever the line.   *)
ParsedAsFormat ==
    \A j \in 1 .. Len(b_data) :
        j <= Len(str) /\ j <= StrLines /\ IsParse(b_data[j], str[j])

(* What the threads of the simulator take for granted of every line:       *)
(* _should_terminate relies on it for the bounds of both lists.            *)
LinesAlternate == \A j \in 1 .. Len(b_data) : Alternates(b_data[j])

Short(l) == Len(l) <= LineTokens

(* Of a file that ends in a newline, without overlong lines, every line    *)
(* but the last becomes a process, at its place.                           *)
EveryLineAProcess ==
    pc = "done" /\ file.ended /\ (\A n \in DOMAIN file.lines : Short(file.lines[n])) =>
        /\ Len(b_data) = Len(file.lines) - 1
        /\ \A j \in 1 .. Len(b_data) : IsParse(b_data[j], file.lines[j])
=============================================================================
