------------------------- MODULE MainProgramProofs --------------------------
(***************************************************************************)
(* main as a whole, for every burst file and every behaviour of the wall   *)
(* clock.  First read_burstfile alone: its parse is the one the format     *)
(* describes, line by line, and CPU and I/O bursts alternate, which is the *)
(* part of Simulator's WorkloadAssumption the reader answers for.  Then    *)
(* main: the reader it runs is that one, the wall times are exact because  *)
(* the arithmetic of src/time_t.c is exact and stays normalised, and the   *)
(* result printed is the one of the whole task list.                       *)
(***************************************************************************)
EXTENDS MainProgram, DataProofs

Lines == Seq(Seq(Int))
ParsedLine == [a_time : Int, cpu_burst : Seq(Int), io_burst : Seq(Int)]

(* Only the read that found nothing leaves a line without a token, and it  *)
(* is the last one, the only one that may lie behind str.                  *)
Tokens ==
    /\ \A n \in 1 .. Len(unread) : unread[n] # <<>>
    /\ \A j \in 1 .. Len(str) : str[j] = <<>> => eof /\ j = Len(str)
    /\ Len(str) <= StrLines + 1 /\ (~ eof => Len(str) <= StrLines)

(* How many processes there are, and how many of them are parsed. *)
Counted ==
    /\ pc \in {"fgets", "crash"} => b_data = <<>>
    /\ pc \in {"line", "token", "done"} => eof /\ t_process = Len(str) - 2
    /\ pc \in {"line", "done"} => Len(b_data) <= t_process
    /\ pc = "done" => Len(b_data) = t_process
    /\ pc = "token" => Len(b_data) < t_process

(* The token loop: i tokens are in the lists, none of them the -1. *)
InLoop ==
    pc = "token" =>
        /\ i \in 0 .. Len(line) - 1
        /\ \A j \in 1 .. i : line[j + 1] # -1
        /\ cpu_burst = Parsed(line, i).cpu_burst
        /\ io_burst = Parsed(line, i).io_burst

ShortFile == \A n \in DOMAIN file.lines : Short(file.lines[n])

(* The lines of a file without overlong ones are read in order; what was   *)
(* read is str, but for the read that found nothing.                       *)
ReadInOrder ==
    ShortFile =>
        /\ Len(unread) <= Len(file.lines)
        /\ \A n \in 1 .. Len(unread) :
               unread[n] = file.lines[Len(file.lines) - Len(unread) + n]
        /\ eof => unread = <<>>
        /\ eof /\ file.ended => Len(str) = Len(file.lines) + 1
        /\ ~ eof => Len(str) = Len(file.lines) - Len(unread)
        /\ \A n \in 1 .. Len(file.lines) - Len(unread) : str[n] = file.lines[n]

Types ==
    /\ file \in Files
    /\ unread \in Lines /\ str \in Lines /\ eof \in BOOLEAN
    /\ t_process \in Int
    /\ b_data \in Seq(ParsedLine)
    /\ i \in Nat /\ cpu_burst \in Seq(Int) /\ io_burst \in Seq(Int)
    /\ pc \in {"fgets", "line", "token", "done", "crash"}

IInv == Types /\ Tokens /\ Counted /\ InLoop /\ ReadInOrder /\ ParsedAsFormat
-----------------------------------------------------------------------------
LEMMA AppendIs ==
    ASSUME NEW s \in Seq(Int), NEW r \in Seq(Int), Len(r) = Len(s) + 1,
           \A k \in 1 .. Len(s) : r[k] = s[k]
    PROVE  r = Append(s, r[Len(r)])
<1>1. r[Len(r)] \in Int
  BY LenProperties
<1> DEFINE a == Append(s, r[Len(r)])
<1>2. a \in Seq(Int) /\ Len(a) = Len(r)
  BY <1>1, AppendProperties
<1>3. \A k \in 1 .. Len(r) : a[k] = r[k]
  BY <1>1, AppendProperties
<1> QED  BY <1>2, <1>3, SeqEqual

(* One more token: the list whose turn it is grows by it. *)
LEMMA ParsedNext ==
    ASSUME NEW l \in Seq(Int), NEW n \in Nat, n + 2 <= Len(l)
    PROVE  /\ n % 2 = 0 => /\ Parsed(l, n + 1).cpu_burst = Append(Parsed(l, n).cpu_burst, l[n + 2])
                           /\ Parsed(l, n + 1).io_burst = Parsed(l, n).io_burst
           /\ n % 2 # 0 => /\ Parsed(l, n + 1).io_burst = Append(Parsed(l, n).io_burst, l[n + 2])
                           /\ Parsed(l, n + 1).cpu_burst = Parsed(l, n).cpu_burst
<1> DEFINE C == [j \in 1 .. (n + 1) \div 2 |-> l[2 * j]]
           C1 == [j \in 1 .. (n + 2) \div 2 |-> l[2 * j]]
           D == [j \in 1 .. n \div 2 |-> l[2 * j + 1]]
           D1 == [j \in 1 .. (n + 1) \div 2 |-> l[2 * j + 1]]
<1>1. /\ Parsed(l, n).cpu_burst = C /\ Parsed(l, n).io_burst = D
      /\ Parsed(l, n + 1).cpu_burst = C1 /\ Parsed(l, n + 1).io_burst = D1
  BY DEF Parsed
<1>2. CASE n % 2 = 0
  <2>1. PICK h \in Nat : n = 2 * h
    BY <1>2
  <2>2. (n + 1) \div 2 = h /\ (n + 2) \div 2 = h + 1 /\ n \div 2 = h
    BY <2>1
  <2>3. C = [j \in 1 .. h |-> l[2 * j]] /\ C1 = [j \in 1 .. h + 1 |-> l[2 * j]]
    BY <2>2
  <2>4. l[2 * (h + 1)] = l[n + 2]
    BY <2>1
  <2>5. \A j \in 1 .. h : 2 * j \in 1 .. Len(l)
    BY <2>1
  <2>6. C \in Seq(Int) /\ Len(C) = h
    BY <2>3, <2>5
  <2>9. C1 \in Seq(Int) /\ Len(C1) = h + 1
    BY <2>1, <2>3, <2>5
  <2>10. \A k \in 1 .. h : C1[k] = C[k]
    BY <2>3
  <2>11. C1[h + 1] = l[n + 2]
    BY <2>3, <2>4
  <2>7. C1 = Append(C, l[n + 2])
    <3> HIDE DEF C, C1
    <3> QED  BY <2>6, <2>9, <2>10, <2>11, AppendIs
  <2>8. D1 = D
    BY <2>2
  <2> QED  BY <1>1, <1>2, <2>7, <2>8
<1>3. CASE n % 2 # 0
  <2>1. PICK h \in Nat : n = 2 * h + 1
    BY <1>3
  <2>2. (n + 1) \div 2 = h + 1 /\ (n + 2) \div 2 = h + 1 /\ n \div 2 = h
    BY <2>1
  <2>3. D = [j \in 1 .. h |-> l[2 * j + 1]] /\ D1 = [j \in 1 .. h + 1 |-> l[2 * j + 1]]
    BY <2>2
  <2>4. l[2 * (h + 1) + 1] = l[n + 2]
    BY <2>1
  <2>5. \A j \in 1 .. h : 2 * j + 1 \in 1 .. Len(l)
    BY <2>1
  <2>6. D \in Seq(Int) /\ Len(D) = h
    BY <2>3, <2>5
  <2>9. D1 \in Seq(Int) /\ Len(D1) = h + 1
    BY <2>1, <2>3, <2>5
  <2>10. \A k \in 1 .. h : D1[k] = D[k]
    BY <2>3
  <2>11. D1[h + 1] = l[n + 2]
    BY <2>3, <2>4
  <2>7. D1 = Append(D, l[n + 2])
    <3> HIDE DEF D, D1
    <3> QED  BY <2>6, <2>9, <2>10, <2>11, AppendIs
  <2>8. C1 = C
    BY <2>2
  <2> QED  BY <1>1, <1>3, <2>7, <2>8
<1> QED  BY <1>2, <1>3

(* No tokens yet. *)
LEMMA ParsedFirst ==
    ASSUME NEW l
    PROVE  Parsed(l, 0).cpu_burst = <<>> /\ Parsed(l, 0).io_burst = <<>>
<1>1. (0 + 1) \div 2 = 0 /\ 0 \div 2 = 0
  OBVIOUS
<1>2. [j \in 1 .. (0 + 1) \div 2 |-> l[2 * j]] = <<>> /\ [j \in 1 .. 0 \div 2 |-> l[2 * j + 1]] = <<>>
  BY <1>1
<1> QED  BY <1>2 DEF Parsed

(* A parse alternates. *)
LEMMA ParseAlternates ==
    ASSUME NEW l \in Seq(Int), NEW d, IsParse(d, l)
    PROVE  Alternates(d)
<1>1. PICK n \in 0 .. Len(l) - 1 : d = Parsed(l, n)
  BY DEF IsParse
<1>2. Len(d.cpu_burst) = (n + 1) \div 2 /\ Len(d.io_burst) = n \div 2
  BY <1>1 DEF Parsed
<1> QED  BY <1>1, <1>2 DEF Alternates
-----------------------------------------------------------------------------
LEMMA InitIInv == Init => IInv
<1> SUFFICES ASSUME Init PROVE IInv
  OBVIOUS
<1>1. file \in [lines : Lines, ended : BOOLEAN] /\ (file.lines = <<>> => file.ended) /\ \A n \in DOMAIN file.lines : file.lines[n] # <<>>
  BY FilesAssumption DEF Init, Lines
<1>2. file.lines \in Lines /\ Len(file.lines) \in Nat /\ DOMAIN file.lines = 1 .. Len(file.lines)
  BY <1>1, LenProperties DEF Lines
<1>3. Types
  <2>1. unread \in Lines /\ str \in Lines /\ b_data \in Seq(ParsedLine)
    BY <1>2, EmptySeq DEF Init, Lines
  <2>2. cpu_burst \in Seq(Int) /\ io_burst \in Seq(Int)
    BY EmptySeq DEF Init
  <2>3. i \in Nat /\ t_process \in Int
    BY DEF Init
  <2>4. file \in Files /\ eof \in BOOLEAN /\ pc \in {"fgets", "line", "token", "done", "crash"}
    BY DEF Init
  <2> QED  BY <2>1, <2>2, <2>3, <2>4 DEF Types
<1>4. Tokens
  BY <1>1, <1>2, StrAssumption DEF Init, Tokens
<1>5. Counted /\ InLoop /\ ParsedAsFormat
  BY DEF Init, Counted, InLoop, ParsedAsFormat
<1>6. ReadInOrder
  BY <1>1, <1>2 DEF Init, ReadInOrder
<1> QED  BY <1>3, <1>4, <1>5, <1>6 DEF IInv

(* What a read leaves alone. *)
LEMMA ReadKeeps ==
    ASSUME IInv, pc = "fgets", UNCHANGED <<file, t_process, b_data, loop, pc>>,
           str' \in Lines, eof' \in BOOLEAN, unread' \in Lines,
           Tokens', ReadInOrder'
    PROVE  IInv'
<1>1. Types'
  BY DEF IInv, Types, loop
<1>2. Counted' /\ InLoop' /\ b_data' = <<>>
  BY DEF IInv, Counted, InLoop, loop
<1>3. ParsedAsFormat'
  BY <1>2 DEF ParsedAsFormat
<1> QED  BY <1>1, <1>2, <1>3 DEF IInv

LEMMA ReadLineKeeps == IInv /\ ReadLine => IInv'
<1> SUFFICES ASSUME IInv, ReadLine PROVE IInv'
  OBVIOUS
<1> USE DEF Lines
<1>1. /\ unread \in Lines /\ str \in Lines /\ eof = FALSE /\ pc = "fgets"
      /\ file \in [lines : Lines, ended : BOOLEAN]
  BY FilesAssumption DEF IInv, Types, ReadLine
<1>2. Len(unread) \in Nat \ {0} /\ Len(str) \in Nat /\ Len(file.lines) \in Nat
  BY <1>1, EmptySeq, LenProperties DEF ReadLine
<1>3. Head(unread) = unread[1] /\ Head(unread) \in Seq(Int)
  BY <1>1, <1>2, ElementOfSeq DEF ReadLine
<1>4. /\ unread' \in Lines /\ Len(unread') = Len(unread) - 1
      /\ \A n \in 1 .. Len(unread') : unread'[n] = unread[n + 1]
  BY <1>1, HeadTailProperties DEF ReadLine
<1>5. /\ str' \in Lines /\ Len(str') = Len(str) + 1
      /\ \A n \in 1 .. Len(str) : str'[n] = str[n]
      /\ str'[Len(str) + 1] = unread[1]
  BY <1>1, <1>3, AppendProperties DEF ReadLine
<1>6. /\ eof' \in BOOLEAN /\ file' = file
      /\ eof' => Len(unread) = 1 /\ ~ file.ended
  BY DEF ReadLine
<1>7. Tokens'
  <2>1. /\ \A n \in 1 .. Len(unread) : unread[n] # <<>>
        /\ \A j \in 1 .. Len(str) : str[j] # <<>>
    BY <1>1 DEF IInv, Tokens
  <2>2. \A n \in 1 .. Len(unread') : unread'[n] # <<>>
    <3> TAKE n \in 1 .. Len(unread')
    <3>1. n + 1 \in 1 .. Len(unread)
      BY <1>2, <1>4
    <3>2. unread'[n] = unread[n + 1]
      BY <1>4
    <3> QED  BY <2>1, <3>1, <3>2
  <2>3. unread[1] # <<>>
    BY <1>2, <2>1
  <2>4. \A j \in 1 .. Len(str') : str'[j] # <<>>
    <3> TAKE j \in 1 .. Len(str')
    <3>1. CASE j = Len(str) + 1
      BY <1>5, <2>3, <3>1
    <3>2. CASE j \in 1 .. Len(str)
      BY <1>5, <2>1, <3>2
    <3> QED  BY <1>2, <1>5, <3>1, <3>2
  <2>5. Len(str') <= StrLines
    BY <1>2, <1>5, StrAssumption DEF ReadLine
  <2> QED  BY <2>2, <2>4, <2>5, StrAssumption DEF Tokens
<1>8. ReadInOrder'
  <2> SUFFICES ASSUME ShortFile PROVE ReadInOrder'
    BY <1>6 DEF ReadInOrder, ShortFile
  <2>1. /\ Len(unread) <= Len(file.lines)
        /\ \A n \in 1 .. Len(unread) :
               unread[n] = file.lines[Len(file.lines) - Len(unread) + n]
        /\ Len(str) = Len(file.lines) - Len(unread)
        /\ \A n \in 1 .. Len(file.lines) - Len(unread) : str[n] = file.lines[n]
    BY <1>1 DEF IInv, ReadInOrder
  <2>2. eof' => unread' = <<>>
    <3>1. eof' => Len(unread) = 1
      BY <1>6
    <3>2. Len(unread) = 1 => Len(unread') = 0
      BY <1>4
    <3> QED  BY <1>4, <3>1, <3>2, EmptySeq
  <2>3. ~ (eof' /\ file.ended) /\ Len(str') = Len(file.lines) - Len(unread')
    <3>1. ~ (eof' /\ file.ended)
      BY <1>6
    <3>2. Len(str') = Len(file.lines) - Len(unread')
      BY <1>2, <1>4, <1>5, <2>1
    <3> QED  BY <3>1, <3>2
  <2>4. \A n \in 1 .. Len(unread') :
            unread'[n] = file.lines[Len(file.lines) - Len(unread') + n]
    <3> TAKE n \in 1 .. Len(unread')
    <3>1. n \in Nat /\ n + 1 \in 1 .. Len(unread) /\ Len(unread') = Len(unread) - 1
      BY <1>2, <1>4
    <3>2. unread'[n] = unread[n + 1]
      BY <1>4
    <3>3. unread[n + 1] = file.lines[Len(file.lines) - Len(unread) + (n + 1)]
      BY <2>1, <3>1
    <3>4. Len(file.lines) - Len(unread) + (n + 1) = Len(file.lines) - Len(unread') + n
      <4> DEFINE all == Len(file.lines)
                 left == Len(unread)
                 after == Len(unread')
      <4>1. all \in Nat /\ left \in Nat /\ n \in Nat /\ after = left - 1
        BY <1>2, <3>1
      <4> HIDE DEF all, left, after
      <4>2. all - left + (n + 1) = all - after + n
        BY <4>1
      <4> QED  BY <4>2 DEF all, left, after
    <3> QED  BY <3>2, <3>3, <3>4
  <2>5. \A n \in 1 .. Len(file.lines) - Len(unread') : str'[n] = file.lines[n]
    <3> TAKE n \in 1 .. Len(file.lines) - Len(unread')
    <3>1. CASE n = Len(str) + 1
      <4>1. unread[1] = file.lines[Len(file.lines) - Len(unread) + 1]
        BY <1>2, <2>1
      <4> QED  BY <1>5, <2>1, <3>1, <4>1
    <3>2. CASE n \in 1 .. Len(str)
      BY <1>5, <2>1, <3>2
    <3>3. n \in 1 .. Len(str) + 1
      <4>1. Len(unread') = Len(unread) - 1 /\ Len(str) = Len(file.lines) - Len(unread)
        BY <1>4, <2>1
      <4> QED  BY <1>2, <4>1
    <3>4. n = Len(str) + 1 \/ n \in 1 .. Len(str)
      BY <1>2, <3>3
    <3> QED  BY <3>1, <3>2, <3>4
  <2> QED  BY <1>2, <1>4, <1>6, <2>1, <2>2, <2>3, <2>4, <2>5 DEF ReadInOrder
<1> QED  BY <1>1, <1>4, <1>5, <1>6, <1>7, <1>8, ReadKeeps DEF ReadLine

LEMMA ReadPieceKeeps == IInv /\ ReadPiece => IInv'
<1> SUFFICES ASSUME IInv, ReadPiece PROVE IInv'
  OBVIOUS
<1> USE DEF Lines
<1>1. /\ unread \in Lines /\ str \in Lines /\ eof = FALSE /\ pc = "fgets"
      /\ file \in [lines : Lines, ended : BOOLEAN]
  BY FilesAssumption DEF IInv, Types, ReadPiece
<1>2. Len(unread) \in Nat \ {0} /\ Len(str) \in Nat /\ Len(file.lines) \in Nat
  BY <1>1, EmptySeq, LenProperties DEF ReadPiece
<1> DEFINE l == Head(unread)
           piece == SubSeq(l, 1, LineTokens)
           rest == SubSeq(l, LineTokens + 1, Len(l))
<1>3. l = unread[1] /\ l \in Seq(Int)
  BY <1>1, <1>2, ElementOfSeq DEF ReadPiece
<1>4. Len(l) \in Nat /\ Len(l) > LineTokens /\ LineTokens \in Nat \ {0}
  BY <1>3, LineAssumption, LenProperties DEF ReadPiece
<1>5. piece \in Seq(Int) /\ Len(piece) = LineTokens
  <2>1. \A n \in 1 .. LineTokens : l[n] \in Int
    BY <1>3, <1>4, ElementOfSeq
  <2> QED  BY <1>4, <2>1, SubSeqProperties
<1>6. rest \in Seq(Int) /\ Len(rest) > 0
  <2>1. \A n \in LineTokens + 1 .. Len(l) : l[n] \in Int
    BY <1>3, <1>4, ElementOfSeq
  <2> QED  BY <1>4, <2>1, SubSeqProperties
<1> HIDE DEF l, piece, rest
<1>7. Tail(unread) \in Lines /\ \A n \in 1 .. Len(unread) - 1 : Tail(unread)[n] = unread[n + 1]
  BY <1>1, HeadTailProperties DEF ReadPiece
<1>8. /\ unread' \in Lines /\ Len(unread') = Len(unread)
      /\ unread'[1] = rest
      /\ \A n \in 2 .. Len(unread) : unread'[n] = unread[n]
  <2>1. unread' = <<rest>> \o Tail(unread)
    BY DEF ReadPiece, l, rest
  <2>2. <<rest>> \in Lines /\ Len(<<rest>>) = 1 /\ <<rest>>[1] = rest
    BY <1>6
  <2>3. Len(Tail(unread)) = Len(unread) - 1
    BY <1>1, HeadTailProperties DEF ReadPiece
  <2>4. /\ unread' \in Lines /\ Len(unread') = Len(unread)
        /\ \A n \in 1 .. Len(unread) :
               unread'[n] = IF n <= 1 THEN <<rest>>[n] ELSE Tail(unread)[n - 1]
    BY <1>2, <1>7, <2>1, <2>2, <2>3, ConcatProperties
  <2>5. unread'[1] = rest
    BY <1>2, <2>2, <2>4
  <2>6. \A n \in 2 .. Len(unread) : unread'[n] = unread[n]
    BY <1>2, <1>7, <2>4
  <2> QED  BY <2>4, <2>5, <2>6
<1>9. /\ str' \in Lines /\ Len(str') = Len(str) + 1
      /\ \A n \in 1 .. Len(str) : str'[n] = str[n]
      /\ str'[Len(str) + 1] = piece
  <2>1. str' = Append(str, piece)
    BY DEF ReadPiece, piece, l
  <2> QED  BY <1>1, <1>5, <2>1, AppendProperties
<1>10. Tokens'
  <2>1. /\ \A n \in 1 .. Len(unread) : unread[n] # <<>>
        /\ \A j \in 1 .. Len(str) : str[j] # <<>>
    BY <1>1 DEF IInv, Tokens
  <2>2. piece # <<>> /\ rest # <<>>
    BY <1>4, <1>5, <1>6
  <2>3. \A n \in 1 .. Len(unread') : unread'[n] # <<>>
    BY <1>2, <1>8, <2>1, <2>2
  <2>4. \A j \in 1 .. Len(str') : str'[j] # <<>>
    <3> TAKE j \in 1 .. Len(str')
    <3>1. CASE j = Len(str) + 1
      BY <1>9, <2>2, <3>1
    <3>2. CASE j \in 1 .. Len(str)
      BY <1>9, <2>1, <3>2
    <3> QED  BY <1>2, <1>9, <3>1, <3>2
  <2>5. Len(str') <= StrLines
    BY <1>2, <1>9, StrAssumption DEF ReadPiece
  <2> QED  BY <2>3, <2>4, <2>5, StrAssumption DEF Tokens
<1>11. ReadInOrder'
  <2> SUFFICES ASSUME ShortFile PROVE FALSE
    BY DEF ReadInOrder, ShortFile, ReadPiece
  <2>1. /\ Len(unread) <= Len(file.lines)
        /\ unread[1] = file.lines[Len(file.lines) - Len(unread) + 1]
    BY <1>2 DEF IInv, ReadInOrder
  <2>2. Len(file.lines) - Len(unread) + 1 \in DOMAIN file.lines
    BY <1>1, <1>2, <2>1, LenProperties
  <2> QED  BY <1>3, <1>4, <2>1, <2>2 DEF ShortFile, Short
<1> QED  BY <1>1, <1>8, <1>9, <1>10, <1>11, ReadKeeps DEF ReadPiece

LEMMA ReadPastStrKeeps == IInv /\ ReadPastStr => IInv'
<1> SUFFICES ASSUME IInv, ReadPastStr PROVE IInv'
  OBVIOUS
<1>1. Types' /\ InLoop' /\ Counted'
  BY DEF IInv, Types, InLoop, Counted, ReadPastStr, input, loop
<1>2. Tokens' /\ ReadInOrder' /\ ParsedAsFormat'
  BY DEF IInv, Tokens, ReadInOrder, ShortFile, ParsedAsFormat, ReadPastStr, input
<1> QED  BY <1>1, <1>2 DEF IInv

LEMMA ReadNothingKeeps == IInv /\ ReadNothing => IInv'
<1> SUFFICES ASSUME IInv, ReadNothing PROVE IInv'
  OBVIOUS
<1> USE DEF Lines
<1>1. /\ unread \in Lines /\ str \in Lines /\ eof = FALSE /\ pc = "fgets"
      /\ file \in [lines : Lines, ended : BOOLEAN] /\ unread = <<>>
  BY FilesAssumption DEF IInv, Types, ReadNothing
<1>2. Len(unread) = 0 /\ Len(str) \in Nat /\ Len(file.lines) \in Nat
  BY <1>1, LenProperties
<1>3. /\ str' \in Lines /\ Len(str') = Len(str) + 1
      /\ \A n \in 1 .. Len(str) : str'[n] = str[n]
  BY <1>1, AppendProperties DEF ReadNothing
<1>4. eof' = TRUE /\ unread' = unread /\ file' = file
  BY DEF ReadNothing
<1>5. Tokens'
  <2>1. \A j \in 1 .. Len(str) : str[j] # <<>>
    BY <1>1 DEF IInv, Tokens
  <2>2. \A j \in 1 .. Len(str') : str'[j] = <<>> => j = Len(str')
    <3> TAKE j \in 1 .. Len(str')
    <3>1. CASE j \in 1 .. Len(str)
      BY <1>3, <2>1, <3>1
    <3> QED  BY <1>2, <1>3, <3>1
  <2>3. Len(str') <= StrLines + 1
    BY <1>1, <1>2, <1>3, StrAssumption DEF IInv, Tokens
  <2> QED  BY <1>1, <1>2, <1>4, <2>2, <2>3 DEF Tokens
<1>6. ReadInOrder'
  <2> SUFFICES ASSUME ShortFile PROVE ReadInOrder'
    BY <1>4 DEF ReadInOrder, ShortFile
  <2>1. /\ Len(str) = Len(file.lines)
        /\ \A n \in 1 .. Len(file.lines) : str[n] = file.lines[n]
    BY <1>1, <1>2 DEF IInv, ReadInOrder
  <2>2. Len(str') = Len(file.lines) + 1 /\ \A n \in 1 .. Len(file.lines) : str'[n] = file.lines[n]
    BY <1>2, <1>3, <2>1
  <2> QED  BY <1>1, <1>2, <1>4, <2>2 DEF ReadInOrder
<1> QED  BY <1>1, <1>3, <1>4, <1>5, <1>6, ReadKeeps DEF ReadNothing
-----------------------------------------------------------------------------
(* Nothing is read any more. *)
LEMMA InputKept == UNCHANGED input /\ Tokens => Tokens'
  BY DEF input, Tokens

LEMMA OrderKept == UNCHANGED input /\ ReadInOrder => ReadInOrder'
  BY DEF input, ReadInOrder, ShortFile

LEMMA CountLinesKeeps == IInv /\ CountLines => IInv'
<1> SUFFICES ASSUME IInv, CountLines PROVE IInv'
  OBVIOUS
<1>1. Len(str) \in Nat
  BY LenProperties DEF IInv, Types, Lines
<1>2. Types'
  BY <1>1 DEF IInv, Types, CountLines, input, loop
<1>3. Tokens' /\ ReadInOrder'
  BY InputKept, OrderKept DEF IInv, CountLines
<1>4. b_data = <<>> /\ b_data' = <<>> /\ Len(b_data') = 0
  BY DEF IInv, Counted, CountLines
<1>5. Counted'
  BY <1>1, <1>4 DEF IInv, Counted, CountLines, input
<1>6. InLoop'
  BY DEF InLoop, CountLines
<1>7. ParsedAsFormat'
  BY <1>4 DEF ParsedAsFormat
<1> QED  BY <1>2, <1>3, <1>5, <1>6, <1>7 DEF IInv

(* The line being parsed has a token. *)
LEMMA LineRead ==
    ASSUME IInv, pc \in {"line", "token"}, Len(b_data) < t_process
    PROVE  /\ Len(b_data) \in Nat /\ Len(b_data) + 1 \in 1 .. Len(str)
           /\ Len(b_data) + 1 <= StrLines
           /\ line \in Seq(Int) /\ Len(line) \in Nat \ {0}
<1>1. str \in Lines /\ b_data \in Seq(ParsedLine)
  BY DEF IInv, Types
<1>2. Len(str) \in Nat /\ Len(b_data) \in Nat
  BY <1>1, LenProperties DEF Lines
<1>3. t_process = Len(str) - 2
  BY DEF IInv, Counted
<1>4. Len(b_data) + 1 \in 1 .. Len(str) /\ Len(b_data) + 1 # Len(str)
  BY <1>2, <1>3
<1>5. line \in Seq(Int)
  BY <1>1, <1>4, ElementOfSeq DEF Lines, line
<1>6. line # <<>>
  BY <1>4 DEF IInv, Tokens, line
<1>7. Len(b_data) + 1 <= StrLines
  BY <1>2, <1>3, StrAssumption DEF IInv, Tokens
<1> QED  BY <1>2, <1>4, <1>5, <1>6, <1>7, EmptySeq

LEMMA BeginLineKeeps == IInv /\ BeginLine => IInv'
<1> SUFFICES ASSUME IInv, BeginLine PROVE IInv'
  OBVIOUS
<1>1. Types'
  <2>1. cpu_burst' \in Seq(Int) /\ io_burst' \in Seq(Int)
    BY EmptySeq DEF BeginLine
  <2>2. i' \in Nat /\ pc' = "token" /\ UNCHANGED <<file, unread, str, eof, t_process, b_data>>
    BY DEF BeginLine, input
  <2> QED  BY <2>1, <2>2 DEF IInv, Types
<1>2. Tokens' /\ ReadInOrder'
  BY InputKept, OrderKept DEF IInv, BeginLine
<1>3. Counted'
  BY DEF IInv, Counted, BeginLine, input
<1>4. ParsedAsFormat'
  BY DEF IInv, ParsedAsFormat, BeginLine, input
<1>5. InLoop'
  <2>1. line' = line /\ Len(line) \in Nat \ {0}
    BY LineRead DEF BeginLine, input, line
  <2>2. i' = 0 /\ cpu_burst' = <<>> /\ io_burst' = <<>>
    BY DEF BeginLine
  <2>3. Parsed(line, 0).cpu_burst = <<>> /\ Parsed(line, 0).io_burst = <<>>
    BY ParsedFirst
  <2>4. Parsed(line', i') = Parsed(line, 0)
    BY <2>1, <2>2
  <2> QED  BY <2>1, <2>2, <2>3, <2>4 DEF InLoop
<1> QED  BY <1>1, <1>2, <1>3, <1>4, <1>5 DEF IInv

LEMMA TakeTokenKeeps == IInv /\ TakeToken => IInv'
<1> SUFFICES ASSUME IInv, TakeToken PROVE IInv'
  OBVIOUS
<1>1. /\ line \in Seq(Int) /\ Len(line) \in Nat \ {0}
      /\ line' = line /\ i' = i + 1
  BY LineRead DEF IInv, Counted, TakeToken, input, line
<1>2. i \in Nat /\ i + 2 <= Len(line) /\ line[i + 2] \in Int /\ line[i + 2] # -1
  <2>1. i \in Nat /\ i + 2 <= Len(line) /\ line[i + 2] # -1
    BY DEF IInv, Types, TakeToken, More, token
  <2> QED  BY <1>1, <2>1, ElementOfSeq
<1>3. Types'
  <2>1. cpu_burst' \in Seq(Int) /\ io_burst' \in Seq(Int)
    <3>1. cpu_burst \in Seq(Int) /\ io_burst \in Seq(Int) /\ token \in Int
      BY <1>2 DEF IInv, Types, token
    <3>2. Append(cpu_burst, token) \in Seq(Int) /\ Append(io_burst, token) \in Seq(Int)
      BY <3>1, AppendProperties
    <3> QED  BY <3>1, <3>2 DEF TakeToken
  <2>2. i' \in Nat /\ UNCHANGED <<pc, file, unread, str, eof, t_process, b_data>>
    BY <1>2 DEF TakeToken, input
  <2> QED  BY <2>1, <2>2 DEF IInv, Types
<1>4. Tokens' /\ ReadInOrder'
  BY InputKept, OrderKept DEF IInv, TakeToken
<1>5. Counted'
  BY DEF IInv, Counted, TakeToken, input
<1>6. ParsedAsFormat'
  BY DEF IInv, ParsedAsFormat, TakeToken, input
<1>7. InLoop'
  <2>1. /\ \A j \in 1 .. i : line[j + 1] # -1
        /\ cpu_burst = Parsed(line, i).cpu_burst
        /\ io_burst = Parsed(line, i).io_burst
    BY DEF IInv, InLoop, TakeToken
  <2>2. \A j \in 1 .. i + 1 : line[j + 1] # -1
    <3> TAKE j \in 1 .. i + 1
    <3>1. j = i + 1 \/ j \in 1 .. i
      BY <1>2
    <3>2. (i + 1) + 1 = i + 2
      BY <1>2
    <3> QED  BY <1>2, <2>1, <3>1, <3>2
  <2>3. /\ cpu_burst' = Parsed(line, i + 1).cpu_burst
        /\ io_burst' = Parsed(line, i + 1).io_burst
    <3>1. CASE i % 2 = 0
      <4>1. cpu_burst' = Append(cpu_burst, line[i + 2]) /\ io_burst' = io_burst
        BY <3>1 DEF TakeToken, token
      <4> QED  BY <1>1, <1>2, <2>1, <3>1, <4>1, ParsedNext
    <3>2. CASE i % 2 # 0
      <4>1. io_burst' = Append(io_burst, line[i + 2]) /\ cpu_burst' = cpu_burst
        BY <3>2 DEF TakeToken, token
      <4> QED  BY <1>1, <1>2, <2>1, <3>2, <4>1, ParsedNext
    <3> QED  BY <3>1, <3>2
  <2>4. i + 1 \in 0 .. Len(line) - 1
    BY <1>1, <1>2
  <2> QED  BY <1>1, <2>2, <2>3, <2>4 DEF InLoop
<1> QED  BY <1>3, <1>4, <1>5, <1>6, <1>7 DEF IInv

LEMMA EndLineKeeps == IInv /\ EndLine => IInv'
<1> SUFFICES ASSUME IInv, EndLine PROVE IInv'
  OBVIOUS
<1> DEFINE d == [a_time |-> line[1], cpu_burst |-> cpu_burst, io_burst |-> io_burst]
<1>1. /\ Len(b_data) \in Nat /\ Len(b_data) + 1 \in 1 .. Len(str)
      /\ Len(b_data) + 1 <= StrLines
      /\ line \in Seq(Int) /\ Len(line) \in Nat \ {0}
  BY LineRead DEF IInv, Counted, EndLine
<1>2. d \in ParsedLine
  <2>1. line[1] \in Int
    BY <1>1, ElementOfSeq
  <2> QED  BY <2>1 DEF IInv, Types, ParsedLine
<1>3. b_data \in Seq(ParsedLine) /\ b_data' = Append(b_data, d)
  BY DEF IInv, Types, EndLine
<1>4. IsParse(d, line)
  <2>1. /\ i \in 0 .. Len(line) - 1
        /\ \A j \in 1 .. i : line[j + 1] # -1
        /\ cpu_burst = Parsed(line, i).cpu_burst
        /\ io_burst = Parsed(line, i).io_burst
    BY DEF IInv, InLoop, EndLine
  <2>2. i + 1 = Len(line) \/ line[i + 2] = -1
    BY <1>1, <2>1 DEF EndLine, More, token
  <2>3. Bursts(line, i)
    BY <2>1, <2>2 DEF Bursts
  <2>4. d = Parsed(line, i)
    BY <2>1 DEF Parsed
  <2> QED  BY <2>1, <2>3, <2>4 DEF IsParse
<1> HIDE DEF d
<1>5. /\ b_data' \in Seq(ParsedLine) /\ Len(b_data') = Len(b_data) + 1
      /\ \A j \in 1 .. Len(b_data) : b_data'[j] = b_data[j]
      /\ b_data'[Len(b_data) + 1] = d
  BY <1>2, <1>3, AppendProperties
<1>6. Types'
  BY <1>5 DEF IInv, Types, EndLine, input, loop
<1>7. Tokens' /\ ReadInOrder'
  BY InputKept, OrderKept DEF IInv, EndLine
<1>8. Counted'
  <2>1. /\ pc = "token" /\ eof /\ t_process = Len(str) - 2 /\ Len(b_data) < t_process
        /\ t_process \in Int
    BY DEF IInv, Counted, Types, EndLine
  <2>2. /\ pc' = "line" /\ eof' = eof /\ t_process' = t_process /\ str' = str
    BY DEF EndLine, input
  <2> QED  BY <1>1, <1>5, <2>1, <2>2 DEF Counted
<1>9. InLoop'
  BY DEF InLoop, EndLine
<1>10. ParsedAsFormat'
  <2>1. str' = str /\ line = str[Len(b_data) + 1]
    BY DEF EndLine, input, line
  <2>2. ASSUME NEW j \in 1 .. Len(b_data')
        PROVE  j <= Len(str) /\ j <= StrLines /\ IsParse(b_data'[j], str[j])
    <3>1. CASE j = Len(b_data) + 1
      BY <1>1, <1>4, <1>5, <2>1, <3>1
    <3>2. CASE j \in 1 .. Len(b_data)
      BY <1>5, <3>2 DEF IInv, ParsedAsFormat
    <3> QED  BY <1>1, <1>5, <3>1, <3>2
  <2> QED  BY <2>1, <2>2 DEF ParsedAsFormat
<1> QED  BY <1>6, <1>7, <1>8, <1>9, <1>10 DEF IInv

LEMMA ReturnKeeps == IInv /\ Return => IInv'
<1> SUFFICES ASSUME IInv, Return PROVE IInv'
  OBVIOUS
<1>1. Types' /\ InLoop' /\ ParsedAsFormat'
  BY DEF IInv, Types, InLoop, ParsedAsFormat, Return, input, loop
<1>2. Len(b_data) \in Nat
  BY LenProperties DEF IInv, Types
<1>3. Counted'
  BY <1>2 DEF IInv, Types, Counted, Return, input
<1> QED  BY <1>1, <1>3, InputKept, OrderKept DEF IInv, Return

LEMMA NextIInv == IInv /\ [Next]_fileVars => IInv'
<1> SUFFICES ASSUME IInv, [Next]_fileVars PROVE IInv'
  OBVIOUS
<1>1. CASE UNCHANGED fileVars
  BY <1>1 DEF fileVars, input, loop, IInv, Types, Tokens, Counted, InLoop, line, ReadInOrder,
              ShortFile, ParsedAsFormat
<1>2. CASE Next
  BY <1>2, ReadLineKeeps, ReadPieceKeeps, ReadPastStrKeeps, ReadNothingKeeps, CountLinesKeeps,
     BeginLineKeeps, TakeTokenKeeps, EndLineKeeps, ReturnKeeps DEF Next
<1> QED  BY <1>1, <1>2
-----------------------------------------------------------------------------
THEOREM Invariance == Spec => []IInv
  BY InitIInv, NextIInv, PTL DEF Spec

(* Every burst file is parsed as its format says, line by line: the loop   *)
(* over the tokens splits them rightly, however many there are.            *)
THEOREM ParseCorrect == Spec => []ParsedAsFormat
<1>1. IInv => ParsedAsFormat
  BY DEF IInv
<1> QED  BY <1>1, Invariance, PTL

(* The reader keeps its types, stays inside the line it parses and parses  *)
(* no more lines than it counted.                                          *)
THEOREM FileTypeCorrect == Spec => []FileTypeOK
<1>1. IInv => FileTypeOK
  BY LineRead DEF IInv, Types, Counted, InLoop, Lines, ParsedLine, FileTypeOK
<1> QED  BY <1>1, Invariance, PTL

(* The bursts of every line alternate: what WorkloadAssumption takes for   *)
(* granted holds of every file.                                            *)
THEOREM ReaderAlternates == Spec => []LinesAlternate
<1>1. IInv => LinesAlternate
  <2> SUFFICES ASSUME IInv, NEW j \in 1 .. Len(b_data) PROVE Alternates(b_data[j])
    BY DEF LinesAlternate
  <2>1. j <= Len(str) /\ IsParse(b_data[j], str[j])
    BY DEF IInv, ParsedAsFormat
  <2>2. str[j] \in Seq(Int)
    BY <2>1, LenProperties, ElementOfSeq DEF IInv, Types, Lines
  <2> QED  BY <2>1, <2>2, ParseAlternates
<1> QED  BY <1>1, Invariance, PTL

(* Of a file with a newline at its end and no overlong line, every line    *)
(* but the last becomes a process, at its place.                           *)
THEOREM LinesBecomeProcesses == Spec => []EveryLineAProcess
<1>1. IInv => EveryLineAProcess
  <2> SUFFICES ASSUME IInv, pc = "done", file.ended, ShortFile
               PROVE  /\ Len(b_data) = Len(file.lines) - 1
                      /\ \A j \in 1 .. Len(b_data) : IsParse(b_data[j], file.lines[j])
    BY DEF EveryLineAProcess, ShortFile
  <2>1. eof /\ t_process = Len(str) - 2 /\ Len(b_data) = t_process
    BY DEF IInv, Counted
  <2>2. /\ Len(str) = Len(file.lines) + 1 /\ unread = <<>>
        /\ \A n \in 1 .. Len(file.lines) - Len(unread) : str[n] = file.lines[n]
    BY <2>1 DEF IInv, ReadInOrder
  <2>3. Len(file.lines) \in Nat /\ Len(unread) = 0
    BY <2>2, FilesAssumption, LenProperties DEF IInv, Types
  <2>4. Len(b_data) = Len(file.lines) - 1
    BY <2>1, <2>2, <2>3
  <2>5. \A j \in 1 .. Len(b_data) : IsParse(b_data[j], file.lines[j])
    BY <2>2, <2>3, <2>4 DEF IInv, ParsedAsFormat
  <2> QED  BY <2>4, <2>5
<1> QED  BY <1>1, Invariance, PTL
-----------------------------------------------------------------------------
(* main moves the reader's variables only by the reader's own steps.       *)
LEMMA MainRunsReader == MainSpec => Spec
<1>1. MainInit => Init
  BY DEF MainInit
<1>2. [MainNext]_programVars => [Next]_fileVars
  <2> SUFFICES ASSUME MainNext \/ UNCHANGED programVars PROVE Next \/ UNCHANGED fileVars
    OBVIOUS
  <2>1. CASE Usage \/ OpenLog \/ OpenFile \/ ArrivalCrash \/ MainReturn
    BY <2>1 DEF Usage, OpenLog, OpenFile, ArrivalCrash, MainReturn, MainOnly
  <2>2. CASE read_burstfile \/ init_scheduler \/ Serve \/ WriteResult
    BY <2>2 DEF read_burstfile, init_scheduler, Serve, WriteResult
  <2>3. CASE UNCHANGED programVars
    BY <2>3 DEF programVars
  <2> QED  BY <2>1, <2>2, <2>3 DEF MainNext
<1> QED  BY <1>1, <1>2, PTL DEF MainSpec, Spec

(* What the threads get of each line is what the line says, in order.      *)
THEOREM MainParses == MainSpec => []ParsedAsFormat
  BY MainRunsReader, ParseCorrect, PTL

(* Whatever main does before and after, no line but the last is lost of a  *)
(* file that ends in a newline and has no overlong line.                   *)
THEOREM MainCreatesAll == MainSpec => []EveryLineAProcess
  BY MainRunsReader, LinesBecomeProcesses, PTL
-----------------------------------------------------------------------------
LEMMA DiffExact ==
    ASSUME NEW from \in timespec, NEW to \in timespec
    PROVE  /\ diff_timespec(from, to) \in timespec
           /\ Nanoseconds(diff_timespec(from, to)) = Nanoseconds(to) - Nanoseconds(from)
<1> DEFINE sec == to.tv_sec - from.tv_sec
           nsec == to.tv_nsec - from.tv_nsec
           diff == diff_timespec(from, to)
<1>0. /\ Second \in Nat \ {0} /\ from.tv_sec \in Int /\ to.tv_sec \in Int
      /\ from.tv_nsec \in 0 .. Second - 1 /\ to.tv_nsec \in 0 .. Second - 1
  BY SecondAssumption DEF timespec
<1>1. CASE nsec < 0
  <2>1. diff = [tv_sec |-> sec - 1, tv_nsec |-> nsec + Second]
    BY <1>1 DEF diff_timespec
  <2>2. diff \in timespec
    BY <2>1, <1>0, <1>1 DEF timespec
  <2>3. Nanoseconds(diff) = (sec - 1) * Second + nsec + Second
    BY <2>1, <1>0 DEF Nanoseconds
  <2> QED  BY <2>2, <2>3, <1>0 DEF Nanoseconds
<1>2. CASE ~ (nsec < 0)
  <2>1. diff = [tv_sec |-> sec, tv_nsec |-> nsec]
    BY <1>2 DEF diff_timespec
  <2>2. diff \in timespec
    BY <2>1, <1>0, <1>2 DEF timespec
  <2>3. Nanoseconds(diff) = sec * Second + nsec
    BY <2>1 DEF Nanoseconds
  <2> QED  BY <2>2, <2>3, <1>0 DEF Nanoseconds
<1> QED  BY <1>1, <1>2

LEMMA AddExact ==
    ASSUME NEW t1 \in timespec, NEW t2 \in timespec
    PROVE  /\ timespec_add(t1, t2) \in timespec
           /\ Nanoseconds(timespec_add(t1, t2)) = Nanoseconds(t1) + Nanoseconds(t2)
<1> DEFINE sec == t1.tv_sec + t2.tv_sec
           nsec == t1.tv_nsec + t2.tv_nsec
           sum == timespec_add(t1, t2)
<1>0. /\ Second \in Nat \ {0} /\ t1.tv_sec \in Int /\ t2.tv_sec \in Int
      /\ t1.tv_nsec \in 0 .. Second - 1 /\ t2.tv_nsec \in 0 .. Second - 1
  BY SecondAssumption DEF timespec
<1>1. CASE nsec >= Second
  <2>1. sum = [tv_sec |-> sec + 1, tv_nsec |-> nsec - Second]
    BY <1>1 DEF timespec_add
  <2>2. sum \in timespec
    BY <2>1, <1>0, <1>1 DEF timespec
  <2>3. Nanoseconds(sum) = (sec + 1) * Second + nsec - Second
    BY <2>1, <1>0 DEF Nanoseconds
  <2> QED  BY <2>2, <2>3, <1>0 DEF Nanoseconds
<1>2. CASE ~ (nsec >= Second)
  <2>1. sum = [tv_sec |-> sec, tv_nsec |-> nsec]
    BY <1>2 DEF timespec_add
  <2>2. sum \in timespec
    BY <2>1, <1>0, <1>2 DEF timespec
  <2>3. Nanoseconds(sum) = sec * Second + nsec
    BY <2>1 DEF Nanoseconds
  <2> QED  BY <2>2, <2>3, <1>0 DEF Nanoseconds
<1> QED  BY <1>1, <1>2
-----------------------------------------------------------------------------
(* Between two calls of clock_gettime the process served is on the list.   *)
TimersInv ==
    /\ wall_time \in [Nodes -> timespec]
    /\ elapsed \in [Nodes -> Int]
    /\ start \in timespec
    /\ report_pc = "serve" => served_pd \in Nodes
    /\ WallTimeExact

timing == <<TOTAL_PROCESS, wall_time, elapsed, start, served_pd>>

LEMMA ZeroIsATime == zero \in timespec /\ Nanoseconds(zero) = 0
  BY SecondAssumption DEF zero, timespec, Nanoseconds

LEMMA MetricsInitInv == MetricsInit => TimersInv
<1> SUFFICES ASSUME MetricsInit PROVE TimersInv
  OBVIOUS
<1>1. Nodes = {} /\ wall_time = <<>> /\ elapsed = <<>> /\ start = zero /\ report_pc = "schedule"
  BY DEF MetricsInit, Nodes
<1>2. wall_time \in [Nodes -> timespec] /\ elapsed \in [Nodes -> Int]
  BY <1>1
<1> QED  BY <1>1, <1>2, ZeroIsATime DEF TimersInv, WallTimeExact

LEMMA KeepsTimers ==
    ASSUME TimersInv, UNCHANGED timing, report_pc' # "serve" \/ UNCHANGED report_pc
    PROVE  TimersInv'
  BY DEF TimersInv, timing, Nodes, WallTimeExact

LEMMA CreateInv ==
    ASSUME TimersInv, NEW count, NEW turnarounds, report_pc # "serve", Create(count, turnarounds)
    PROVE  TimersInv'
<1>1. Nodes' = 1 .. count /\ start' = start /\ report_pc' # "serve"
  BY DEF Create, Nodes, timers, totals
<1>2. wall_time' = [n \in Nodes' |-> zero] /\ elapsed' = [n \in Nodes' |-> 0]
  BY <1>1 DEF Create
<1> QED  BY <1>1, <1>2, ZeroIsATime DEF TimersInv, WallTimeExact

LEMMA StartTimerInv ==
    ASSUME TimersInv, NEW n \in Nodes, NEW now \in Readings, StartTimer(n, now)
    PROVE  TimersInv'
<1>1. Nodes' = Nodes /\ served_pd' = n /\ start' = now /\ UNCHANGED <<wall_time, elapsed>>
  BY DEF StartTimer, processes, Nodes
<1>2. now \in timespec
  BY ReadingAssumption
<1> QED  BY <1>1, <1>2 DEF TimersInv, WallTimeExact

LEMMA EndTimerInv ==
    ASSUME TimersInv, NEW now \in Readings, EndTimer(now)
    PROVE  TimersInv'
<1> DEFINE p == served_pd
           diff == diff_timespec(start, now)
<1>1. p \in Nodes /\ now \in timespec /\ start \in timespec
  BY ReadingAssumption DEF TimersInv, EndTimer
<1>2. Nodes' = Nodes /\ start' = start /\ report_pc' = "schedule"
  BY DEF EndTimer, processes, Nodes
<1>3. diff \in timespec /\ Nanoseconds(diff) = Nanoseconds(now) - Nanoseconds(start)
  BY <1>1, DiffExact
<1>4. Nanoseconds(now) \in Int /\ Nanoseconds(start) \in Int
  BY <1>1, SecondAssumption DEF Nanoseconds, timespec
<1>5. /\ wall_time[p] \in timespec /\ elapsed[p] \in Int
      /\ Nanoseconds(wall_time[p]) = elapsed[p]
  BY <1>1 DEF TimersInv, WallTimeExact
<1> DEFINE sum == timespec_add(wall_time[p], diff)
           all == elapsed[p] + Nanoseconds(now) - Nanoseconds(start)
<1>6. sum \in timespec /\ Nanoseconds(sum) = all
  BY <1>3, <1>4, <1>5, AddExact
<1>7. wall_time' = [wall_time EXCEPT ![p] = sum] /\ elapsed' = [elapsed EXCEPT ![p] = all]
  BY DEF EndTimer
<1>8. all \in Int
  BY <1>4, <1>5
<1> HIDE DEF sum, all
<1>9. wall_time' \in [Nodes' -> timespec] /\ elapsed' \in [Nodes' -> Int]
  BY <1>1, <1>2, <1>6, <1>7, <1>8 DEF TimersInv
<1>10. ASSUME NEW n \in Nodes
       PROVE  wall_time'[n] \in timespec /\ Nanoseconds(wall_time'[n]) = elapsed'[n]
  <2>1. CASE n = p
    BY <2>1, <1>6, <1>7, <1>1 DEF TimersInv
  <2>2. CASE n # p
    BY <2>2, <1>7 DEF TimersInv, WallTimeExact
  <2> QED  BY <2>1, <2>2
<1> QED  BY <1>1, <1>2, <1>9, <1>10 DEF TimersInv, WallTimeExact
-----------------------------------------------------------------------------
(* While the file is read nothing has been served. *)
PhaseInv == main_pc \in {"arguments", "open_file", "read"} => report_pc = "schedule"

LEMMA StepInv ==
    ASSUME TimersInv, PhaseInv, [MainNext]_programVars
    PROVE  TimersInv' /\ PhaseInv'
<1>1. CASE Usage \/ OpenLog \/ OpenFile \/ ArrivalCrash \/ MainReturn
  <2>1. UNCHANGED metricsVars
    BY <1>1 DEF Usage, OpenLog, OpenFile, ArrivalCrash, MainReturn, MainOnly
  <2>2. TimersInv'
    BY <2>1, KeepsTimers DEF metricsVars, timing, processes, timers
  <2>3. PhaseInv'
    BY <1>1, <2>1 DEF Usage, OpenLog, OpenFile, ArrivalCrash, MainReturn, Goto, PhaseInv,
                      metricsVars
  <2> QED  BY <2>2, <2>3
<1>2. CASE read_burstfile \/ UNCHANGED programVars
  <2>1. UNCHANGED <<main_pc, metricsVars>>
    BY <1>2 DEF read_burstfile, mainVars, programVars
  <2>2. TimersInv'
    BY <2>1, KeepsTimers DEF metricsVars, timing, processes, timers
  <2> QED  BY <2>1, <2>2 DEF PhaseInv, metricsVars
<1>3. CASE init_scheduler
  <2>1. main_pc = "read" /\ report_pc = "schedule" /\ main_pc' \in {"threads", "failed"}
    BY <1>3 DEF init_scheduler, Goto, PhaseInv
  <2>2. CASE UNCHANGED metricsVars
    BY <2>1, <2>2, KeepsTimers DEF metricsVars, timing, processes, timers, PhaseInv
  <2>3. CASE \E turnarounds : Create(t_process, turnarounds)
    BY <2>1, <2>3, CreateInv DEF PhaseInv
  <2> QED  BY <1>3, <2>2, <2>3 DEF init_scheduler
<1>4. CASE Serve
  <2>1. main_pc = "threads" /\ main_pc' = main_pc /\ serve
    BY <1>4 DEF Serve, mainVars
  <2>2. TimersInv'
    BY <2>1, StartTimerInv, EndTimerInv DEF serve
  <2> QED  BY <2>1, <2>2 DEF PhaseInv
<1>5. CASE WriteResult
  <2>1. main_pc = "threads" /\ main_pc' = main_pc /\ write_result
    BY <1>5 DEF WriteResult, mainVars
  <2>2. UNCHANGED timing /\ (report_pc' # "serve" \/ UNCHANGED report_pc)
    BY <2>1 DEF write_result, CallWriteResult, TraverseBody, LastNode, timing, processes, timers
  <2> QED  BY <2>1, <2>2, KeepsTimers DEF PhaseInv
<1> QED  BY <1>1, <1>2, <1>3, <1>4, <1>5 DEF MainNext

(* Whatever the wall clock shows at the start and the end of each burst,   *)
(* and however many there are, the wall time of a process is the time it   *)
(* was served, with less than a second of nanoseconds.                     *)
THEOREM WallTimesExact == MainSpec => []WallTimeExact
<1>1. MainInit => TimersInv /\ PhaseInv
  BY MetricsInitInv DEF MainInit, MetricsInit, PhaseInv
<1>2. TimersInv /\ PhaseInv /\ [MainNext]_programVars => (TimersInv /\ PhaseInv)'
  BY StepInv
<1>3. TimersInv => WallTimeExact
  BY DEF TimersInv
<1> QED  BY <1>1, <1>2, <1>3, PTL DEF MainSpec
-----------------------------------------------------------------------------
(* The result is about times, which are not negative: a burst file whose   *)
(* numbers are naturals, but for the -1 that ends a line's bursts.         *)
Numbers == Seq(Nat \cup {-1})
NaturalFiles == \A f \in Files : f.lines \in Seq(Numbers)
NaturalLines == unread \in Seq(Numbers) /\ str \in Seq(Numbers)

(* What fgets hands over of such a file are such lines.                    *)
LEMMA LinesStayNatural == NaturalFiles => (Spec => []NaturalLines)
<1> SUFFICES ASSUME NaturalFiles PROVE Spec => []NaturalLines
  OBVIOUS
<1>1. Init => NaturalLines
  BY DEF NaturalFiles, NaturalLines, Init
<1>2. NaturalLines /\ [Next]_fileVars => NaturalLines'
  <2> SUFFICES ASSUME NaturalLines, [Next]_fileVars PROVE NaturalLines'
    OBVIOUS
  <2>1. CASE ReadLine
    <3>1. Head(unread) \in Numbers /\ Tail(unread) \in Seq(Numbers)
      BY <2>1, HeadTailProperties DEF NaturalLines, ReadLine
    <3> QED  BY <2>1, <3>1, AppendProperties DEF NaturalLines, ReadLine
  <2>2. CASE ReadPiece
    <3> DEFINE l == Head(unread)
               piece == SubSeq(l, 1, LineTokens)
               rest == SubSeq(l, LineTokens + 1, Len(l))
    <3>1. l \in Numbers /\ Tail(unread) \in Seq(Numbers) /\ Len(l) > LineTokens
      BY <2>2, HeadTailProperties DEF NaturalLines, ReadPiece
    <3>2. Len(l) \in Nat /\ \A n \in 1 .. Len(l) : l[n] \in Nat \cup {-1}
      BY <3>1, LenProperties, ElementOfSeq DEF Numbers
    <3>3. piece \in Numbers
      <4>1. l \in Seq(Nat \cup {-1}) /\ \A n \in 1 .. LineTokens : l[n] \in Nat \cup {-1}
        BY <3>1, <3>2, LineAssumption DEF Numbers
      <4> HIDE DEF l
      <4> QED  BY <4>1, LineAssumption, SubSeqProperties DEF Numbers
    <3>4. rest \in Numbers
      <4>1. /\ l \in Seq(Nat \cup {-1})
            /\ \A n \in LineTokens + 1 .. Len(l) : l[n] \in Nat \cup {-1}
        BY <3>1, <3>2, LineAssumption DEF Numbers
      <4> HIDE DEF l
      <4> QED  BY <3>2, <4>1, LineAssumption, SubSeqProperties DEF Numbers
    <3> HIDE DEF piece, rest
    <3>5. <<rest>> \in Seq(Numbers)
      BY <3>4
    <3>6. <<rest>> \o Tail(unread) \in Seq(Numbers)
      BY <3>1, <3>5, ConcatProperties
    <3>7. Append(str, piece) \in Seq(Numbers)
      BY <3>3, AppendProperties DEF NaturalLines
    <3>8. str' = Append(str, piece) /\ unread' = <<rest>> \o Tail(unread)
      BY <2>2 DEF ReadPiece, piece, rest
    <3> QED  BY <3>6, <3>7, <3>8 DEF NaturalLines
  <2>3. CASE ReadNothing
    <3>1. <<>> \in Numbers
      BY DEF Numbers
    <3> QED  BY <2>3, <3>1, AppendProperties DEF NaturalLines, ReadNothing
  <2>4. CASE ReadPastStr \/ CountLines \/ BeginLine \/ TakeToken \/ EndLine \/ Return \/ UNCHANGED fileVars
    BY <2>4 DEF ReadPastStr, CountLines, BeginLine, TakeToken, EndLine, Return, fileVars, input, NaturalLines
  <2> QED  BY <2>1, <2>2, <2>3, <2>4 DEF Next
<1> QED  BY <1>1, <1>2, PTL DEF Spec

(* The bursts parsed from them are naturals, as the reader stops at -1, so *)
(* that every turnaround time is one too.                                  *)
LEMMA ServedIsNat ==
    ASSUME NaturalLines, ParsedAsFormat, NEW j \in 1 .. Len(b_data)
    PROVE  Served(j) \in Nat
<1>1. j \in 1 .. Len(str) /\ IsParse(b_data[j], str[j])
  BY LenProperties DEF ParsedAsFormat, NaturalLines
<1>2. str[j] \in Seq(Nat \cup {-1})
  BY <1>1, ElementOfSeq DEF NaturalLines, Numbers
<1>3. PICK l \in Seq(Nat \cup {-1}) : l = str[j]
  BY <1>2
<1>4. PICK n \in 0 .. Len(l) - 1 : Bursts(l, n) /\ b_data[j] = Parsed(l, n)
  BY <1>1, <1>3 DEF IsParse
<1>5. Len(l) \in Nat /\ \A k \in 1 .. Len(l) : l[k] \in Nat \cup {-1}
  BY LenProperties, ElementOfSeq
<1>6. \A k \in 1 .. n : l[k + 1] \in Nat
  BY <1>4, <1>5 DEF Bursts
<1>7. b_data[j].cpu_burst \in [1 .. (n + 1) \div 2 -> Nat]
  <2>1. ASSUME NEW k \in 1 .. (n + 1) \div 2 PROVE l[2 * k] \in Nat
    <3>1. 2 * k - 1 \in 1 .. n /\ (2 * k - 1) + 1 = 2 * k
      OBVIOUS
    <3> QED  BY <1>6, <3>1
  <2>2. b_data[j].cpu_burst = [k \in 1 .. (n + 1) \div 2 |-> l[2 * k]]
    BY <1>4 DEF Parsed
  <2> QED  BY <2>1, <2>2
<1>8. b_data[j].io_burst \in [1 .. n \div 2 -> Nat]
  <2>1. ASSUME NEW k \in 1 .. n \div 2 PROVE l[2 * k + 1] \in Nat
    <3>1. 2 * k \in 1 .. n
      OBVIOUS
    <3> QED  BY <1>6, <3>1
  <2>2. b_data[j].io_burst = [k \in 1 .. n \div 2 |-> l[2 * k + 1]]
    BY <1>4 DEF Parsed
  <2> QED  BY <2>1, <2>2
<1>9. ASSUME NEW m \in Int, NEW f \in [1 .. m -> Nat]
      PROVE  SumFunction(f) \in Nat
  <2>1. IsFiniteSet(1 .. m)
    BY FS_Interval
  <2> QED  BY <2>1, SumIsNat DEF SumFunction
<1>10. (n + 1) \div 2 \in Int /\ n \div 2 \in Int
  OBVIOUS
<1>11. SumFunction(b_data[j].cpu_burst) \in Nat /\ SumFunction(b_data[j].io_burst) \in Nat
  BY <1>7, <1>8, <1>9, <1>10
<1> HIDE DEF IsParse
<1> QED  BY <1>11 DEF Served
-----------------------------------------------------------------------------
(* The sums write_result keeps are those of the nodes behind it.           *)
Walked ==
    /\ ts \in timespec /\ Nanoseconds(ts) = SumTo(elapsed, tnode - 1)
    /\ t_avg = SumTo(turnaround_time, tnode - 1)
    /\ t_max \in Nat /\ \A n \in 1 .. tnode - 1 : turnaround_time[n] <= t_max
    /\ t_max = 0 \/ \E n \in 1 .. tnode - 1 : turnaround_time[n] = t_max

ResultInv ==
    /\ turnaround_time \in [Nodes -> Nat]
    /\ report_pc \in {"schedule", "serve"} => ts = zero /\ t_avg = 0 /\ t_max = 0
    /\ report_pc = "traverse" => TOTAL_PROCESS \in Nat /\ tnode \in Nodes /\ Walked
    /\ PrintedResult

LEMMA KeepsResult ==
    ASSUME ResultInv, UNCHANGED metricsVars
    PROVE  ResultInv'
<1>1. PrintedResult'
  BY DEF ResultInv, PrintedResult, metricsVars, processes, timers, totals, Nodes
<1>2. Walked => Walked'
  BY DEF Walked, metricsVars, processes, timers, totals
<1> QED  BY <1>1, <1>2 DEF ResultInv, metricsVars, processes, timers, totals, Nodes

LEMMA MetricsInitResult == MetricsInit => ResultInv
<1> SUFFICES ASSUME MetricsInit PROVE ResultInv
  OBVIOUS
<1>1. Nodes = {} /\ turnaround_time = <<>> /\ report_pc = "schedule"
  BY DEF MetricsInit, Nodes
<1>2. turnaround_time \in [Nodes -> Nat]
  BY <1>1
<1> QED  BY <1>1, <1>2 DEF MetricsInit, ResultInv, PrintedResult

LEMMA CreateResult ==
    ASSUME ResultInv, NEW count, NEW turnarounds \in [1 .. count -> Nat],
           report_pc = "schedule", Create(count, turnarounds)
    PROVE  ResultInv'
  BY DEF Create, ResultInv, PrintedResult, Nodes, totals

LEMMA ServeResult ==
    ASSUME ResultInv, serve
    PROVE  ResultInv'
<1>1. /\ report_pc \in {"schedule", "serve"} /\ report_pc' \in {"schedule", "serve"}
      /\ UNCHANGED <<processes, totals>>
  BY DEF serve, StartTimer, EndTimer
<1> QED  BY <1>1 DEF ResultInv, PrintedResult, Nodes, processes, totals

LEMMA CallWriteResultResult ==
    ASSUME ResultInv, TimersInv, TOTAL_PROCESS \in Int, CallWriteResult
    PROVE  ResultInv'
<1>1. report_pc = "schedule" /\ UNCHANGED <<processes, timers, totals>>
  BY DEF CallWriteResult
<1>2. CASE TOTAL_PROCESS > 0 /\ tnode' = 1 /\ report_pc' = "traverse"
  <2>1. TOTAL_PROCESS' \in Nat /\ tnode' \in Nodes' /\ tnode' - 1 = 0 /\ 1 .. tnode' - 1 = {}
    BY <1>1, <1>2 DEF processes, Nodes
  <2>2. SumTo(elapsed', 0) = 0 /\ SumTo(turnaround_time', 0) = 0
    BY SumToStep
  <2>3. ts' = zero /\ t_avg' = 0 /\ t_max' = 0
    BY <1>1 DEF ResultInv, totals
  <2>4. Walked'
    BY <2>1, <2>2, <2>3, ZeroIsATime DEF Walked
  <2> QED  BY <1>1, <1>2, <2>1, <2>4 DEF ResultInv, PrintedResult, processes, Nodes
<1>3. CASE report_pc' = "crash"
  BY <1>1, <1>3 DEF ResultInv, PrintedResult, processes, Nodes
<1> QED  BY <1>2, <1>3 DEF CallWriteResult

(* One node more: of the turnaround times. *)
LEMMA NodeTaken ==
    ASSUME ResultInv, TimersInv, report_pc = "traverse",
           NEW top, top = IF turnaround_time[tnode] > t_max THEN turnaround_time[tnode] ELSE t_max
    PROVE  /\ t_avg + turnaround_time[tnode] = SumTo(turnaround_time, tnode)
           /\ t_avg + turnaround_time[tnode] \in Nat
           /\ top \in Nat /\ \A n \in 1 .. tnode : turnaround_time[n] <= top
           /\ top = 0 \/ \E n \in 1 .. tnode : turnaround_time[n] = top
<1>1. /\ TOTAL_PROCESS \in Nat /\ tnode \in 1 .. TOTAL_PROCESS /\ Walked
      /\ turnaround_time \in [1 .. TOTAL_PROCESS -> Nat]
  BY DEF ResultInv, Nodes
<1>2. tnode \in Nat /\ tnode > 0 /\ \A n \in 1 .. tnode : turnaround_time[n] \in Nat
  BY <1>1
<1>3. /\ SumTo(turnaround_time, tnode) \in Nat
      /\ SumTo(turnaround_time, tnode) =
           SumTo(turnaround_time, tnode - 1) + turnaround_time[tnode]
  BY <1>2, SumToFacts
<1>4. t_avg = SumTo(turnaround_time, tnode - 1)
  BY <1>1 DEF Walked
<1>5. /\ t_max \in Nat /\ \A n \in 1 .. tnode - 1 : turnaround_time[n] <= t_max
      /\ t_max = 0 \/ \E n \in 1 .. tnode - 1 : turnaround_time[n] = t_max
  BY <1>1 DEF Walked
<1>6. tnode \in 1 .. tnode /\ \A n \in 1 .. tnode : n = tnode \/ n \in 1 .. tnode - 1
  BY <1>2
<1>7. \A n \in 1 .. tnode - 1 : n \in 1 .. tnode
  BY <1>2
<1>8. top \in Nat /\ turnaround_time[tnode] <= top /\ t_max <= top
      /\ (top = t_max \/ top = turnaround_time[tnode])
  BY <1>2, <1>5, <1>6
<1>9. \A n \in 1 .. tnode : turnaround_time[n] <= top
  BY <1>2, <1>5, <1>6, <1>8
<1>10. top = 0 \/ \E n \in 1 .. tnode : turnaround_time[n] = top
  BY <1>5, <1>6, <1>7, <1>8
<1> QED  BY <1>3, <1>4, <1>8, <1>9, <1>10

LEMMA TraverseBodyResult ==
    ASSUME ResultInv, TimersInv, TraverseBody
    PROVE  ResultInv'
<1> DEFINE top == IF turnaround_time[tnode] > t_max THEN turnaround_time[tnode] ELSE t_max
<1>1. /\ report_pc = "traverse" /\ tnode < TOTAL_PROCESS
      /\ ts' = timespec_add(ts, wall_time[tnode])
      /\ t_avg' = t_avg + turnaround_time[tnode] /\ t_max' = top /\ tnode' = tnode + 1
      /\ UNCHANGED <<processes, timers, report_pc>>
  BY DEF TraverseBody
<1>2. TOTAL_PROCESS \in Nat /\ tnode \in 1 .. TOTAL_PROCESS /\ Walked
  BY <1>1 DEF ResultInv, Nodes
<1>3. /\ t_avg + turnaround_time[tnode] = SumTo(turnaround_time, tnode)
      /\ top \in Nat /\ \A n \in 1 .. tnode : turnaround_time[n] <= top
      /\ top = 0 \/ \E n \in 1 .. tnode : turnaround_time[n] = top
  BY <1>1, NodeTaken
<1>4. ts' \in timespec /\ Nanoseconds(ts') = SumTo(elapsed, tnode)
  <2>1. /\ ts \in timespec /\ Nanoseconds(ts) = SumTo(elapsed, tnode - 1)
        /\ wall_time[tnode] \in timespec /\ Nanoseconds(wall_time[tnode]) = elapsed[tnode]
    BY <1>2 DEF Walked, TimersInv, WallTimeExact, Nodes
  <2>2. tnode \in Nat /\ tnode > 0 /\ \A n \in 1 .. tnode : elapsed[n] \in Int
    BY <1>2 DEF TimersInv, Nodes
  <2>3. SumTo(elapsed, tnode) = SumTo(elapsed, tnode - 1) + elapsed[tnode]
    BY <2>2, SumToStep
  <2> QED  BY <1>1, <2>1, <2>3, AddExact
<1> HIDE DEF top
<1>5. tnode' - 1 = tnode /\ tnode' \in Nodes'
  BY <1>1, <1>2 DEF processes, Nodes
<1>6. Walked'
  BY <1>1, <1>3, <1>4, <1>5 DEF Walked, processes, timers
<1> QED  BY <1>1, <1>2, <1>5, <1>6 DEF ResultInv, PrintedResult, processes, Nodes

(* The division by the number of processes.                                *)
LEMMA MeanRoundsDown ==
    ASSUME NEW a \in Nat, NEW n \in Nat, n > 0
    PROVE  (a \div n) * n <= a /\ a < ((a \div n) + 1) * n
<1>1. (a \div n) * n <= a
  OBVIOUS
<1>2. a < (a \div n) * n + n /\ a \div n \in Int
  OBVIOUS
<1> DEFINE d == a \div n
<1>3. a < d * n + n /\ d \in Int
  BY <1>2
<1> HIDE DEF d
<1>4. a < (d + 1) * n
  BY <1>3
<1> QED  BY <1>1, <1>4 DEF d

LEMMA LastNodeResult ==
    ASSUME ResultInv, TimersInv, LastNode
    PROVE  ResultInv'
<1> DEFINE top == IF turnaround_time[tnode] > t_max THEN turnaround_time[tnode] ELSE t_max
           all == t_avg + turnaround_time[tnode]
           but == [n \in 1 .. TOTAL_PROCESS - 1 |-> elapsed[n]]
<1>1. /\ report_pc = "traverse" /\ tnode = TOTAL_PROCESS /\ report_pc' = "printed"
      /\ t_avg' = all \div TOTAL_PROCESS /\ t_max' = top
      /\ UNCHANGED <<processes, timers, tnode, ts>>
  BY DEF LastNode
<1>2. /\ TOTAL_PROCESS \in Nat /\ TOTAL_PROCESS > 0 /\ Walked
      /\ turnaround_time \in [1 .. TOTAL_PROCESS -> Nat]
  BY <1>1 DEF ResultInv, Nodes
<1>3. /\ all = SumTo(turnaround_time, TOTAL_PROCESS) /\ all \in Nat
      /\ top \in Nat /\ \A n \in 1 .. TOTAL_PROCESS : turnaround_time[n] <= top
      /\ top = 0 \/ \E n \in 1 .. TOTAL_PROCESS : turnaround_time[n] = top
  BY <1>1, NodeTaken
<1>4. all = SumFunction(turnaround_time)
  BY <1>2, <1>3 DEF SumFunction, SumTo
<1> HIDE DEF all, top
<1>5. /\ t_avg' * TOTAL_PROCESS <= all /\ all < (t_avg' + 1) * TOTAL_PROCESS
  BY <1>1, <1>2, <1>3, MeanRoundsDown
<1>6. \E n \in 1 .. TOTAL_PROCESS : turnaround_time[n] = top
  <2>1. CASE top = 0
    <3>1. 1 \in 1 .. TOTAL_PROCESS /\ turnaround_time[1] \in Nat /\ turnaround_time[1] <= top
      BY <1>2, <1>3
    <3> QED  BY <2>1, <3>1
  <2> QED  BY <1>3, <2>1
<1>7. Nanoseconds(ts') = SumFunction(but)
  <2>1. Nanoseconds(ts) = SumTo(elapsed, TOTAL_PROCESS - 1)
    BY <1>1, <1>2 DEF Walked
  <2>2. DOMAIN but = 1 .. TOTAL_PROCESS - 1 /\ \A n \in 1 .. TOTAL_PROCESS - 1 : but[n] = elapsed[n]
    OBVIOUS
  <2> HIDE DEF but
  <2>3. IsFiniteSet(1 .. TOTAL_PROCESS - 1)
    BY <1>2, FS_Interval
  <2>4. SumFunctionOnSet(but, 1 .. TOTAL_PROCESS - 1) =
          SumFunctionOnSet(elapsed, 1 .. TOTAL_PROCESS - 1)
    BY <2>2, <2>3, SumOfSame
  <2> QED  BY <1>1, <2>1, <2>2, <2>4 DEF SumFunction, SumTo
<1>8. PrintedResult'
  <2>1. Nodes' = 1 .. TOTAL_PROCESS /\ UNCHANGED <<TOTAL_PROCESS, turnaround_time, elapsed>>
    BY <1>1 DEF Nodes, processes, timers
  <2> QED  BY <1>1, <1>3, <1>4, <1>5, <1>6, <1>7, <2>1 DEF PrintedResult, but
<1> QED  BY <1>1, <1>8 DEF ResultInv, processes, Nodes

(* Every line counted is parsed when the reader is done.                   *)
BurstCount == pc = "done" => Len(b_data) = t_process

(* Every step of main keeps the result right.                              *)
LEMMA StepResult ==
    ASSUME ResultInv, TimersInv, PhaseInv, TOTAL_PROCESS \in Int, FileTypeOK,
           NaturalLines, ParsedAsFormat, BurstCount,
           [MainNext]_programVars
    PROVE  ResultInv' /\ TOTAL_PROCESS' \in Int
<1>1. CASE UNCHANGED metricsVars
  BY <1>1, KeepsResult DEF metricsVars, processes
<1>2. CASE init_scheduler /\ ~ UNCHANGED metricsVars
  <2>1. pc = "done" /\ report_pc = "schedule"
    BY <1>2 DEF init_scheduler, Goto, PhaseInv
  <2>2. \A j \in 1 .. t_process : Served(j) \in Nat
    BY <2>1, ServedIsNat DEF BurstCount
  <2>3. [j \in 1 .. t_process |-> Served(j)] \in [1 .. t_process -> Nat]
    BY <2>2
  <2>4. \A left \in [1 .. t_process -> Turnarounds] : left \in [1 .. t_process -> Nat]
    BY TurnaroundsAssumption
  <2>5. PICK turnarounds \in [1 .. t_process -> Nat] : Create(t_process, turnarounds)
    BY <1>2, <2>3, <2>4 DEF init_scheduler
  <2>6. TOTAL_PROCESS' \in Int
    BY <2>5 DEF Create, FileTypeOK
  <2> QED  BY <2>1, <2>5, <2>6, CreateResult
<1>3. CASE Serve
  BY <1>3, ServeResult DEF Serve, serve, StartTimer, EndTimer, processes
<1>4. CASE WriteResult
  BY <1>4, CallWriteResultResult, TraverseBodyResult, LastNodeResult
     DEF WriteResult, write_result, CallWriteResult, TraverseBody, LastNode, processes
<1>5. CASE Usage \/ OpenLog \/ OpenFile \/ ArrivalCrash \/ MainReturn
  BY <1>1, <1>5 DEF Usage, OpenLog, OpenFile, ArrivalCrash, MainReturn, MainOnly
<1>6. CASE read_burstfile \/ UNCHANGED programVars
  BY <1>1, <1>6 DEF read_burstfile, programVars
<1> QED  BY <1>2, <1>1, <1>3, <1>4, <1>5, <1>6 DEF MainNext

(* Of a burst file of natural numbers, and whatever the wall clock shows,  *)
(* main prints the mean and the maximum over all nodes of the task list,   *)
(* the one behind write_result's loop included, and the wall time of all   *)
(* of them but that one.                                                   *)
THEOREM ResultCorrect ==
    ASSUME NaturalFiles
    PROVE  MainSpec => []PrintedResult
<1> DEFINE Reader == FileTypeOK /\ NaturalLines /\ ParsedAsFormat /\ BurstCount
           Result == ResultInv /\ TimersInv /\ PhaseInv /\ TOTAL_PROCESS \in Int
<1>1. MainSpec => []Reader
  <2>1. MainSpec => []NaturalLines
    BY MainRunsReader, LinesStayNatural, PTL
  <2>2. MainSpec => []IInv
    BY MainRunsReader, Invariance, PTL
  <2>3. IInv => ParsedAsFormat /\ BurstCount
    BY DEF IInv, Counted, BurstCount
  <2> QED  BY <2>1, <2>2, <2>3, MainRunsReader, FileTypeCorrect, PTL
<1>2. MainInit => Result
  BY MetricsInitInv, MetricsInitResult DEF MainInit, MetricsInit, PhaseInv
<1>3. Result /\ Reader /\ [MainNext]_programVars => Result'
  BY StepInv, StepResult
<1>4. Result => PrintedResult
  BY DEF ResultInv
<1> QED  BY <1>1, <1>2, <1>3, <1>4, PTL DEF MainSpec
=============================================================================
