-------------------------- MODULE SimulatorProofs --------------------------
(***************************************************************************)
(* Proofs about the simulation: what passes through the pipes between      *)
(* Python and the C program, what the frames of the video show, and that   *)
(* the three pools stay alike, since what the commands on their way will   *)
(* make of the C program's buffers is what they have made of the buffers   *)
(* of the two Pools; for logs of any length, any time stamps, any sizes of *)
(* the pipes and any frame rate.                                           *)
(***************************************************************************)
EXTENDS Simulator, FiniteSetTheorems, SequenceTheorems, TLAPS

(* Taking the first line out of a pipe, and putting one in.                *)
LEMMA TakeFirst ==
  ASSUME NEW T, NEW s \in Seq(T), s # <<>>
  PROVE  /\ Head(s) = s[1] /\ Len(s) \in Nat \ {0}
         /\ Tail(s) \in Seq(T) /\ Len(Tail(s)) = Len(s) - 1
         /\ \A k \in 1..Len(s) - 1 : Tail(s)[k] = s[k + 1]
         /\ Tail(s) = <<>> <=> Len(s) = 1
<1>1. Len(s) \in Nat \ {0} /\ Head(s) = s[1]
  OBVIOUS
<1>2. /\ Tail(s) \in Seq(T) /\ Len(Tail(s)) = Len(s) - 1
      /\ \A k \in 1..Len(s) - 1 : Tail(s)[k] = s[k + 1]
  BY HeadTailProperties
<1>3. Tail(s) = <<>> <=> Len(Tail(s)) = 0
  BY <1>2
<1> QED BY <1>1, <1>2, <1>3

(* What putting an element at the end of a pipe does to its entries.       *)
LEMMA PutLast ==
  ASSUME NEW T, NEW s \in Seq(T), NEW x \in T
  PROVE  /\ Append(s, x) \in Seq(T) /\ Append(s, x) # <<>>
         /\ Len(Append(s, x)) = Len(s) + 1 /\ Append(s, x)[Len(s) + 1] = x
         /\ \A k \in 1..Len(s) : Append(s, x)[k] = s[k]
  BY AppendProperties

-----------------------------------------------------------------------------
(* The lines of an answer *)

(* The lines that a dump prints for a finite set of buffers are a sequence.*)
LEMMA SetToSeqIsSeq ==
  ASSUME NEW S, IsFiniteSet(S)
  PROVE  SetToSeq(S) \in Seq(S)
<1>1. Cardinality(S) \in Nat /\ ExistsBijection(1..Cardinality(S), S)
  BY FS_CardinalityType
<1>2. PICK f \in Bijection(1..Cardinality(S), S) : TRUE
  BY <1>1 DEF ExistsBijection
<1>3. f \in [1..Cardinality(S) -> S] /\ IsInjective(f)
  BY <1>2 DEF Bijection, Injection
<1>4. SetToSeq(S) \in [1..Cardinality(S) -> S]
  BY <1>3 DEF SetToSeq
<1> QED BY <1>1, <1>4

(* A dump prints the overflow first, then lines for buffers, and the brace *)
(* last and only there.                                                    *)
AnswerTo(dumped, first) ==
  <<[is |-> "overflow", overflow |-> first]>> \o SetToSeq(dumped) \o <<EndOfReply>>

(* An answer begins with the overflow and ends with the only brace.        *)
LEMMA AnswerShape ==
  ASSUME NEW first \in Nat, NEW D \in SUBSET Part, IsFiniteSet(D)
  PROVE  /\ AnswerTo(D, first) \in Seq(Part \cup {EndOfReply})
         /\ Len(AnswerTo(D, first)) >= 2
         /\ AnswerTo(D, first)[1] = [is |-> "overflow", overflow |-> first]
         /\ \A k \in 1..Len(AnswerTo(D, first)) :
              AnswerTo(D, first)[k] = EndOfReply <=> k = Len(AnswerTo(D, first))
         /\ \A k \in 2..Len(AnswerTo(D, first)) :
              AnswerTo(D, first)[k] = EndOfReply \/ AnswerTo(D, first)[k] \in D
<1> DEFINE P == Part \cup {EndOfReply}
           a == <<[is |-> "overflow", overflow |-> first]>>
           m == SetToSeq(D)
           e == <<EndOfReply>>
<1>1. m \in Seq(D)
  BY SetToSeqIsSeq
<1>2. m \in Seq(Part) /\ Len(m) \in Nat /\ \A k \in 1..Len(m) : m[k] \in Part /\ m[k] \in D
  BY <1>1
<1>3. a \in Seq(Part) /\ Len(a) = 1 /\ a[1] \in Part /\ a[1] = [is |-> "overflow", overflow |-> first]
  BY DEF Part
<1>4. e \in Seq(P) /\ Len(e) = 1 /\ e[1] = EndOfReply
  OBVIOUS
<1>5. EndOfReply \notin Part
  BY DEF Part, EndOfReply
<1> HIDE DEF a, m, e
<1>6. /\ a \o m \in Seq(Part) /\ Len(a \o m) = 1 + Len(m)
      /\ \A k \in 1..Len(a \o m) : (a \o m)[k] = IF k <= 1 THEN a[k] ELSE m[k - 1]
  <2> HIDE DEF P
  <2>1. /\ a \o m \in Seq(Part) /\ Len(a \o m) = Len(a) + Len(m)
        /\ \A k \in 1..Len(a) + Len(m) :
             (a \o m)[k] = IF k <= Len(a) THEN a[k] ELSE m[k - Len(a)]
    BY <1>2, <1>3, ConcatProperties, Zenon
  <2> QED BY <1>3, <2>1
<1>7. a \o m \in Seq(P)
  BY <1>6
<1>8. /\ a \o m \o e \in Seq(P) /\ Len(a \o m \o e) = 2 + Len(m)
      /\ \A k \in 1..Len(a \o m \o e) :
           (a \o m \o e)[k] = IF k <= 1 + Len(m) THEN (a \o m)[k] ELSE e[k - (1 + Len(m))]
  <2> DEFINE am == a \o m
  <2>1. am \in Seq(P) /\ Len(am) = 1 + Len(m)
    BY <1>6, <1>7
  <2> HIDE DEF am, P
  <2>2. /\ am \o e \in Seq(P) /\ Len(am \o e) = Len(am) + Len(e)
        /\ \A k \in 1..Len(am) + Len(e) :
             (am \o e)[k] = IF k <= Len(am) THEN am[k] ELSE e[k - Len(am)]
    BY <1>4, <2>1, ConcatProperties, Zenon
  <2>3. Len(am) + Len(e) = 2 + Len(m)
    BY <1>2, <1>4, <2>1
  <2> QED BY <2>1, <2>2, <2>3 DEF am
<1>9. AnswerTo(D, first) = a \o m \o e
  BY DEF AnswerTo, a, m, e
<1> DEFINE am == a \o m
           w == am \o e
<1>10. /\ Len(w) = 2 + Len(m) /\ w \in Seq(P)
       /\ \A k \in 1..Len(w) : w[k] = IF k <= 1 + Len(m) THEN am[k] ELSE e[k - (1 + Len(m))]
  BY <1>8
<1>11. \A k \in 1..1 + Len(m) : am[k] = IF k <= 1 THEN a[k] ELSE m[k - 1]
  BY <1>6
<1> HIDE DEF w, am, P
<1>12. \A k \in 2..1 + Len(m) : am[k] \in D /\ am[k] \in Part
  BY <1>2, <1>11
<1>13. am[1] = a[1] /\ am[1] \in Part
  BY <1>2, <1>3, <1>11
<1>14. \A k \in 1..Len(w) : IF k <= 1 + Len(m) THEN w[k] = am[k] ELSE k = Len(w) /\ w[k] = EndOfReply
  BY <1>2, <1>4, <1>10
<1>15. \A k \in 2..Len(w) : w[k] = EndOfReply \/ w[k] \in D
  BY <1>2, <1>10, <1>12, <1>14
<1>16. \A k \in 1..Len(w) : w[k] = EndOfReply <=> k = Len(w)
  BY <1>2, <1>5, <1>10, <1>12, <1>13, <1>14
<1>17. w[1] = [is |-> "overflow", overflow |-> first]
  BY <1>2, <1>3, <1>10, <1>13, <1>14
<1>18. AnswerTo(D, first) = w
  BY <1>9 DEF w, am
<1> QED BY <1>2, <1>10, <1>15, <1>16, <1>17, <1>18 DEF P

(* What a dump prints about the buffers that are paged in is a finite set  *)
(* of lines.                                                               *)
Listed(paged_in) ==
  {[is |-> "buffer", name |-> n, in_use |-> c_buffers[n]] : n \in paged_in}

(* The buffers an answer lists are finitely many.                          *)
LEMMA ListedIsFinite ==
  ASSUME ProcTypeOK, NEW paged_in \in SUBSET DOMAIN c_buffers
  PROVE  Listed(paged_in) \in SUBSET Part /\ IsFiniteSet(Listed(paged_in))
<1>1. IsFiniteSet(paged_in)
  BY FS_Subset DEF ProcTypeOK
<1> DEFINE f == [n \in paged_in |->
                   [is |-> "buffer", name |-> n, in_use |-> c_buffers[n]]]
<1>2. f \in Surjection(paged_in, Listed(paged_in))
  BY DEF Surjection, Listed
<1>3. IsFiniteSet(Listed(paged_in))
  <2> HIDE DEF f
  <2> QED BY <1>1, <1>2, FS_Surjection
<1>4. Listed(paged_in) \in SUBSET Part
  BY DEF Listed, Part, ProcTypeOK
<1> QED BY <1>3, <1>4

-----------------------------------------------------------------------------
(* The invariant of the pipes *)

Waiting == call \in {"flush", "reply"}
OnItsWay == from_c # <<>> \/ reply # <<>> \/ parts # <<>>

(* Python asks only to draw a frame, and a call fails only when the C      *)
(* program has died, without an answer.                                    *)
Calls ==
  /\ Waiting => pc = "draw"
  /\ call = "failed" => Ended /\ c = "aborted"
  /\ c = "aborted" => to_c = <<>> /\ ~OnItsWay

(* There is one question at most, and it is the last line on its way.      *)
Questions ==
  /\ \A k \in 1..Len(written) :
       written[k] = Dump <=> call = "flush" /\ k = Len(written)
  /\ \A k \in 1..Len(to_c) :
       to_c[k] = Dump <=> Waiting /\ written = <<>> /\ k = Len(to_c)
  /\ call = "reply" => written = <<>>

(* An answer follows the question once the C program has taken it.  Its    *)
(* first line is the overflow after all commands, its last line the brace. *)
FirstPart == [is |-> "overflow", overflow |-> c_line]
Answers ==
  /\ OnItsWay => Waiting /\ written = <<>> /\ to_c = <<>>
  /\ c = "replying" <=> reply # <<>>
  /\ \A k \in 1..Len(reply) : reply[k] = EndOfReply <=> k = Len(reply)
  /\ \A k \in 1..Len(from_c) :
       from_c[k] = EndOfReply <=> reply = <<>> /\ k = Len(from_c)
  /\ parts # <<>> => parts[1] = FirstPart
  /\ parts = <<>> /\ from_c # <<>> => from_c[1] = FirstPart
  /\ parts = <<>> /\ from_c = <<>> /\ reply # <<>> => reply[1] = FirstPart

(* No command is lost: as long as the C program runs, those it has not     *)
(* applied are on their way; and an answer that is kept is up to date.     *)
Count ==
  /\ c # "aborted" =>
       applied[3] + (IF Waiting /\ (written # <<>> \/ to_c # <<>>) THEN 1 ELSE 0)
         = c_line + Len(to_c) + Len(written)
  /\ answer # None => overflow = applied[3]

(* Only a line of the log is applied.                                      *)
InHand == pc \in {"dup", "apply"} => line \in Command

(* There is a picture to repeat whenever one is repeated.                  *)
Drawn == pc \in {"dup", "hold"} => surface \in Nat \X Nat \X Nat

-----------------------------------------------------------------------------
(* Types *)

(* The programs start well-typed,                                          *)
LEMMA InitTypes == Init => TypeOK
<1> SUFFICES ASSUME Init PROVE TypeOK
  OBVIOUS
<1> USE ProcPoolConstants, SimulatorConstants DEF Init, ProcInit
<1>1. ProcTypeOK
  <2>1. IsFiniteSet(DOMAIN c_buffers)
    BY FS_EmptySet
  <2> QED BY <2>1 DEF ProcTypeOK
<1>2. pools \in [1..2 -> UNION {[live -> BOOLEAN] : live \in SUBSET Name}]
  <2>1. [n \in {} |-> FALSE] \in [{} -> BOOLEAN] /\ {} \in SUBSET Name
    OBVIOUS
  <2> QED BY <2>1
<1> QED BY <1>1, <1>2 DEF TypeOK

(* The calls of the ProcPool keep the types; that an answer starts with    *)
(* the overflow is not for the types alone to say.                         *)
LEMMA CallTypes ==
  ASSUME ProcTypeOK, Answers,
         \/ \E m \in Command : ProcessCommand(m)
         \/ AskForDump \/ WriteOut(Ended) \/ WriteFails(Ended) \/ Flushed
         \/ ReadPart \/ ReadLastPart \/ ReplyCutOff
  PROVE  ProcTypeOK'
<1> USE ProcPoolConstants DEF pipeVars, cVars
<1>1. CASE \E m \in Command : ProcessCommand(m)
  BY <1>1 DEF ProcessCommand, ProcTypeOK
<1>2. CASE AskForDump
  BY <1>2 DEF AskForDump, ProcTypeOK
<1>3. CASE WriteOut(Ended)
  <2>1. /\ Head(written) \in Command \cup {Dump}
        /\ Tail(written) \in Seq(Command \cup {Dump}) /\ Len(Tail(written)) = Len(written) - 1
    BY <1>3, HeadTailProperties DEF WriteOut, MustWrite, ProcTypeOK
  <2> QED BY <1>3, <2>1 DEF WriteOut, ProcTypeOK
<1>4. CASE WriteFails(Ended)
  BY <1>4 DEF WriteFails, ProcTypeOK
<1>5. CASE Flushed
  BY <1>5 DEF Flushed, ProcTypeOK
<1>6. CASE ReadPart
  <2>1. /\ Head(from_c) \in Part
        /\ Tail(from_c) \in Seq(Part \cup {EndOfReply}) /\ Len(Tail(from_c)) = Len(from_c) - 1
    BY <1>6, HeadTailProperties DEF ReadPart, LastPart, ProcTypeOK
  <2> QED BY <1>6, <2>1 DEF ReadPart, ProcTypeOK
<1>7. CASE ReadLastPart
  <2>1. Tail(from_c) \in Seq(Part \cup {EndOfReply}) /\ Len(Tail(from_c)) = Len(from_c) - 1
    BY <1>7, HeadTailProperties DEF ReadLastPart, ProcTypeOK
  <2>2. from_c # <<>> /\ from_c[1] = EndOfReply
    BY <1>7 DEF ReadLastPart, LastPart, ProcTypeOK
  <2>3. parts # <<>>
    BY <2>2 DEF Answers, FirstPart, EndOfReply
  <2>4. parts[1].overflow \in Nat
    BY <2>3 DEF Answers, FirstPart, ProcTypeOK
  <2> QED BY <1>7, <2>1, <2>4 DEF ReadLastPart, ProcTypeOK
<1>8. CASE ReplyCutOff
  BY <1>8 DEF ReplyCutOff, ProcTypeOK
<1> QED BY <1>1, <1>2, <1>3, <1>4, <1>5, <1>6, <1>7, <1>8

(* So do the steps of the C program.                                       *)
LEMMA CStepTypes ==
  ASSUME ProcTypeOK, Answers, CStep \/ CEndOfFile
  PROVE  ProcTypeOK'
<1> USE ProcPoolConstants DEF pipeVars, cVars
<1>1. to_c # <<>> => /\ Head(to_c) \in Command \cup {Dump}
                     /\ Tail(to_c) \in Seq(Command \cup {Dump})
                     /\ Len(Tail(to_c)) = Len(to_c) - 1
  BY HeadTailProperties DEF ProcTypeOK
<1>2. CASE CApply
  <2>1. Head(to_c) \in Command
    BY <1>1, <1>2 DEF CApply
  <2> DEFINE m == Head(to_c)
             n == LowName(m.buf_id)
  <2>2. n \in Nat
    <3>1. m.buf_id \in Nat
      BY <2>1 DEF Command
    <3> HIDE DEF m
    <3> QED BY <3>1 DEF LowName
  <2>3. IsFiniteSet(DOMAIN c_buffers \cup {n}) /\ IsFiniteSet(DOMAIN c_buffers \ {n})
    BY FS_AddElement, FS_RemoveElement DEF ProcTypeOK
  <2>4. /\ DOMAIN c_buffers' \in {DOMAIN c_buffers, DOMAIN c_buffers \cup {n}, DOMAIN c_buffers \ {n}}
        /\ \A x \in DOMAIN c_buffers' : x \in Nat /\ c_buffers'[x] \in BOOLEAN
    <3> HIDE DEF n
    <3>1. c_buffers' = AfterInC(c_buffers, m) /\ n = LowName(m.buf_id)
      BY <1>2 DEF CApply, n
    <3> HIDE DEF m
    <3> DEFINE old == DOMAIN c_buffers
    <3>2. /\ \A x \in old : x \in Nat /\ c_buffers[x] \in BOOLEAN
          /\ n \in Nat
      BY <2>2 DEF ProcTypeOK
    <3>3. \/ c_buffers' = [x \in old \cup {n} |-> IF x \in old THEN c_buffers[x] ELSE FALSE]
          \/ c_buffers' = [x \in old \ {n} |-> c_buffers[x]]
          \/ n \in old /\ c_buffers' = [c_buffers EXCEPT ![n] = TRUE]
          \/ n \in old /\ c_buffers' = [c_buffers EXCEPT ![n] = FALSE]
          \/ c_buffers' = c_buffers
      BY <3>1, Zenon DEF AfterInC
    <3> QED BY <3>2, <3>3
  <2>5. IsFiniteSet(DOMAIN c_buffers')
    BY <2>3, <2>4 DEF ProcTypeOK
  <2> QED BY <1>1, <1>2, <2>4, <2>5 DEF CApply, ProcTypeOK
<1>3. CASE CAbort
  BY <1>3 DEF CAbort, ProcTypeOK
<1>4. CASE CDump
  <2>1. PICK paged_in \in SUBSET DOMAIN c_buffers :
               reply' = AnswerTo(Listed(paged_in), c_line)
    BY <1>4 DEF CDump, AnswerTo, Listed
  <2>2. reply' \in Seq(Part \cup {EndOfReply})
    BY <2>1, ListedIsFinite, AnswerShape DEF ProcTypeOK
  <2> QED BY <1>1, <1>4, <2>2 DEF CDump, ProcTypeOK
<1>5. CASE CReply
  <2>1. reply # <<>>
    BY <1>5 DEF CReply, Answers
  <2>2. Head(reply) \in Part \cup {EndOfReply} /\ Tail(reply) \in Seq(Part \cup {EndOfReply})
    BY <2>1, HeadTailProperties DEF ProcTypeOK
  <2> QED BY <1>5, <2>2 DEF CReply, ProcTypeOK
<1>6. CASE CEndOfFile
  BY <1>6 DEF CEndOfFile, ProcTypeOK
<1> QED BY <1>2, <1>3, <1>4, <1>5, <1>6 DEF CStep

(* What a command makes of a Pool is a set of buffers again.               *)
LEMMA PoolTypes ==
  ASSUME TypeOK, InHand, ApplyToPool
  PROVE  (pools \in [1..2 -> UNION {[live -> BOOLEAN] : live \in SUBSET Name}])'
<1> DEFINE Buffers == UNION {[live -> BOOLEAN] : live \in SUBSET Name}
           n == line.buf_id
           bufs == pools[turn]
<1>1. turn \in 1..2 /\ n \in Name /\ pools \in [1..2 -> Buffers]
  <2>1. line \in Command
    BY DEF ApplyToPool, InHand
  <2> QED BY <2>1 DEF ApplyToPool, TypeOK, Command
<1>2. PICK live \in SUBSET Name : bufs \in [live -> BOOLEAN]
  BY <1>1
<1>3. DOMAIN bufs = live
  BY <1>2
<1>4. \/ After(bufs, line) = [x \in live \cup {n} |-> IF x = n THEN FALSE ELSE bufs[x]]
      \/ After(bufs, line) = [x \in live \ {n} |-> bufs[x]]
      \/ After(bufs, line) = [bufs EXCEPT ![n] = TRUE]
      \/ After(bufs, line) = [bufs EXCEPT ![n] = FALSE]
      \/ After(bufs, line) = bufs
  BY <1>3, Zenon DEF After
<1>5. \/ After(bufs, line) \in [live \cup {n} -> BOOLEAN]
      \/ After(bufs, line) \in [live \ {n} -> BOOLEAN]
      \/ After(bufs, line) \in [live -> BOOLEAN]
  <2> HIDE DEF n, bufs
  <2> QED BY <1>2, <1>4
<1>6. After(bufs, line) \in Buffers
  BY <1>1, <1>5
<1>7. pools' = [pools EXCEPT ![turn] = After(bufs, line)]
  BY DEF ApplyToPool
<1> HIDE DEF Buffers, bufs
<1>8. pools' \in [1..2 -> Buffers]
  BY <1>1, <1>6, <1>7
<1> QED BY <1>8 DEF Buffers

(* Every step keeps the types.                                             *)
LEMMA NextTypes ==
  ASSUME TypeOK, Answers, InHand, Drawn, [Next]_vars
  PROVE  TypeOK'
<1> USE ProcPoolConstants, SimulatorConstants
<1>1. ProcTypeOK'
  <2>1. CASE UNCHANGED procVars
    BY <2>1 DEF TypeOK, ProcTypeOK, procVars
  <2>2. CASE \/ \E m \in Command : ProcessCommand(m)
             \/ AskForDump \/ WriteOut(Ended) \/ WriteFails(Ended) \/ Flushed
             \/ ReadPart \/ ReadLastPart \/ ReplyCutOff
    BY <2>2, CallTypes DEF TypeOK
  <2>3. CASE CStep \/ CEndOfFile
    BY <2>3, CStepTypes DEF TypeOK
  <2>4. ASSUME ApplyToProcPool PROVE \E m \in Command : ProcessCommand(m)
    <3>1. ProcessCommand(line) /\ line \in Command
      BY <2>4 DEF ApplyToProcPool, InHand
    <3> QED BY <3>1, Zenon
  <2> QED
    BY <2>1, <2>2, <2>3, <2>4, Zenon
    DEF Next, Main, CProgram, ProcStep, vars, ReadLine, EndOfLog, Ask, Draw, DuplicateFrame,
        CaughtUp, HoldFrame, Finish, ApplyToPool, PoolRaises
<1>2. (pools \in [1..2 -> UNION {[live -> BOOLEAN] : live \in SUBSET Name}])'
  <2>1. CASE ApplyToPool
    BY <2>1, PoolTypes
  <2>2. CASE UNCHANGED pools
    BY <2>2 DEF TypeOK
  <2> QED
    BY <2>1, <2>2, Zenon
    DEF Next, Main, CProgram, ProcStep, vars, mainVars, ReadLine, EndOfLog, Ask, Draw,
        DuplicateFrame, CaughtUp, HoldFrame, Finish, PoolRaises, ApplyToProcPool
<1> DEFINE Rest == /\ pc \in {"read", "draw", "dup", "apply", "hold", "done", "raised"}
                   /\ times \in Seq(Int) /\ Len(times) <= MaxLines
                   /\ line \in Command \cup {None}
                   /\ turn \in 1..3 /\ hold \in 0..FrameRate - 1
                   /\ applied \in [1..3 -> Nat]
                   /\ frames \in Seq(Nat \X Nat \X Nat)
<1> SUFFICES Rest'
  BY <1>1, <1>2 DEF TypeOK
<1>3. Rest
  BY DEF TypeOK
<1>4. CASE UNCHANGED mainVars
  BY <1>3, <1>4 DEF mainVars
<1>5. CASE \E m \in Command, step \in Steps : ReadLine(m, step)
  <2>1. PICK m \in Command, step \in Steps : ReadLine(m, step)
    BY <1>5
  <2>2. Time(step) \in Int
    BY <1>3 DEF Time
  <2> QED BY <1>3, <2>1, <2>2 DEF ReadLine
<1>6. CASE EndOfLog \/ CaughtUp \/ Finish \/ PoolRaises
  BY <1>3, <1>6 DEF EndOfLog, CaughtUp, Finish, PoolRaises
<1>7. CASE Draw
  <2>1. Picture \in Nat \X Nat \X Nat
    BY SMTT(30), <1>3 DEF Picture, TypeOK, ProcTypeOK
  <2> QED BY <1>3, <1>7, <2>1 DEF Draw
<1>8. CASE DuplicateFrame \/ HoldFrame
  <2>1. surface \in Nat \X Nat \X Nat /\ frames' = Append(frames, surface)
    BY <1>8 DEF DuplicateFrame, HoldFrame, Drawn
  <2>2. frames' \in Seq(Nat \X Nat \X Nat)
    BY <1>3, <2>1
  <2>3. hold' \in 0..FrameRate - 1
    BY SMTT(30), <1>3, <1>8 DEF DuplicateFrame, HoldFrame
  <2> QED BY <1>3, <1>8, <2>2, <2>3 DEF DuplicateFrame, HoldFrame
<1>9. CASE ApplyToPool
  BY <1>3, <1>9 DEF ApplyToPool
<1>10. CASE ApplyToProcPool
  BY <1>3, <1>10 DEF ApplyToProcPool
<1>11. CASE ProcStep
  BY <1>3, <1>11 DEF ProcStep
<1> QED
  BY <1>4, <1>5, <1>6, <1>7, <1>8, <1>9, <1>10, <1>11 DEF Next, Main, CProgram, Ask, vars

-----------------------------------------------------------------------------
(* The pipes *)

PipeInv == Calls /\ Questions /\ Answers /\ Count

(* with nothing in the pipes,                                              *)
LEMMA InitPipes == Init => InHand /\ Drawn /\ PipeInv
  BY DEF Init, ProcInit, InHand, Drawn, PipeInv, Calls, Questions, Answers, Count, Waiting,
         OnItsWay

(* The steps of Python.                                                    *)
LEMMA ProcessCommandPipes ==
  ASSUME TypeOK, PipeInv, NEW m \in Command, ProcessCommand(m), pc # "draw",
         applied' = [applied EXCEPT ![3] = @ + 1]
  PROVE  PipeInv'
<1>1. m # Dump /\ written \in Seq(Command \cup {Dump})
  BY DEF Command, Cmds, Dump, TypeOK, ProcTypeOK
<1>2. /\ Len(written') = Len(written) + 1 /\ written'[Len(written')] = m
      /\ written' # <<>>
      /\ \A k \in 1..Len(written) : written'[k] = written[k]
  BY <1>1 DEF ProcessCommand
<1>3. call = "none" /\ call' = "none" /\ ~OnItsWay /\ ~OnItsWay'
  BY DEF ProcessCommand, PipeInv, Answers, Waiting, OnItsWay, cVars
<1>4. applied'[3] = applied[3] + 1
  BY DEF TypeOK
<1>5. Calls'
  BY <1>3 DEF PipeInv, Calls, Waiting, ProcessCommand, cVars
<1>6. Questions'
  BY SMTT(30), <1>1, <1>2, <1>3 DEF PipeInv, Questions, Waiting, ProcessCommand, TypeOK, ProcTypeOK
<1>7. Answers'
  BY <1>3 DEF PipeInv, Answers, OnItsWay, Waiting, ProcessCommand, cVars
<1>8. Count'
  BY <1>2, <1>3, <1>4
  DEF PipeInv, Count, Waiting, ProcessCommand, cVars, TypeOK, ProcTypeOK
<1> QED BY <1>5, <1>6, <1>7, <1>8 DEF PipeInv

(* paged_in_buffers writes the dump behind every command.                  *)
LEMMA AskForDumpPipes ==
  ASSUME TypeOK, PipeInv, AskForDump, pc = "draw", pc' = pc, applied' = applied
  PROVE  PipeInv'
<1>1. written \in Seq(Command \cup {Dump})
  BY DEF TypeOK, ProcTypeOK
<1>2. /\ Len(written') = Len(written) + 1 /\ written'[Len(written')] = Dump
      /\ written' # <<>>
      /\ \A k \in 1..Len(written) : written'[k] = written[k]
  BY <1>1 DEF AskForDump
<1>3. call = "none" /\ call' = "flush" /\ ~OnItsWay /\ ~OnItsWay'
  BY DEF AskForDump, PipeInv, Answers, Waiting, OnItsWay, cVars
<1>5. Calls'
  BY <1>3 DEF PipeInv, Calls, Waiting, AskForDump, cVars
<1>6. Questions'
  <2>1. \A k \in 1..Len(written) : written[k] # Dump
    BY <1>3 DEF PipeInv, Questions
  <2>2. (\A k \in 1..Len(written) : written[k] = Dump <=> call = "flush" /\ k = Len(written))'
    BY <1>1, <1>2, <1>3, <2>1
  <2>3. \A k \in 1..Len(to_c) : to_c[k] # Dump
    BY <1>3 DEF PipeInv, Questions, Waiting
  <2> QED BY <1>2, <1>3, <2>2, <2>3 DEF Questions, AskForDump
<1>7. Answers'
  BY <1>3 DEF PipeInv, Answers, OnItsWay, Waiting, AskForDump, cVars
<1>8. Count'
  BY <1>2, <1>3
  DEF PipeInv, Count, Waiting, AskForDump, cVars, TypeOK, ProcTypeOK
<1> QED BY <1>5, <1>6, <1>7, <1>8 DEF PipeInv

(* Lines that pass from Python's buffer to the pipe keep their order.      *)
LEMMA WriteOutPipes ==
  ASSUME TypeOK, PipeInv, WriteOut(Ended), pc' = pc, applied' = applied
  PROVE  PipeInv'
<1>1. /\ written \in Seq(Command \cup {Dump}) /\ to_c \in Seq(Command \cup {Dump})
      /\ written # <<>>
  BY DEF TypeOK, ProcTypeOK, WriteOut, MustWrite
<1>2. /\ Len(written') = Len(written) - 1
      /\ \A k \in 1..Len(written') : written'[k] = written[k + 1]
      /\ written' = <<>> <=> Len(written) = 1
  BY <1>1, TakeFirst DEF WriteOut
<1>3. /\ Len(to_c') = Len(to_c) + 1 /\ to_c'[Len(to_c')] = written[1]
      /\ to_c' # <<>>
      /\ \A k \in 1..Len(to_c) : to_c'[k] = to_c[k]
  BY <1>1 DEF WriteOut
<1>4. ~OnItsWay /\ ~OnItsWay' /\ call' = call /\ Waiting' = Waiting
  BY <1>1 DEF PipeInv, Answers, OnItsWay, WriteOut, cVars, Waiting
<1>5. Calls'
  BY <1>4 DEF PipeInv, Calls, Waiting, WriteOut, cVars
<1>6. Questions'
  <2>1. (\A k \in 1..Len(written) : written[k] = Dump <=> call = "flush" /\ k = Len(written))'
    BY <1>1, <1>2, <1>4 DEF PipeInv, Questions
  <2>2. (\A k \in 1..Len(to_c) : to_c[k] = Dump <=> Waiting /\ written = <<>> /\ k = Len(to_c))'
    BY <1>1, <1>2, <1>3, <1>4 DEF PipeInv, Questions, Waiting
  <2>3. call' = "reply" => written' = <<>>
    BY <1>1, <1>4 DEF PipeInv, Questions
  <2> QED BY <2>1, <2>2, <2>3 DEF Questions
<1>7. Answers'
  BY <1>4 DEF PipeInv, Answers, OnItsWay, WriteOut, cVars
<1>8. Count'
  BY <1>1, <1>2, <1>3, <1>4
  DEF PipeInv, Count, WriteOut, cVars, TypeOK, ProcTypeOK
<1> QED BY <1>5, <1>6, <1>7, <1>8 DEF PipeInv

(* A write to or read from a C program that has gone ends the call.        *)
LEMMA FailurePipes ==
  ASSUME TypeOK, PipeInv, WriteFails(Ended) \/ ReplyCutOff,
         pc' = IF Ended THEN pc ELSE "raised", applied' = applied
  PROVE  PipeInv'
<1>1. call' = "failed" /\ c = "aborted" /\ Ended'
  BY DEF WriteFails, ReplyCutOff, Ended
<1>2. ~OnItsWay /\ ~OnItsWay' /\ to_c = <<>> /\ written' = <<>> /\ ~Waiting'
  BY <1>1 DEF PipeInv, Calls, Questions, WriteFails, ReplyCutOff, OnItsWay, Waiting, cVars, pipeVars
<1>3. UNCHANGED <<to_c, from_c, parts, answer, overflow, cVars>>
  BY DEF WriteFails, ReplyCutOff, pipeVars
<1> QED
  BY <1>1, <1>2, <1>3 DEF PipeInv, Calls, Questions, Answers, Count, OnItsWay, cVars

(* After the flush the dump is on its way.                                 *)
LEMMA FlushedPipes ==
  ASSUME TypeOK, PipeInv, Flushed, pc' = pc, applied' = applied
  PROVE  PipeInv'
<1>1. /\ call = "flush" /\ call' = "reply" /\ written = <<>> /\ Waiting /\ Waiting'
      /\ OnItsWay' = OnItsWay
      /\ UNCHANGED <<written, to_c, from_c, parts, answer, overflow, c, c_line, reply>>
  BY DEF Flushed, Waiting, OnItsWay, cVars, pipeVars
<1> QED
  BY <1>1 DEF PipeInv, Calls, Questions, Answers, Count, FirstPart

(* A line of the answer that is not the last one is kept.                  *)
LEMMA ReadPartPipes ==
  ASSUME TypeOK, PipeInv, ReadPart, pc' = pc, applied' = applied
  PROVE  PipeInv'
<1>1. /\ from_c \in Seq(Part \cup {EndOfReply}) /\ from_c # <<>> /\ from_c[1] # EndOfReply
      /\ parts \in Seq(Part)
  BY DEF ReadPart, LastPart, TypeOK, ProcTypeOK
<1>2. /\ Len(from_c') = Len(from_c) - 1
      /\ \A k \in 1..Len(from_c') : from_c'[k] = from_c[k + 1]
      /\ from_c' = <<>> <=> Len(from_c) = 1
      /\ from_c[1] \in Part /\ parts' = Append(parts, from_c[1])
  BY <1>1, TakeFirst DEF ReadPart
<1>3. /\ parts' # <<>> /\ (parts # <<>> => parts'[1] = parts[1])
      /\ (parts = <<>> => parts'[1] = from_c[1])
  <2> DEFINE x == from_c[1]
  <2> HIDE DEF x
  <2>1. parts' = Append(parts, x) /\ x \in Part
    BY <1>2 DEF x
  <2>2. /\ parts' # <<>> /\ parts'[Len(parts) + 1] = x
        /\ \A k \in 1..Len(parts) : parts'[k] = parts[k]
    BY <1>1, <2>1, PutLast
  <2> QED BY <1>1, <2>2 DEF x
<1>4. OnItsWay /\ OnItsWay'
  BY <1>1, <1>3 DEF OnItsWay
<1>5. UNCHANGED <<call, written, to_c, answer, overflow, c, c_line, reply>> /\ Waiting' = Waiting
  BY DEF ReadPart, cVars, Waiting
<1>6. Answers'
  <2>1. (\A k \in 1..Len(from_c) : from_c[k] = EndOfReply <=> reply = <<>> /\ k = Len(from_c))'
    BY <1>1, <1>2, <1>5 DEF PipeInv, Answers
  <2>2. parts'[1] = FirstPart
    BY <1>1, <1>3 DEF PipeInv, Answers
  <2>3. FirstPart' = FirstPart
    BY <1>5 DEF FirstPart
  <2> QED BY <1>3, <1>4, <1>5, <2>1, <2>2, <2>3 DEF PipeInv, Answers
<1> QED
  BY <1>4, <1>5, <1>6 DEF PipeInv, Calls, Questions, Count

(* The brace ends the answer, and nothing is left in the pipe.             *)
LEMMA ReadLastPartPipes ==
  ASSUME TypeOK, PipeInv, ReadLastPart, pc' = pc, applied' = applied
  PROVE  PipeInv'
<1>1. /\ from_c \in Seq(Part \cup {EndOfReply}) /\ from_c # <<>> /\ from_c[1] = EndOfReply
      /\ Len(from_c) \in Nat \ {0}
  BY DEF ReadLastPart, LastPart, TypeOK, ProcTypeOK
<1>2. Len(from_c) = 1 /\ reply = <<>>
  BY <1>1 DEF PipeInv, Answers
<1>3. from_c' = <<>> /\ parts' = <<>> /\ call' = "none"
  BY <1>1, <1>2, TakeFirst DEF ReadLastPart
<1>4. FirstPart # EndOfReply
  BY DEF FirstPart, EndOfReply
<1>5. parts # <<>> /\ parts[1] = FirstPart
  BY <1>1, <1>4 DEF PipeInv, Answers
<1>6. OnItsWay /\ ~OnItsWay' /\ Waiting /\ ~Waiting'
  BY <1>1, <1>2, <1>3 DEF OnItsWay, Waiting, ReadLastPart, cVars
<1>7. written = <<>> /\ to_c = <<>> /\ c # "aborted"
  BY <1>6 DEF PipeInv, Answers, Calls
<1>8. overflow' = applied[3]
  <2>1. overflow' = c_line
    BY <1>5 DEF ReadLastPart, FirstPart
  <2> QED BY <1>7, <2>1 DEF PipeInv, Count, TypeOK, ProcTypeOK
<1>9. UNCHANGED <<written, to_c, c, c_line, reply>>
  BY DEF ReadLastPart, cVars
<1> QED
  BY <1>2, <1>3, <1>6, <1>7, <1>8, <1>9
  DEF PipeInv, Calls, Questions, Answers, Count, TypeOK, ProcTypeOK

(* The steps of the C program.                                             *)
LEMMA CApplyPipes ==
  ASSUME TypeOK, PipeInv, CApply, pc' = pc, applied' = applied
  PROVE  PipeInv'
<1>1. to_c \in Seq(Command \cup {Dump}) /\ to_c # <<>> /\ to_c[1] # Dump
  BY DEF CApply, TypeOK, ProcTypeOK
<1>2. /\ Len(to_c') = Len(to_c) - 1 /\ Len(to_c) \in Nat \ {0}
      /\ \A k \in 1..Len(to_c') : to_c'[k] = to_c[k + 1]
      /\ to_c' = <<>> <=> Len(to_c) = 1
  BY <1>1, TakeFirst DEF CApply
<1>3. ~OnItsWay /\ ~OnItsWay' /\ Waiting' = Waiting
  BY <1>1 DEF PipeInv, Answers, OnItsWay, CApply, Waiting
<1>4. /\ UNCHANGED <<call, written, from_c, parts, answer, overflow, c, reply>>
      /\ c_line' = c_line + 1 /\ c = "reading"
  BY DEF CApply
<1>5. Waiting /\ written = <<>> => to_c' # <<>>
  BY <1>1, <1>2 DEF PipeInv, Questions
<1>6. Questions'
  BY <1>1, <1>2, <1>3, <1>4 DEF PipeInv, Questions
<1>7. Count'
  <2>1. (Waiting /\ (written # <<>> \/ to_c # <<>>))' = (Waiting /\ (written # <<>> \/ to_c # <<>>))
    BY <1>1, <1>3, <1>4, <1>5
  <2>2. /\ Len(to_c') = Len(to_c) - 1 /\ Len(to_c) \in Nat /\ Len(written') = Len(written)
        /\ Len(written) \in Nat /\ c_line \in Nat /\ applied[3] \in Nat
    BY <1>2, <1>4 DEF TypeOK, ProcTypeOK
  <2> QED BY <1>4, <2>1, <2>2 DEF PipeInv, Count
<1> QED
  BY <1>3, <1>4, <1>6, <1>7 DEF PipeInv, Calls, Answers, OnItsWay

(* An assertion that fails loses what is in the pipe to the C program.     *)
LEMMA CAbortPipes ==
  ASSUME TypeOK, PipeInv, CAbort, pc' = pc, applied' = applied
  PROVE  PipeInv'
<1>1. to_c # <<>> /\ to_c' = <<>> /\ c' = "aborted"
  BY DEF CAbort
<1>2. ~OnItsWay /\ ~OnItsWay' /\ Waiting' = Waiting
  BY <1>1 DEF PipeInv, Answers, OnItsWay, CAbort, Waiting
<1>3. UNCHANGED <<call, written, from_c, parts, answer, overflow, reply>>
  BY DEF CAbort
<1>4. call # "failed"
  BY <1>1 DEF PipeInv, Calls, CAbort
<1> QED
  BY <1>1, <1>2, <1>3, <1>4 DEF PipeInv, Calls, Questions, Answers, Count, OnItsWay

(* The C program answers when all commands before the dump have been       *)
(* applied.                                                                *)
LEMMA CDumpPipes ==
  ASSUME TypeOK, PipeInv, CDump, pc' = pc, applied' = applied
  PROVE  PipeInv'
<1>1. /\ to_c \in Seq(Command \cup {Dump}) /\ to_c # <<>> /\ to_c[1] = Dump
      /\ Len(to_c) \in Nat \ {0}
  BY DEF CDump, TypeOK, ProcTypeOK
<1>2. Waiting /\ written = <<>> /\ Len(to_c) = 1
  <2>1. 1 \in 1..Len(to_c)
    BY <1>1
  <2> QED BY <1>1, <2>1 DEF PipeInv, Questions
<1>3. to_c' = <<>>
  BY <1>1, <1>2, TakeFirst DEF CDump
<1>4. ~OnItsWay
  BY <1>1 DEF PipeInv, Answers
<1>5. PICK paged_in \in SUBSET DOMAIN c_buffers :
             reply' = AnswerTo(Listed(paged_in), c_line)
  BY DEF CDump, AnswerTo, Listed
<1>6. /\ reply' \in Seq(Part \cup {EndOfReply}) /\ Len(reply') >= 2
      /\ reply'[1] = FirstPart
      /\ \A k \in 1..Len(reply') : reply'[k] = EndOfReply <=> k = Len(reply')
  BY <1>5, ListedIsFinite, AnswerShape DEF TypeOK, ProcTypeOK, FirstPart
<1>7. reply' # <<>>
  BY <1>6
<1>8. /\ UNCHANGED <<call, written, from_c, parts, answer, overflow, c_line>>
      /\ Waiting' = Waiting /\ c' = "replying" /\ c = "reading" /\ FirstPart' = FirstPart
  BY DEF CDump, Waiting, FirstPart
<1>9. Answers'
  BY <1>2, <1>3, <1>4, <1>6, <1>7, <1>8 DEF Answers, OnItsWay
<1>10. Count'
  <2>1. applied[3] = c_line
    <3>1. applied[3] + 1 = c_line + 1 + Len(written)
      BY <1>1, <1>2, <1>8 DEF PipeInv, Count
    <3>2. Len(written) = 0 /\ c_line \in Nat /\ applied[3] \in Nat
      BY <1>2 DEF TypeOK, ProcTypeOK
    <3> QED BY <3>1, <3>2
  <2>2. (IF Waiting /\ (written # <<>> \/ to_c # <<>>) THEN 1 ELSE 0)' = 0
    BY <1>2, <1>3, <1>8
  <2>3. Len(to_c') = 0 /\ Len(written') = 0 /\ c_line \in Nat
    BY <1>2, <1>3, <1>8 DEF TypeOK, ProcTypeOK
  <2> QED BY <1>8, <2>1, <2>2, <2>3 DEF PipeInv, Count
<1>11. Calls' /\ Questions'
  BY <1>2, <1>3, <1>8 DEF PipeInv, Calls, Questions
<1> QED BY <1>9, <1>10, <1>11 DEF PipeInv

(* The lines of an answer enter the pipe in order.                         *)
LEMMA CReplyPipes ==
  ASSUME TypeOK, PipeInv, CReply, pc' = pc, applied' = applied
  PROVE  PipeInv'
<1>1. /\ reply \in Seq(Part \cup {EndOfReply}) /\ reply # <<>>
      /\ from_c \in Seq(Part \cup {EndOfReply})
  BY DEF CReply, PipeInv, Answers, TypeOK, ProcTypeOK
<1>2. /\ Len(reply') = Len(reply) - 1 /\ Len(reply) \in Nat \ {0}
      /\ \A k \in 1..Len(reply') : reply'[k] = reply[k + 1]
      /\ reply' = <<>> <=> Len(reply) = 1
      /\ reply[1] \in Part \cup {EndOfReply} /\ from_c' = Append(from_c, reply[1])
  BY <1>1, TakeFirst DEF CReply
<1>3. /\ from_c' # <<>> /\ Len(from_c') = Len(from_c) + 1
      /\ from_c'[Len(from_c) + 1] = reply[1]
      /\ \A k \in 1..Len(from_c) : from_c'[k] = from_c[k]
  <2> DEFINE x == reply[1]
  <2> HIDE DEF x
  <2>1. from_c' = Append(from_c, x) /\ x \in Part \cup {EndOfReply}
    BY <1>2 DEF x
  <2>2. /\ from_c' # <<>> /\ Len(from_c') = Len(from_c) + 1
        /\ from_c'[Len(from_c) + 1] = x
        /\ \A k \in 1..Len(from_c) : from_c'[k] = from_c[k]
    BY <1>1, <2>1, PutLast
  <2> QED BY <2>2 DEF x
<1>4. OnItsWay /\ OnItsWay' /\ Waiting /\ written = <<>> /\ to_c = <<>>
  BY <1>1, <1>3 DEF OnItsWay, PipeInv, Answers
<1>5. /\ UNCHANGED <<call, written, to_c, parts, answer, overflow, c_line>>
      /\ Waiting' = Waiting /\ FirstPart' = FirstPart
      /\ c = "replying" /\ c' = IF Len(reply) = 1 THEN "reading" ELSE c
  BY DEF CReply, Waiting, FirstPart
<1>6. Answers'
  <2>1. (\A k \in 1..Len(reply) : reply[k] = EndOfReply <=> k = Len(reply))'
    BY <1>1, <1>2 DEF PipeInv, Answers
  <2>2. (\A k \in 1..Len(from_c) : from_c[k] = EndOfReply <=> reply = <<>> /\ k = Len(from_c))'
    <3>1. \A k \in 1..Len(from_c) : from_c[k] # EndOfReply
      BY <1>1 DEF PipeInv, Answers
    <3>2. reply[1] = EndOfReply <=> Len(reply) = 1
      BY <1>2 DEF PipeInv, Answers
    <3> QED BY <1>1, <1>2, <1>3, <3>1, <3>2
  <2>3. parts = <<>> => from_c'[1] = FirstPart
    <3>1. CASE from_c = <<>>
      BY <1>1, <1>3, <3>1 DEF PipeInv, Answers
    <3>2. CASE from_c # <<>>
      BY <1>1, <1>3, <3>2 DEF PipeInv, Answers
    <3> QED BY <3>1, <3>2
  <2>4. c' = "replying" <=> reply' # <<>>
    BY <1>2, <1>5
  <2> QED BY <1>3, <1>4, <1>5, <2>1, <2>2, <2>3, <2>4 DEF PipeInv, Answers
<1>7. Calls' /\ Questions' /\ Count'
  BY <1>4, <1>5 DEF PipeInv, Calls, Questions, Count
<1> QED BY <1>6, <1>7 DEF PipeInv

(* The C program ends at the end of its input.                             *)
LEMMA CEndOfFilePipes ==
  ASSUME TypeOK, PipeInv, CEndOfFile, Ended, pc' = pc, applied' = applied
  PROVE  PipeInv'
<1>1. /\ UNCHANGED <<call, written, to_c, from_c, parts, answer, overflow, c_line, reply>>
      /\ Waiting' = Waiting /\ OnItsWay' = OnItsWay /\ FirstPart' = FirstPart
      /\ c = "reading" /\ c' = "exited"
  BY DEF CEndOfFile, pipeVars, Waiting, OnItsWay, FirstPart
<1> QED BY <1>1 DEF PipeInv, Calls, Questions, Answers, Count

(* The steps that leave the ProcPool alone.                                *)
LEMMA OtherPipes ==
  ASSUME TypeOK, PipeInv, UNCHANGED procVars, applied'[3] = applied[3],
         pc = "draw" => pc' = "draw" \/ call = "none",
         Ended => Ended'
  PROVE  PipeInv'
<1>1. /\ UNCHANGED <<call, written, to_c, from_c, parts, answer, overflow, c, c_line, reply>>
      /\ Waiting' = Waiting /\ OnItsWay' = OnItsWay /\ FirstPart' = FirstPart
  BY DEF procVars, Waiting, OnItsWay, FirstPart
<1> QED BY <1>1 DEF PipeInv, Calls, Questions, Answers, Count, Waiting

(* What is in hand, and what is on its way, after any step.                *)
LEMMA NextInHand ==
  ASSUME TypeOK, InHand, Drawn, [Next]_vars
  PROVE  InHand' /\ Drawn'
<1>1. CASE UNCHANGED <<pc, line, surface>> \/ pc' \in {"read", "done", "raised"}
  BY <1>1 DEF InHand, Drawn
<1>2. CASE \E m \in Command, step \in Steps : ReadLine(m, step)
  BY <1>2 DEF ReadLine, InHand, Drawn
<1>3. CASE EndOfLog
  BY <1>3 DEF EndOfLog, InHand, Drawn
<1>4. CASE Draw
  BY <1>4 DEF Draw, Picture, InHand, Drawn, TypeOK, ProcTypeOK
<1>5. CASE CaughtUp
  BY <1>5 DEF CaughtUp, InHand, Drawn
<1> QED
  BY <1>1, <1>2, <1>3, <1>4, <1>5
  DEF Next, Main, CProgram, ProcStep, vars, mainVars, Ask, DuplicateFrame, HoldFrame, Finish,
      ApplyToPool, PoolRaises, ApplyToProcPool

(* Every step preserves what is on its way.                                *)
LEMMA NextPipes ==
  ASSUME TypeOK, InHand, PipeInv, [Next]_vars
  PROVE  PipeInv'
<1>1. CASE UNCHANGED vars
  BY <1>1, OtherPipes DEF vars, mainVars, Ended
<1>2. CASE \E m \in Command, step \in Steps : ReadLine(m, step)
  BY <1>2, OtherPipes DEF ReadLine, Ended
<1>3. CASE EndOfLog \/ DuplicateFrame \/ CaughtUp \/ HoldFrame \/ Finish \/ PoolRaises \/ Draw
  BY <1>3, OtherPipes
  DEF EndOfLog, DuplicateFrame, CaughtUp, HoldFrame, Finish, PoolRaises, Draw, Ended
<1>4. CASE ApplyToPool
  <2>1. applied'[3] = applied[3]
    BY <1>4 DEF ApplyToPool, TypeOK
  <2> QED BY <1>4, <2>1, OtherPipes DEF ApplyToPool, Ended
<1>5. CASE ApplyToProcPool
  BY <1>5, ProcessCommandPipes DEF ApplyToProcPool, InHand
<1>6. CASE Ask
  BY <1>6, AskForDumpPipes DEF Ask, mainVars
<1>7. CASE ProcStep
  <2>1. applied' = applied
    BY <1>7 DEF ProcStep
  <2>2. CASE WriteFails(Ended) \/ ReplyCutOff
    <3>1. call' = "failed"
      BY <2>2 DEF WriteFails, ReplyCutOff
    <3>2. pc' = IF Ended THEN pc ELSE "raised"
      BY <1>7, <3>1 DEF ProcStep
    <3> QED BY <2>1, <2>2, <3>2, FailurePipes
  <2>3. CASE WriteOut(Ended) \/ Flushed \/ ReadPart \/ ReadLastPart
    <3>1. call' # "failed" \/ (call' = "failed" /\ call = "failed")
      BY <2>3 DEF WriteOut, Flushed, ReadPart, ReadLastPart
    <3>2. pc' = pc
      BY <1>7, <3>1 DEF ProcStep, PipeInv, Calls
    <3> QED
      BY <2>1, <2>3, <3>2, WriteOutPipes, FlushedPipes, ReadPartPipes, ReadLastPartPipes
  <2> QED BY <1>7, <2>2, <2>3 DEF ProcStep
<1>8. CASE CProgram
  BY <1>8, CApplyPipes, CAbortPipes, CDumpPipes, CReplyPipes, CEndOfFilePipes
  DEF CProgram, CStep, mainVars
<1> QED
  BY <1>1, <1>2, <1>3, <1>4, <1>5, <1>6, <1>7, <1>8 DEF Next, Main

-----------------------------------------------------------------------------
(* The clock *)

(* The clock of the video has reached t when n frames have been written.   *)
Reached(t, n) == t * FrameRate <= n * Second

(* Rounding the clock down to whole units loses nothing, since the time    *)
(* stamps are whole units.                                                 *)
LEMMA ClockReached ==
  ASSUME NEW t \in Int, NEW n \in Nat
  PROVE  /\ Clock(n) < t <=> ~Reached(t, n)
         /\ Clock(n) >= t <=> Reached(t, n)
<1>1. \A a \in Nat, d \in Nat \ {0} : a \div d \in Int /\ (t <= a \div d <=> t * d <= a)
  OBVIOUS
<1>2. n * Second \in Nat /\ FrameRate \in Nat \ {0}
  BY SimulatorConstants
<1>3. Clock(n) \in Int /\ (t <= Clock(n) <=> Reached(t, n))
  BY <1>1, <1>2 DEF Clock, Reached
<1> QED BY <1>3

(* It does not go back.                                                    *)
LEMMA ReachedStays ==
  ASSUME NEW t \in Int, NEW n \in Nat, Reached(t, n)
  PROVE  Reached(t, n + 1)
<1>1. n * Second <= (n + 1) * Second /\ t * FrameRate \in Int
  BY SimulatorConstants
<1> QED BY <1>1, SimulatorConstants DEF Reached

(* A second is FrameRate frames.                                           *)
LEMMA FirstSecond ==
  ASSUME NEW n \in Nat, Reached(Second, n)
  PROVE  n >= FrameRate
<1>1. \A s \in Nat \ {0}, r \in Nat, a \in Nat : s * r <= a * s => r <= a
  OBVIOUS
<1> QED BY <1>1, SimulatorConstants DEF Reached

-----------------------------------------------------------------------------
(* The invariant of the main loop *)

Read == Len(times)
AtEnd == pc = "draw" /\ line = None
BeforeLine == pc = "draw" /\ line # None

(* Which lines each pool has been given.                                   *)
Position ==
  /\ times # <<>> => times[1] = Second
  /\ pc = "read" \/ AtEnd => \A k \in 1..3 : applied[k] = Read
  /\ BeforeLine \/ pc = "dup" =>
       times # <<>> /\ turn = 1 /\ \A k \in 1..3 : applied[k] = Read - 1
  /\ pc = "apply" =>
       times # <<>> /\ \A k \in 1..3 : applied[k] = IF k < turn THEN Read ELSE Read - 1

(* How far the clock is: behind the line in hand while frames are drawn    *)
(* for it, and past all others.                                            *)
Due ==
  /\ BeforeLine => ~Reached(times[Read], Len(frames))
  /\ \A j \in 1..Read :
       j < Read \/ pc \in {"read", "apply", "hold", "done"} \/ AtEnd
       => Reached(times[j], Len(frames))

(* What frame k may show, and that only the last frames show all lines.    *)
Shows(k, n) ==
  /\ frames[k] = <<n, n, n>>
  /\ \A j \in 1..n : Reached(times[j], k - 1)
  /\ n < Read => ~Reached(times[n + 1], k - 1)

FramesInv ==
  \A k \in 1..Len(frames) : \E n \in 0..Read :
    Shows(k, n) /\ (n = Read => pc \in {"hold", "done", "raised"})

(* What is repeated, and the frames of the last second.                    *)
Repeats ==
  /\ pc = "dup" => surface = <<Read - 1, Read - 1, Read - 1>>
  /\ pc \in {"hold", "done"} => surface = <<Read, Read, Read>>
  /\ pc \in {"hold", "done"} => \A k \in 1..Len(frames) :
       k > Len(frames) - (FrameRate - hold) => frames[k] = <<Read, Read, Read>>
  /\ pc = "done" => hold = 0

VideoInv == Position /\ Due /\ FramesInv /\ Repeats

(* and with no frame drawn.                                                *)
LEMMA InitVideo == Init => VideoInv
  BY DEF Init, VideoInv, Position, Due, FramesInv, Repeats, Read, AtEnd, BeforeLine

(* A frame that is added is in order when it shows the lines the clock has *)
(* reached, and no others.                                                 *)
LEMMA AddFrame ==
  ASSUME TypeOK, FramesInv, NEW n \in 0..Read,
         times' = times, frames' = Append(frames, <<n, n, n>>),
         \A j \in 1..n : Reached(times[j], Len(frames)),
         n < Read => ~Reached(times[n + 1], Len(frames)),
         n = Read => pc' = "hold", pc # "hold" \/ pc' = "hold",
         pc \notin {"done", "raised"}
  PROVE  FramesInv'
<1>1. frames \in Seq(Nat \X Nat \X Nat) /\ times \in Seq(Int) /\ Read \in Nat
  BY DEF TypeOK, Read
<1>2. /\ Len(frames') = Len(frames) + 1 /\ frames'[Len(frames) + 1] = <<n, n, n>>
      /\ \A k \in 1..Len(frames) : frames'[k] = frames[k]
  <2> DEFINE x == <<n, n, n>>
  <2>1. x \in Nat \X Nat \X Nat /\ frames' = Append(frames, x)
    BY <1>1
  <2> HIDE DEF x
  <2>2. /\ Len(frames') = Len(frames) + 1 /\ frames'[Len(frames) + 1] = x
        /\ \A k \in 1..Len(frames) : frames'[k] = frames[k]
    BY <1>1, <2>1, PutLast
  <2> QED BY <2>2 DEF x
<1>3. SUFFICES ASSUME NEW k \in 1..Len(frames')
               PROVE  \E i \in 0..Read : Shows(k, i)' /\ (i = Read => pc' \in {"hold", "done", "raised"})
  BY DEF FramesInv, Read
<1>4. CASE k \in 1..Len(frames)
  <2>1. PICK i \in 0..Read : Shows(k, i) /\ (i = Read => pc \in {"hold", "done", "raised"})
    BY <1>4 DEF FramesInv
  <2>2. Shows(k, i)'
    BY <1>2, <1>4, <2>1 DEF Shows, Read
  <2>3. i = Read => pc' \in {"hold", "done", "raised"}
    BY <2>1
  <2> QED BY <2>1, <2>2, <2>3, Zenon
<1>5. CASE k = Len(frames) + 1
  <2>1. k - 1 = Len(frames)
    BY <1>1, <1>5
  <2>2. Shows(k, n)'
    BY <1>2, <1>5, <2>1 DEF Shows, Read
  <2>3. n = Read => pc' \in {"hold", "done", "raised"}
    OBVIOUS
  <2> QED BY <2>2, <2>3, Zenon
<1>6. k \in 1..Len(frames) \/ k = Len(frames) + 1
  BY <1>1, <1>2
<1> QED BY <1>4, <1>5, <1>6, Zenon

(* The steps of the main loop.                                             *)
LEMMA KeepVideo ==
  ASSUME TypeOK, VideoInv,
         UNCHANGED <<times, line, turn, applied, surface, frames, hold>>,
         pc' = pc \/ pc' = "raised"
  PROVE  VideoInv'
<1>1. CASE pc' = pc
  BY <1>1 DEF VideoInv, Position, Due, FramesInv, Shows, Repeats, Read, AtEnd, BeforeLine
<1>2. CASE pc' = "raised"
  <2>1. Read' = Read /\ ~AtEnd' /\ ~BeforeLine'
    BY <1>2 DEF Read, AtEnd, BeforeLine
  <2>2. FramesInv'
    <3> SUFFICES ASSUME NEW k \in 1..Len(frames)
                 PROVE  \E n \in 0..Read : Shows(k, n)'
      BY <1>2, <2>1 DEF FramesInv
    <3>1. PICK n \in 0..Read : Shows(k, n)
      BY DEF VideoInv, FramesInv
    <3>2. Shows(k, n)'
      BY <2>1, <3>1 DEF Shows
    <3> QED BY <3>2, Zenon
  <2> QED BY <1>2, <2>1, <2>2 DEF VideoInv, Position, Due, Repeats
<1> QED BY <1>1, <1>2

(* Reading a line leaves the frames drawn right.                           *)
LEMMA ReadLineVideo ==
  ASSUME TypeOK, VideoInv, NEW m \in Command, NEW step \in Steps, ReadLine(m, step)
  PROVE  VideoInv'
<1> DEFINE T == Time(step)
<1>1. times \in Seq(Int) /\ Read \in Nat /\ T \in Int /\ Len(frames) \in Nat
  BY SimulatorConstants DEF TypeOK, Time, Read
<1>2. /\ times' = Append(times, T) /\ pc = "read" /\ line' = m /\ turn' = 1
      /\ UNCHANGED <<applied, surface, frames, hold>>
      /\ pc' = IF Now < T THEN "draw" ELSE "apply"
  BY DEF ReadLine
<1>3. m # None
  BY NoneIsNoCommand
<1>4. (times = <<>> => T = Second) /\ (times = <<>> <=> Read = 0)
  BY <1>1 DEF Time, Read
<1>5. Now < T <=> ~Reached(T, Len(frames))
  BY <1>1, ClockReached DEF Now
<1> HIDE DEF T
<1>6. /\ Read' = Read + 1 /\ times' # <<>> /\ times'[Read + 1] = T
      /\ \A j \in 1..Read : times'[j] = times[j]
  BY <1>1, <1>2, PutLast DEF Read
<1>7. Position'
  <2>1. times'[1] = Second
    <3>1. CASE Read = 0
      BY <1>4, <1>6, <3>1
    <3>2. CASE Read # 0
      <4>1. 1 \in 1..Read /\ times # <<>>
        BY <1>1, <1>4, <3>2
      <4> QED BY <1>6, <4>1 DEF VideoInv, Position
    <3> QED BY <3>1, <3>2
  <2>2. \A k \in 1..3 : applied[k] = Read
    BY <1>2 DEF VideoInv, Position
  <2>3. Read' - 1 = Read
    BY <1>1, <1>6
  <2>4. pc' \in {"draw", "apply"} /\ ~AtEnd'
    BY <1>2, <1>3 DEF AtEnd
  <2>5. \A k \in 1..3 : ~(k < 1)
    OBVIOUS
  <2> QED BY <1>2, <1>6, <2>1, <2>2, <2>3, <2>4, <2>5 DEF Position
<1>8. Due'
  <2>1. \A j \in 1..Read : Reached(times[j], Len(frames))
    BY <1>2 DEF VideoInv, Due
  <2>2. \A j \in 1..Read : Reached(times'[j], Len(frames))
    BY <1>6, <2>1
  <2>3. BeforeLine' => ~Reached(times'[Read + 1], Len(frames))
    BY <1>2, <1>5, <1>6 DEF BeforeLine
  <2>4. pc' = "apply" => Reached(times'[Read + 1], Len(frames))
    BY <1>2, <1>5, <1>6
  <2>5. ~AtEnd' /\ pc' \notin {"read", "hold", "done"}
    BY <1>2, <1>3 DEF AtEnd
  <2>6. \A j \in 1..Read + 1 : j \in 1..Read \/ j = Read + 1
    BY <1>1
  <2>7. \A j \in 1..Read + 1 :
          j < Read + 1 \/ pc' = "apply" => Reached(times'[j], Len(frames))
    BY <1>1, <2>2, <2>4, <2>6
  <2>8. Len(frames') = Len(frames)
    BY <1>2
  <2> QED BY <1>6, <2>3, <2>5, <2>7, <2>8 DEF Due
<1>9. FramesInv'
  <2> SUFFICES ASSUME NEW k \in 1..Len(frames)
               PROVE  \E n \in 0..Read + 1 : Shows(k, n)' /\ n # Read + 1
    BY <1>2, <1>6 DEF FramesInv
  <2>1. PICK n \in 0..Read : Shows(k, n) /\ n # Read
    BY <1>2 DEF VideoInv, FramesInv
  <2>2. n \in 0..Read + 1 /\ n < Read /\ n + 1 \in 1..Read /\ n # Read + 1
    BY <1>1, <2>1
  <2>3. /\ \A j \in 1..n : Reached(times'[j], k - 1)
        /\ ~Reached(times'[n + 1], k - 1)
    <3>1. \A j \in 1..n : j \in 1..Read
      BY <1>1, <2>2
    <3>2. \A j \in 1..n : Reached(times[j], k - 1)
      BY <2>1 DEF Shows
    <3>3. ~Reached(times[n + 1], k - 1)
      BY <2>1, <2>2 DEF Shows
    <3> QED BY <1>6, <2>2, <3>1, <3>2, <3>3
  <2>4. Shows(k, n)'
    BY <1>2, <2>1, <2>3 DEF Shows
  <2> QED BY <2>2, <2>4, Zenon
<1>10. Repeats'
  BY <1>2 DEF Repeats
<1> QED BY <1>7, <1>8, <1>9, <1>10 DEF VideoInv

(* A frame drawn while the next line is later shows all that is due.       *)
LEMMA DrawVideo ==
  ASSUME TypeOK, VideoInv, Count, Draw
  PROVE  VideoInv'
<1>1. /\ times \in Seq(Int) /\ Read \in Nat /\ Len(frames) \in Nat /\ Read' = Read
      /\ frames \in Seq(Nat \X Nat \X Nat)
  BY DEF TypeOK, Read, Draw
<1> DEFINE n == applied[3]
<1>2. /\ pc = "draw" /\ UNCHANGED <<times, line, turn, applied>>
      /\ pc' = IF line = None THEN "hold" ELSE "dup"
      /\ hold' = IF line = None THEN FrameRate - 1 ELSE hold
      /\ surface' = Picture /\ frames' = Append(frames, Picture)
  BY DEF Draw
<1>3. /\ n = IF line = None THEN Read ELSE Read - 1
      /\ applied[1] = n /\ applied[2] = n
      /\ line # None => times # <<>> /\ Read \in Nat \ {0}
  BY SMTT(30), <1>1, <1>2 DEF VideoInv, Position, AtEnd, BeforeLine, Read
<1>4. overflow = n
  BY DEF Count, Draw
<1>5. Picture = <<n, n, n>> /\ n \in 0..Read
  BY <1>1, <1>3, <1>4 DEF Picture
<1> HIDE DEF n
<1>6. \A j \in 1..n : Reached(times[j], Len(frames))
  BY <1>1, <1>2, <1>3 DEF VideoInv, Due, AtEnd
<1>7. n < Read => ~Reached(times[n + 1], Len(frames))
  BY <1>1, <1>2, <1>3 DEF VideoInv, Due, BeforeLine
<1>8. FramesInv'
  <2>1. frames' = Append(frames, <<n, n, n>>) /\ times' = times
    BY <1>2, <1>5
  <2>2. n = Read => pc' = "hold"
    BY <1>1, <1>2, <1>3
  <2> QED BY <1>2, <1>5, <1>6, <1>7, <2>1, <2>2, AddFrame DEF VideoInv
<1>9. Len(frames') = Len(frames) + 1 /\ frames'[Len(frames) + 1] = <<n, n, n>>
  <2>1. Picture \in Nat \X Nat \X Nat
    BY <1>1, <1>5
  <2>2. Len(frames') = Len(frames) + 1 /\ frames'[Len(frames) + 1] = Picture
    BY <1>1, <1>2, <2>1, PutLast
  <2> QED BY <1>5, <2>2
<1>10. Position'
  BY <1>1, <1>2, <1>3 DEF VideoInv, Position, AtEnd, BeforeLine
<1>11. Due'
  <2>1. \A j \in 1..Read : times[j] \in Int
    BY <1>1 DEF Read
  <2>2. \A j \in 1..Read : Reached(times[j], Len(frames)) => Reached(times[j], Len(frames) + 1)
    BY <1>1, <2>1, ReachedStays
  <2>3. \A j \in 1..Read : j < Read \/ line = None => Reached(times[j], Len(frames))
    BY <1>1, <1>2 DEF VideoInv, Due, AtEnd
  <2>4. ~AtEnd' /\ ~BeforeLine' /\ (pc' \in {"read", "apply", "hold", "done"} => line = None)
    BY <1>2 DEF AtEnd, BeforeLine
  <2> QED BY <1>1, <1>2, <1>9, <2>2, <2>3, <2>4 DEF Due
<1>12. Repeats'
  <2>1. FrameRate \in Nat
    BY SimulatorConstants
  <2>2. CASE line = None
    <3>1. pc' = "hold" /\ n = Read /\ hold' = FrameRate - 1
      BY <1>2, <1>3, <2>2
    <3>2. \A k \in 1..Len(frames) + 1 : k > Len(frames) + 1 - 1 => k = Len(frames) + 1
      BY <1>1
    <3>3. FrameRate - hold' = 1
      BY <2>1, <3>1
    <3> QED BY <1>1, <1>2, <1>5, <1>9, <3>1, <3>2, <3>3 DEF Repeats
  <2>3. CASE line # None
    BY <1>1, <1>2, <1>3, <1>5, <2>3 DEF Repeats
  <2> QED BY <2>2, <2>3
<1> QED BY <1>8, <1>10, <1>11, <1>12 DEF VideoInv

(* A frame that is written again, while the clock has not reached the line *)
(* in hand or at the end of the log.                                       *)
LEMMA RepeatVideo ==
  ASSUME TypeOK, VideoInv, DuplicateFrame \/ HoldFrame
  PROVE  VideoInv'
<1>1. /\ times \in Seq(Int) /\ Read \in Nat /\ Len(frames) \in Nat /\ Read' = Read
      /\ frames \in Seq(Nat \X Nat \X Nat) /\ hold \in Nat /\ FrameRate \in Nat
  BY SimulatorConstants DEF TypeOK, Read, DuplicateFrame, HoldFrame
<1>2. /\ UNCHANGED <<pc, times, line, turn, applied, surface>>
      /\ frames' = Append(frames, surface)
      /\ \/ pc = "dup" /\ Now < times[Read] /\ hold' = hold
         \/ pc = "hold" /\ hold > 0 /\ hold' = hold - 1
  BY DEF DuplicateFrame, HoldFrame, Read
<1> DEFINE n == IF pc = "dup" THEN Read - 1 ELSE Read
<1>3. pc = "dup" => Read \in Nat \ {0}
  BY <1>1 DEF VideoInv, Position, Read
<1>4. surface = <<n, n, n>> /\ n \in 0..Read
  BY <1>1, <1>2, <1>3 DEF VideoInv, Repeats
<1>5. n < Read => ~Reached(times[n + 1], Len(frames))
  <2> SUFFICES ASSUME pc = "dup" PROVE ~Reached(times[Read], Len(frames))
    BY <1>1, <1>2
  <2>1. times[Read] \in Int
    BY <1>1, <1>3 DEF Read
  <2> QED BY <1>1, <1>2, <2>1, ClockReached DEF Now
<1>6. \A j \in 1..n : Reached(times[j], Len(frames))
  BY <1>1, <1>2, <1>3 DEF VideoInv, Due
<1>7. n = Read => pc' = "hold"
  BY <1>1, <1>2
<1> HIDE DEF n
<1>8. FramesInv'
  <2>1. frames' = Append(frames, <<n, n, n>>)
    BY <1>2, <1>4
  <2> QED BY <1>2, <1>4, <1>5, <1>6, <1>7, <2>1, AddFrame DEF VideoInv
<1>9. /\ Len(frames') = Len(frames) + 1 /\ frames'[Len(frames) + 1] = surface
      /\ \A k \in 1..Len(frames) : frames'[k] = frames[k]
  <2>1. surface \in Nat \X Nat \X Nat
    BY <1>1, <1>4
  <2> QED BY <1>1, <1>2, <2>1, PutLast
<1>10. Position'
  BY <1>1, <1>2 DEF VideoInv, Position, AtEnd, BeforeLine
<1>11. Due'
  <2>1. \A j \in 1..Read : times[j] \in Int
    BY <1>1 DEF Read
  <2>2. \A j \in 1..Read : Reached(times[j], Len(frames)) => Reached(times[j], Len(frames) + 1)
    BY <1>1, <2>1, ReachedStays
  <2>3. ~AtEnd' /\ ~BeforeLine' /\ pc' = pc
    BY <1>2 DEF AtEnd, BeforeLine
  <2>4. \A j \in 1..Read : j < Read \/ pc = "hold" => Reached(times[j], Len(frames))
    BY DEF VideoInv, Due
  <2> QED BY <1>1, <1>2, <1>9, <2>2, <2>3, <2>4 DEF Due
<1>12. Repeats'
  <2>1. CASE pc = "dup"
    BY <1>1, <1>2, <2>1 DEF VideoInv, Repeats
  <2>2. CASE pc = "hold"
    <3>1. surface = <<Read, Read, Read>>
      BY <2>2 DEF VideoInv, Repeats
    <3>2. \A k \in 1..Len(frames) :
            k > Len(frames) - (FrameRate - hold) => frames[k] = <<Read, Read, Read>>
      BY <2>2 DEF VideoInv, Repeats
    <3>3. Len(frames') - (FrameRate - hold') = Len(frames) - (FrameRate - hold)
      BY <1>1, <1>2, <1>9, <2>2
    <3>4. \A k \in 1..Len(frames) + 1 :
            k > Len(frames) - (FrameRate - hold) => frames'[k] = <<Read, Read, Read>>
      <4> TAKE k \in 1..Len(frames) + 1
      <4>1. k \in 1..Len(frames) \/ k = Len(frames) + 1
        BY <1>1
      <4> QED BY <1>9, <3>1, <3>2, <4>1
    <3> QED BY <1>1, <1>2, <1>9, <2>2, <3>1, <3>3, <3>4 DEF Repeats
  <2> QED BY <1>2, <2>1, <2>2
<1> QED BY <1>8, <1>10, <1>11, <1>12 DEF VideoInv

(* The other steps write no frame and read no line.                        *)
LEMMA MoveOnVideo ==
  ASSUME TypeOK, VideoInv, EndOfLog \/ CaughtUp \/ Finish
  PROVE  VideoInv'
<1>1. /\ UNCHANGED <<times, turn, applied, surface, frames, hold>> /\ Read' = Read
      /\ Read \in Nat /\ Len(frames) \in Nat
  BY DEF EndOfLog, CaughtUp, Finish, Read, TypeOK
<1>2. FramesInv'
  <2> SUFFICES ASSUME NEW k \in 1..Len(frames)
               PROVE  \E n \in 0..Read :
                        Shows(k, n)' /\ (n = Read => pc' \in {"hold", "done", "raised"})
    BY <1>1 DEF FramesInv
  <2>1. PICK n \in 0..Read : Shows(k, n) /\ (n = Read => pc \in {"hold", "done", "raised"})
    BY DEF VideoInv, FramesInv
  <2>2. Shows(k, n)'
    BY <1>1, <2>1 DEF Shows
  <2>3. n = Read => pc' \in {"hold", "done", "raised"}
    BY <2>1 DEF EndOfLog, CaughtUp, Finish
  <2> QED BY <2>2, <2>3, Zenon
<1>3. Position' /\ Due' /\ Repeats'
  <2>1. CASE EndOfLog
    BY <1>1, <2>1 DEF EndOfLog, VideoInv, Position, Due, Repeats, AtEnd, BeforeLine
  <2>2. CASE CaughtUp
    <3>1. Reached(times[Read], Len(frames))
      <4>1. times[Read] \in Int
        BY <1>1, <2>2 DEF CaughtUp, VideoInv, Position, TypeOK, Read
      <4> QED BY <1>1, <2>2, <4>1, ClockReached DEF CaughtUp, Now, Read
    <3>2. pc = "dup" /\ pc' = "apply"
      BY <2>2 DEF CaughtUp
    <3>3. Position'
      BY <1>1, <3>2 DEF VideoInv, Position, AtEnd, BeforeLine
    <3>4. \A j \in 1..Read : Reached(times[j], Len(frames))
      <4> TAKE j \in 1..Read
      <4>1. j < Read \/ j = Read
        BY <1>1
      <4> QED BY <3>1, <4>1 DEF VideoInv, Due
    <3> QED BY <1>1, <3>2, <3>3, <3>4 DEF Due, Repeats, AtEnd, BeforeLine
  <2>3. CASE Finish
    BY <1>1, <2>3 DEF Finish, VideoInv, Position, Due, Repeats, AtEnd, BeforeLine
  <2> QED BY <2>1, <2>2, <2>3
<1> QED BY <1>2, <1>3 DEF VideoInv

(* A pool that is given the command is one line ahead of those that are    *)
(* not.                                                                    *)
LEMMA ApplyVideo ==
  ASSUME TypeOK, VideoInv, ApplyToPool \/ ApplyToProcPool
  PROVE  VideoInv'
<1>1. /\ UNCHANGED <<times, surface, frames, hold>> /\ Read' = Read
      /\ pc = "apply" /\ pc' \in {"apply", "read"} /\ Read \in Nat
      /\ applied \in [1..3 -> Nat] /\ turn \in 1..3
  BY DEF ApplyToPool, ApplyToProcPool, Read, TypeOK
<1>2. /\ times # <<>>
      /\ \A k \in 1..3 : applied[k] = IF k < turn THEN Read ELSE Read - 1
  BY <1>1 DEF VideoInv, Position
<1>3. Position'
  <2>1. applied' = [applied EXCEPT ![turn] = Read]
    <3>1. applied' = [applied EXCEPT ![turn] = @ + 1]
      BY DEF ApplyToPool, ApplyToProcPool
    <3>2. applied[turn] + 1 = Read
      BY <1>1, <1>2
    <3> QED BY <1>1, <3>1, <3>2
  <2>2. \/ turn' = turn + 1 /\ pc' = "apply"
        \/ turn = 3 /\ pc' = "read"
    BY <1>1 DEF ApplyToPool, ApplyToProcPool
  <2>3. \A k \in 1..3 : applied'[k] = IF k <= turn THEN Read ELSE Read - 1
    BY <1>1, <1>2, <2>1
  <2>4. times # <<>> => times[1] = Second
    BY DEF VideoInv, Position
  <2> QED BY <1>1, <1>2, <2>2, <2>3, <2>4 DEF Position, AtEnd, BeforeLine
<1>4. FramesInv'
  <2> SUFFICES ASSUME NEW k \in 1..Len(frames)
               PROVE  \E n \in 0..Read :
                        Shows(k, n)' /\ (n = Read => pc' \in {"hold", "done", "raised"})
    BY <1>1 DEF FramesInv
  <2>1. PICK n \in 0..Read : Shows(k, n) /\ n # Read
    BY <1>1 DEF VideoInv, FramesInv
  <2>2. Shows(k, n)'
    BY <1>1, <2>1 DEF Shows
  <2> QED BY <2>1, <2>2, Zenon
<1>5. Due' /\ Repeats'
  BY <1>1 DEF VideoInv, Due, Repeats, AtEnd, BeforeLine
<1> QED BY <1>3, <1>4, <1>5 DEF VideoInv

(* Every step preserves what is claimed of the frames.                     *)
LEMMA NextVideo ==
  ASSUME TypeOK, VideoInv, Count, [Next]_vars
  PROVE  VideoInv'
<1>1. CASE UNCHANGED mainVars
  BY <1>1, KeepVideo DEF mainVars
<1>2. CASE PoolRaises \/ ProcStep
  BY <1>2, KeepVideo DEF PoolRaises, ProcStep
<1> QED
  BY <1>1, <1>2, ReadLineVideo, DrawVideo, RepeatVideo, MoveOnVideo, ApplyVideo
  DEF Next, Main, CProgram, Ask, vars

-----------------------------------------------------------------------------
(* The theorems *)

SimInv == TypeOK /\ InHand /\ Drawn /\ PipeInv /\ VideoInv

(* What every step of Python and of the C program preserves.               *)
THEOREM SimulatorInvariant == Spec => []SimInv
<1>1. Init => SimInv
  BY InitTypes, InitPipes, InitVideo DEF SimInv
<1>2. SimInv /\ [Next]_vars => SimInv'
  BY NextTypes, NextInHand, NextPipes, NextVideo DEF SimInv, PipeInv
<1> QED BY <1>1, <1>2, PTL DEF Spec

(* Every variable of the main loop and of the pipes keeps its type.        *)
THEOREM SimulatorTypes == Spec => []TypeOK
<1>1. SimInv => TypeOK
  BY DEF SimInv
<1> QED BY <1>1, SimulatorInvariant, PTL

(* However long an answer is and whatever the pipes hold, paged_in_buffers *)
(* leaves no line of it behind, and asks only when nothing is under way.   *)
THEOREM NoAnswerUnreadCorrect == Spec => []NoAnswerUnread
<1>1. SimInv => NoAnswerUnread
  <2> SUFFICES ASSUME SimInv PROVE NoAnswerUnread
    OBVIOUS
  <2>1. call = "none" => from_c = <<>> /\ reply = <<>> /\ parts = <<>>
    BY DEF SimInv, PipeInv, Answers, OnItsWay, Waiting
  <2> DEFINE T == Command \cup {Dump}
  <2>2. to_c \in Seq(T) /\ written \in Seq(T)
    BY DEF SimInv, TypeOK, ProcTypeOK
  <2> HIDE DEF T
  <2>3. /\ Len(to_c \o written) = Len(to_c) + Len(written)
        /\ \A k \in 1..Len(to_c) + Len(written) :
             (to_c \o written)[k] = IF k <= Len(to_c) THEN to_c[k] ELSE written[k - Len(to_c)]
    BY <2>2, ConcatProperties, Zenon
  <2>4. ASSUME NEW k \in 1..Len(to_c \o written), (to_c \o written)[k] = Dump
        PROVE  call \in {"flush", "reply"} /\ k = Len(to_c \o written)
    <3>1. Len(to_c) \in Nat /\ Len(written) \in Nat
      BY <2>2
    <3>2. CASE k <= Len(to_c)
      <4>1. k \in 1..Len(to_c) /\ to_c[k] = Dump
        BY <2>3, <2>4, <3>1, <3>2
      <4>2. Waiting /\ written = <<>> /\ k = Len(to_c)
        BY <4>1 DEF SimInv, PipeInv, Questions
      <4> QED BY <2>3, <3>1, <4>2 DEF Waiting
    <3>3. CASE k > Len(to_c)
      <4>1. k - Len(to_c) \in 1..Len(written) /\ written[k - Len(to_c)] = Dump
        BY <2>3, <2>4, <3>1, <3>3
      <4>2. call = "flush" /\ k - Len(to_c) = Len(written)
        BY <4>1 DEF SimInv, PipeInv, Questions
      <4> QED BY <2>3, <3>1, <4>2
    <3> QED BY <2>3, <3>1, <3>2, <3>3
  <2> QED BY <2>1, <2>4 DEF NoAnswerUnread
<1> QED BY <1>1, SimulatorInvariant, PTL

(* Whatever the time stamps of the log and the frame rate, a frame shows   *)
(* the log up to the first line that is later, in all three pools.         *)
THEOREM FramesShowLogCorrect == Spec => []FramesShowLog
<1>1. SimInv => FramesShowLog
  <2> DEFINE In(k, n) ==
               /\ frames[k] = <<n, n, n>>
               /\ \A j \in 1..n : times[j] * FrameRate <= (k - 1) * Second
               /\ n < Len(times) => (k - 1) * Second < times[n + 1] * FrameRate
  <2> SUFFICES ASSUME SimInv, NEW k \in 1..Len(frames)
               PROVE  \E n \in 0..Len(times) : In(k, n)
    BY DEF FramesShowLog
  <2>1. PICK n \in 0..Len(times) : Shows(k, n)
    BY DEF SimInv, VideoInv, FramesInv, Read
  <2>2. n < Len(times) => (k - 1) * Second < times[n + 1] * FrameRate
    <3> SUFFICES ASSUME n < Len(times)
                 PROVE  (k - 1) * Second < times[n + 1] * FrameRate
      OBVIOUS
    <3>1. times[n + 1] \in Int
      <4>1. times \in Seq(Int) /\ Len(times) \in Nat
        BY DEF SimInv, TypeOK
      <4> QED BY <4>1
    <3>2. times[n + 1] * FrameRate \in Int /\ (k - 1) * Second \in Int
      BY <3>1, SimulatorConstants
    <3>3. ~(times[n + 1] * FrameRate <= (k - 1) * Second)
      BY <2>1 DEF Shows, Read, Reached
    <3> QED BY <3>2, <3>3
  <2>3. In(k, n)
    BY <2>1, <2>2 DEF Shows, Reached
  <2> HIDE DEF In
  <2> QED BY <2>3, Zenon
<1> QED BY <1>1, SimulatorInvariant, PTL

(* The video starts and ends with FrameRate frames of the first and the    *)
(* last state, which draw_frame, the lead-in and the frames after the loop *)
(* bring about between them.                                               *)
THEOREM LeadInAndOutCorrect == Spec => []LeadInAndOut
<1>1. SimInv => LeadInAndOut
  <2> SUFFICES ASSUME SimInv, pc = "done", NEW k \in 1..Len(frames)
               PROVE  /\ k <= FrameRate => frames[k] = <<0, 0, 0>>
                      /\ k > Len(frames) - FrameRate => frames[k] = <<Read, Read, Read>>
    BY DEF LeadInAndOut, Read
  <2>1. ASSUME k <= FrameRate PROVE frames[k] = <<0, 0, 0>>
    <3>1. PICK n \in 0..Read : Shows(k, n)
      BY DEF SimInv, VideoInv, FramesInv
    <3>2. Read \in Nat /\ FrameRate \in Nat
      BY SimulatorConstants DEF SimInv, TypeOK, Read
    <3>3. CASE n = 0
      BY <3>1, <3>3 DEF Shows
    <3>4. CASE n # 0
      <4>1. Reached(times[1], k - 1) /\ times # <<>>
        BY <3>1, <3>2, <3>4 DEF Shows, Read
      <4>2. Reached(Second, k - 1) /\ k - 1 \in Nat
        BY <4>1 DEF SimInv, VideoInv, Position
      <4> QED BY <2>1, <3>2, <4>2, FirstSecond
    <3> QED BY <3>3, <3>4
  <2>2. ASSUME k > Len(frames) - FrameRate PROVE frames[k] = <<Read, Read, Read>>
    <3>1. hold = 0 /\ FrameRate - 0 = FrameRate
      BY SimulatorConstants DEF SimInv, VideoInv, Repeats
    <3> QED BY <2>2, <3>1 DEF SimInv, VideoInv, Repeats
  <2> QED BY <2>1, <2>2
<1> QED BY <1>1, SimulatorInvariant, PTL

-----------------------------------------------------------------------------
(* The three pools stay alike                                              *)

(* A run of commands, told by the states it passes through, not by a fold. *)

Leads(s, q, t) ==
  \E g : /\ g[0] = s /\ g[Len(q)] = t
         /\ \A i \in 1..Len(q) : g[i] = AfterInC(g[i - 1], q[i])

(* No command leads nowhere else.                                          *)
LEMMA LeadsEmpty ==
  ASSUME NEW s
  PROVE  /\ Leads(s, <<>>, s)
         /\ \A t : Leads(s, <<>>, t) => t = s
<1> DEFINE g == [i \in {0} |-> s]
<1>1. g[0] = s /\ g[Len(<<>>)] = s /\ \A i \in 1..Len(<<>>) : g[i] = AfterInC(g[i - 1], <<>>[i])
  OBVIOUS
<1>2. Leads(s, <<>>, s)
  <2> HIDE DEF g
  <2> QED BY <1>1, Zenon DEF Leads
<1>3. ASSUME NEW t, Leads(s, <<>>, t) PROVE t = s
  BY <1>3 DEF Leads
<1> QED BY <1>2, <1>3

(* The first command is applied. *)
LEMMA LeadsTail ==
  ASSUME NEW T, NEW q \in Seq(T), q # <<>>, NEW s, NEW t, Leads(s, q, t)
  PROVE  Leads(AfterInC(s, q[1]), Tail(q), t)
<1>1. PICK g : /\ g[0] = s /\ g[Len(q)] = t
               /\ \A i \in 1..Len(q) : g[i] = AfterInC(g[i - 1], q[i])
  BY DEF Leads
<1>2. /\ Len(q) \in Nat \ {0} /\ Len(Tail(q)) = Len(q) - 1
      /\ \A k \in 1..Len(q) - 1 : Tail(q)[k] = q[k + 1]
  BY TakeFirst
<1> DEFINE h == [i \in 0..Len(q) - 1 |-> g[i + 1]]
<1>3. h[0] = AfterInC(s, q[1])
  BY <1>1, <1>2
<1>4. h[Len(Tail(q))] = t
  BY <1>1, <1>2
<1>5. ASSUME NEW i \in 1..Len(Tail(q))
      PROVE  h[i] = AfterInC(h[i - 1], Tail(q)[i])
  <2>1. i + 1 \in 1..Len(q) /\ i \in 0..Len(q) - 1 /\ i - 1 \in 0..Len(q) - 1 /\ (i + 1) - 1 = i
    BY <1>2
  <2>2. h[i] = g[i + 1] /\ h[i - 1] = g[i] /\ Tail(q)[i] = q[i + 1]
    BY <1>2, <2>1
  <2>3. g[i + 1] = AfterInC(g[i], q[i + 1])
    BY <1>1, <2>1
  <2> QED BY <2>2, <2>3
<1> HIDE DEF h
<1> QED BY <1>3, <1>4, <1>5, Zenon DEF Leads

(* A command is added. *)
LEMMA LeadsAppend ==
  ASSUME NEW T, NEW q \in Seq(T), NEW m \in T, NEW s, NEW t, Leads(s, q, t)
  PROVE  Leads(s, Append(q, m), AfterInC(t, m))
<1>1. PICK g : /\ g[0] = s /\ g[Len(q)] = t
               /\ \A i \in 1..Len(q) : g[i] = AfterInC(g[i - 1], q[i])
  BY DEF Leads
<1> DEFINE n == Len(q)
           p == Append(q, m)
           h == [i \in 0..n + 1 |-> IF i <= n THEN g[i] ELSE AfterInC(t, m)]
<1>2. /\ n \in Nat /\ Len(p) = n + 1 /\ p[n + 1] = m
      /\ \A k \in 1..n : p[k] = q[k]
  BY PutLast
<1>3. h[0] = s /\ h[n + 1] = AfterInC(t, m)
  BY <1>1, <1>2
<1>4. ASSUME NEW i \in 1..n + 1
      PROVE  h[i] = AfterInC(h[i - 1], p[i])
  <2>1. CASE i <= n
    <3>1. i \in 1..n /\ i \in 0..n + 1 /\ i - 1 \in 0..n + 1 /\ i - 1 <= n
      BY <1>2, <2>1
    <3>2. h[i] = g[i] /\ h[i - 1] = g[i - 1] /\ p[i] = q[i]
      BY <1>2, <2>1, <3>1
    <3> QED BY <1>1, <3>1, <3>2
  <2>2. CASE i = n + 1
    <3>1. i - 1 = n /\ n \in 0..n + 1 /\ n <= n
      BY <1>2, <2>2
    <3>2. h[i - 1] = t
      BY <1>1, <3>1
    <3> QED BY <1>2, <1>3, <2>2, <3>2
  <2> QED BY <1>2, <2>1, <2>2
<1>5. h[Len(p)] = AfterInC(t, m) /\ \A i \in 1..Len(p) : h[i] = AfterInC(h[i - 1], p[i])
  BY <1>2, <1>3, <1>4
<1> HIDE DEF h, p, n
<1>6. Leads(s, p, AfterInC(t, m))
  BY <1>3, <1>5, Zenon DEF Leads
<1> QED BY <1>6 DEF p

-----------------------------------------------------------------------------
(* One command on both sides *)

(* The C program has the same buffers under its names.                     *)
Alike(s, bufs) ==
  /\ DOMAIN s = {LowName(n) : n \in DOMAIN bufs}
  /\ \A n \in DOMAIN bufs : s[LowName(n)] = bufs[n]

(* No two of them have one name there.                                     *)
Apart(bufs) == \A m, n \in DOMAIN bufs : m # n => LowName(m) # LowName(n)

(* A command that a Pool accepts does in the C program what it does there, *)
(* unless it makes two buffers with one name.                              *)
LEMMA AlikeAfter ==
  ASSUME NEW s, NEW bufs, NEW m \in Command,
         Alike(s, bufs), Apart(bufs), Accepts(bufs, m), Apart(After(bufs, m))
  PROVE  Alike(AfterInC(s, m), After(bufs, m))
<1> DEFINE x == m.buf_id
           n == LowName(x)
           live == DOMAIN bufs
<1>1. m.cmd \in {"create", "destroy", "add_usecnt", "remove_usecnt", "use"}
  BY DEF Command, Cmds
<1>2. DOMAIN s = {LowName(y) : y \in live} /\ \A y \in live : s[LowName(y)] = bufs[y]
  BY DEF Alike
<1>3. \A y, z \in live : y # z => LowName(y) # LowName(z)
  BY DEF Apart
<1>4. CASE m.cmd = "create"
  <2>1. After(bufs, m) = [y \in live \cup {x} |-> IF y = x THEN FALSE ELSE bufs[y]]
    BY <1>4 DEF After
  <2>2. AfterInC(s, m) = [y \in DOMAIN s \cup {n} |-> IF y \in DOMAIN s THEN s[y] ELSE FALSE]
    BY <1>4 DEF AfterInC
  <2>3. x \notin live
    BY <1>4 DEF Accepts
  <2>4. \A y \in live : LowName(y) # n
    BY <2>1, <2>3 DEF Apart
  <2> HIDE DEF x, n
  <2>5. n = LowName(x)
    BY DEF n, x
  <2>6. n \notin DOMAIN s
    BY <1>2, <2>4
  <2>7. /\ DOMAIN After(bufs, m) = live \cup {x} /\ DOMAIN AfterInC(s, m) = DOMAIN s \cup {n}
        /\ After(bufs, m)[x] = FALSE /\ AfterInC(s, m)[n] = FALSE
        /\ \A y \in live : After(bufs, m)[y] = bufs[y]
        /\ \A z \in DOMAIN s : AfterInC(s, m)[z] = s[z]
    BY <2>1, <2>2, <2>3, <2>6
  <2>8. {LowName(y) : y \in live \cup {x}} = DOMAIN s \cup {n}
    BY <1>2, <2>5
  <2>9. \A y \in live : LowName(y) \in DOMAIN s
    BY <1>2
  <2> QED BY <1>2, <2>5, <2>7, <2>8, <2>9 DEF Alike
<1>5. CASE m.cmd # "create"
  <2>1. x \in live
    BY <1>1, <1>5 DEF Accepts
  <2>2. n \in DOMAIN s /\ n = LowName(x)
    BY <1>2, <2>1
  <2>3. \A y \in live : y # x => LowName(y) # n
    BY <1>3, <2>1
  <2>4. CASE m.cmd = "destroy"
    <3>1. After(bufs, m) = [y \in live \ {x} |-> bufs[y]]
      BY <2>4 DEF After
    <3>2. AfterInC(s, m) = [y \in DOMAIN s \ {n} |-> s[y]]
      BY <2>4 DEF AfterInC
    <3> HIDE DEF x, n
    <3> QED BY <1>2, <2>1, <2>2, <2>3, <3>1, <3>2 DEF Alike
  <2>5. ASSUME NEW v \in BOOLEAN,
               After(bufs, m) = [bufs EXCEPT ![x] = v], AfterInC(s, m) = [s EXCEPT ![n] = v]
        PROVE  Alike(AfterInC(s, m), After(bufs, m))
    <3> HIDE DEF x, n
    <3> QED BY <1>2, <2>1, <2>2, <2>3, <2>5 DEF Alike
  <2>6. CASE m.cmd = "add_usecnt"
    <3>1. After(bufs, m) = [bufs EXCEPT ![x] = TRUE] /\ AfterInC(s, m) = [s EXCEPT ![n] = TRUE]
      BY <2>2, <2>6 DEF After, AfterInC
    <3> QED BY <2>5, <3>1
  <2>7. CASE m.cmd = "remove_usecnt"
    <3>1. After(bufs, m) = [bufs EXCEPT ![x] = FALSE] /\ AfterInC(s, m) = [s EXCEPT ![n] = FALSE]
      BY <2>2, <2>7 DEF After, AfterInC
    <3> QED BY <2>5, <3>1
  <2>8. CASE m.cmd = "use"
    BY <2>8 DEF After, AfterInC
  <2> QED BY <1>1, <1>5, <2>4, <2>6, <2>7, <2>8
<1> QED BY <1>4, <1>5

-----------------------------------------------------------------------------
(* The lines of an answer say what the C program has.                      *)

Truthful(l) == l.name \in DOMAIN c_buffers /\ l.in_use = c_buffers[l.name]

Lines ==
  /\ \A k \in 2..Len(parts) : Truthful(parts[k])
  /\ \A k \in 1..Len(from_c) :
       k > 1 \/ parts # <<>> => from_c[k] = EndOfReply \/ Truthful(from_c[k])
  /\ \A k \in 1..Len(reply) :
       k > 1 \/ from_c # <<>> \/ parts # <<>> => reply[k] = EndOfReply \/ Truthful(reply[k])

(* An answer that is kept is about the present, and there is one whenever  *)
(* a frame has just been drawn.                                            *)
Current ==
  /\ answer # None => /\ call = "none" /\ written = <<>> /\ to_c = <<>>
                      /\ c # "aborted"
                      /\ \A l \in answer : Truthful(l)
  /\ pc \in {"dup", "hold"} => answer # None

(* Lines of an answer that are not touched stay true.                      *)
LEMMA LinesKept ==
  ASSUME Lines, UNCHANGED <<parts, from_c, reply, c_buffers>>
  PROVE  Lines'
  BY DEF Lines, Truthful

(* Nothing is claimed when no line is on its way.                          *)
LEMMA LinesNone ==
  ASSUME ~OnItsWay'
  PROVE  Lines'
  BY DEF Lines, OnItsWay

(* Reading a part of an answer moves its lines.                            *)
LEMMA ReadPartLines ==
  ASSUME TypeOK, Lines, ReadPart
  PROVE  Lines'
<1>1. /\ from_c \in Seq(Part \cup {EndOfReply}) /\ from_c # <<>> /\ from_c[1] # EndOfReply
      /\ parts \in Seq(Part)
  BY DEF ReadPart, LastPart, TypeOK, ProcTypeOK
<1> DEFINE x == from_c[1]
<1>2. /\ Len(from_c') = Len(from_c) - 1 /\ Len(from_c) \in Nat \ {0}
      /\ \A k \in 1..Len(from_c') : from_c'[k] = from_c[k + 1]
      /\ x \in Part /\ parts' = Append(parts, x)
  BY <1>1, TakeFirst DEF ReadPart
<1>3. parts # <<>> => Truthful(x)
  BY <1>1, <1>2 DEF Lines
<1> HIDE DEF x
<1>4. /\ Len(parts) \in Nat /\ parts' # <<>> /\ Len(parts') = Len(parts) + 1
      /\ parts'[Len(parts) + 1] = x /\ (parts = <<>> <=> Len(parts) = 0)
      /\ \A k \in 1..Len(parts) : parts'[k] = parts[k]
  BY <1>1, <1>2, PutLast
<1>5. UNCHANGED <<reply, c_buffers>>
  BY DEF ReadPart, cVars
<1>6. \A k \in 2..Len(parts') : Truthful(parts'[k])
  <2> TAKE k \in 2..Len(parts')
  <2>1. CASE k = Len(parts) + 1
    BY <1>3, <1>4, <2>1
  <2>2. CASE k # Len(parts) + 1
    <3>1. k \in 2..Len(parts) /\ parts'[k] = parts[k]
      BY <1>4, <2>2
    <3> QED BY <3>1 DEF Lines
  <2> QED BY <2>1, <2>2
<1>7. \A k \in 1..Len(from_c') : from_c'[k] = EndOfReply \/ Truthful(from_c'[k])
  <2> TAKE k \in 1..Len(from_c')
  <2>1. k + 1 \in 1..Len(from_c) /\ k + 1 > 1 /\ from_c'[k] = from_c[k + 1]
    BY <1>2
  <2> QED BY <2>1 DEF Lines
<1>8. \A k \in 1..Len(reply) : reply[k] = EndOfReply \/ Truthful(reply[k])
  BY <1>1 DEF Lines
<1> QED BY <1>4, <1>5, <1>6, <1>7, <1>8 DEF Lines, Truthful

(* A line that the C program writes is the next of its answer.             *)
LEMMA CReplyLines ==
  ASSUME TypeOK, PipeInv, Lines, CReply
  PROVE  Lines'
<1>1. /\ reply \in Seq(Part \cup {EndOfReply}) /\ reply # <<>>
      /\ from_c \in Seq(Part \cup {EndOfReply})
  BY DEF CReply, PipeInv, Answers, TypeOK, ProcTypeOK
<1> DEFINE x == reply[1]
<1>2. /\ Len(reply') = Len(reply) - 1 /\ Len(reply) \in Nat \ {0}
      /\ \A k \in 1..Len(reply') : reply'[k] = reply[k + 1]
      /\ x \in Part \cup {EndOfReply} /\ from_c' = Append(from_c, x)
  BY <1>1, TakeFirst DEF CReply
<1>3. from_c # <<>> \/ parts # <<>> => x = EndOfReply \/ Truthful(x)
  BY <1>2 DEF Lines
<1> HIDE DEF x
<1>4. /\ Len(from_c) \in Nat /\ from_c' # <<>> /\ Len(from_c') = Len(from_c) + 1
      /\ from_c'[Len(from_c) + 1] = x /\ (from_c = <<>> <=> Len(from_c) = 0)
      /\ \A k \in 1..Len(from_c) : from_c'[k] = from_c[k]
  BY <1>1, <1>2, PutLast
<1>5. UNCHANGED <<parts, c_buffers>>
  BY DEF CReply
<1>6. \A k \in 1..Len(from_c') :
        k > 1 \/ parts # <<>> => from_c'[k] = EndOfReply \/ Truthful(from_c'[k])
  <2> SUFFICES ASSUME NEW k \in 1..Len(from_c'), k > 1 \/ parts # <<>>
               PROVE  from_c'[k] = EndOfReply \/ Truthful(from_c'[k])
    OBVIOUS
  <2>1. CASE k = Len(from_c) + 1
    <3>1. from_c # <<>> \/ parts # <<>>
      BY <1>4, <2>1
    <3> QED BY <1>3, <1>4, <2>1, <3>1
  <2>2. CASE k # Len(from_c) + 1
    <3>1. k \in 1..Len(from_c) /\ from_c'[k] = from_c[k]
      BY <1>4, <2>2
    <3> QED BY <3>1 DEF Lines
  <2> QED BY <2>1, <2>2
<1>7. \A k \in 1..Len(reply') : reply'[k] = EndOfReply \/ Truthful(reply'[k])
  <2> TAKE k \in 1..Len(reply')
  <2>1. k + 1 \in 1..Len(reply) /\ k + 1 > 1 /\ reply'[k] = reply[k + 1]
    BY <1>2
  <2> QED BY <2>1 DEF Lines
<1>8. \A k \in 2..Len(parts) : Truthful(parts[k])
  BY DEF Lines
<1> QED BY <1>5, <1>6, <1>7, <1>8 DEF Lines, Truthful

(* The first line is the overflow at the dump.                             *)
LEMMA CDumpLines ==
  ASSUME TypeOK, PipeInv, Lines, CDump
  PROVE  Lines'
<1>1. to_c # <<>> /\ UNCHANGED <<from_c, parts, c_buffers>>
  BY DEF CDump
<1>2. from_c = <<>> /\ parts = <<>>
  BY <1>1 DEF PipeInv, Answers, OnItsWay
<1>3. PICK paged_in \in SUBSET DOMAIN c_buffers :
             reply' = AnswerTo(Listed(paged_in), c_line)
  BY DEF CDump, AnswerTo, Listed
<1>4. \A k \in 2..Len(reply') : reply'[k] = EndOfReply \/ reply'[k] \in Listed(paged_in)
  BY <1>3, ListedIsFinite, AnswerShape DEF TypeOK, ProcTypeOK
<1>5. \A l \in Listed(paged_in) : Truthful(l)
  BY DEF Listed, Truthful
<1>6. Len(reply') \in Nat
  BY <1>3, ListedIsFinite, AnswerShape DEF TypeOK, ProcTypeOK
<1>7. \A k \in 1..Len(reply') : k > 1 => reply'[k] = EndOfReply \/ Truthful(reply'[k])
  BY <1>4, <1>5, <1>6
<1> QED BY <1>1, <1>2, <1>7 DEF Lines, Truthful

(* Every step keeps the lines true.                                        *)
LEMMA NextLines ==
  ASSUME TypeOK, PipeInv, Lines, [Next]_vars
  PROVE  Lines'
<1>1. CASE UNCHANGED <<parts, from_c, reply, c_buffers>>
  BY <1>1, LinesKept
<1>2. CASE ReadPart
  BY <1>2, ReadPartLines
<1>3. CASE ReadLastPart
  <2>1. from_c # <<>> /\ from_c[1] = EndOfReply /\ from_c \in Seq(Part \cup {EndOfReply})
    BY <1>3 DEF ReadLastPart, LastPart, TypeOK, ProcTypeOK
  <2>2. reply = <<>> /\ Len(from_c) = 1
    <3>1. 1 \in 1..Len(from_c)
      BY <2>1, TakeFirst
    <3> QED BY <2>1, <3>1 DEF PipeInv, Answers
  <2>3. from_c' = <<>> /\ parts' = <<>> /\ reply' = <<>>
    BY <1>3, <2>1, <2>2, TakeFirst DEF ReadLastPart, cVars
  <2> QED BY <2>3, LinesNone DEF OnItsWay
<1>4. CASE CApply
  <2>1. ~OnItsWay
    BY <1>4 DEF CApply, PipeInv, Answers
  <2>2. UNCHANGED <<parts, from_c, reply>>
    BY <1>4 DEF CApply
  <2> QED BY <2>1, <2>2, LinesNone DEF OnItsWay
<1>5. CASE CDump
  BY <1>5, CDumpLines
<1>6. CASE CReply
  BY <1>6, CReplyLines
<1>7. CASE CAbort \/ CEndOfFile
  BY <1>1, <1>7 DEF CAbort, CEndOfFile, pipeVars
<1>8. CASE Main /\ ~ProcStep
  BY <1>1, <1>8
  DEF Main, ReadLine, EndOfLog, Ask, AskForDump, Draw, DuplicateFrame, CaughtUp, HoldFrame,
      Finish, ApplyToPool, PoolRaises, ApplyToProcPool, ProcessCommand, procVars, cVars
<1>9. CASE WriteOut(Ended) \/ WriteFails(Ended) \/ Flushed \/ ReplyCutOff
  BY <1>1, <1>9 DEF WriteOut, WriteFails, Flushed, ReplyCutOff, pipeVars, cVars
<1>10. CASE UNCHANGED vars
  BY <1>1, <1>10 DEF vars, procVars
<1> QED
  BY <1>2, <1>3, <1>4, <1>5, <1>6, <1>7, <1>8, <1>9, <1>10
  DEF Next, Main, ProcStep, CProgram, CStep

(* An answer that is kept stays true: nothing that would make it untrue is *)
(* on its way.                                                             *)
LEMMA NextCurrent ==
  ASSUME TypeOK, PipeInv, Lines, Current, [Next]_vars
  PROVE  Current'
<1>1. CASE CProgram /\ (CReply \/ CEndOfFile)
  <2>1. UNCHANGED <<pc, answer, call, written, to_c, c_buffers>> /\ (c' = "aborted" => c = "aborted")
    BY <1>1 DEF CProgram, mainVars, CReply, CEndOfFile, pipeVars
  <2> QED BY <2>1 DEF Current, Truthful
<1>2. CASE (Main /\ ~ProcStep) \/ UNCHANGED vars
  <2>1. CASE ApplyToProcPool
    BY <2>1 DEF ApplyToProcPool, ProcessCommand, Current
  <2>2. CASE Ask
    <3>1. answer = None /\ answer' = None /\ pc' = "draw"
      BY <2>2 DEF Ask, AskForDump, mainVars
    <3> QED BY <3>1 DEF Current
  <2>3. CASE ~ApplyToProcPool /\ ~Ask
    <3>1. UNCHANGED <<answer, call, written, to_c, c, c_buffers>>
      BY <1>2, <2>3
      DEF Main, ReadLine, EndOfLog, Draw, DuplicateFrame, CaughtUp, HoldFrame, Finish,
          ApplyToPool, PoolRaises, vars, procVars, cVars
    <3>2. pc' \in {"dup", "hold"} => pc \in {"dup", "hold"} \/ answer # None
      BY <1>2, <2>3
      DEF Main, ReadLine, EndOfLog, Draw, DuplicateFrame, CaughtUp, HoldFrame, Finish,
          ApplyToPool, PoolRaises, vars, mainVars
    <3> QED BY <3>1, <3>2 DEF Current, Truthful
  <2> QED BY <2>1, <2>2, <2>3
<1>3. CASE ProcStep /\ ~ReadLastPart
  <2>1. answer = None /\ answer' = answer
    BY <1>3 DEF Current, ProcStep, WriteOut, WriteFails, MustWrite, Flushed, ReadPart, ReplyCutOff
  <2>2. pc' \in {pc, "raised"}
    BY <1>3 DEF ProcStep
  <2> QED BY <2>1, <2>2 DEF Current
<1>4. CASE ProcStep /\ ReadLastPart
  <2>1. /\ from_c # <<>> /\ call' = "none" /\ Waiting /\ call = "reply"
        /\ answer' = {parts[k] : k \in 2..Len(parts)}
        /\ UNCHANGED <<written, to_c, c, c_buffers>>
    BY <1>4 DEF ReadLastPart, Waiting, cVars
  <2>2. written = <<>> /\ to_c = <<>> /\ c # "aborted" /\ pc = "draw"
    BY <2>1 DEF PipeInv, Calls, Answers, OnItsWay
  <2>3. pc' = "draw"
    BY <1>4, <2>1, <2>2 DEF ProcStep
  <2>4. \A l \in answer' : Truthful(l)
    BY <2>1 DEF Lines
  <2> QED BY <2>1, <2>2, <2>3, <2>4 DEF Current, Truthful
<1>5. CASE CProgram /\ (CApply \/ CAbort \/ CDump)
  <2>1. answer = None /\ answer' = answer /\ pc' = pc
    BY <1>5 DEF Current, CProgram, mainVars, CApply, CAbort, CDump
  <2> QED BY <2>1 DEF Current
<1> QED
  BY <1>1, <1>2, <1>3, <1>4, <1>5 DEF Next, Main, CProgram, CStep

-----------------------------------------------------------------------------
(* The commands on their way                                               *)

(* What is in the pipe and in Python's buffer for it will turn the buffers *)
(* of the C program into these.                                            *)
OnTheWay(bufs) ==
  \E t, u : Leads(c_buffers, to_c, t) /\ Leads(t, written, u) /\ Alike(u, bufs) /\ Apart(bufs)

(* The two Pools have these buffers, but for the line in hand.             *)
Given(bufs) ==
  \A k \in 1..2 :
    IF pc = "apply" /\ k < turn
    THEN Accepts(bufs, line) /\ pools[k] = After(bufs, line)
    ELSE pools[k] = bufs

InStep ==
  ~Ended /\ ~collided /\ c # "aborted" => \E bufs : OnTheWay(bufs) /\ Given(bufs)

(* A dump changes no buffer.                                               *)
LEMMA DumpChangesNothing == \A s : AfterInC(s, Dump) = s
  BY DEF AfterInC, Dump

(* What is on its way stays so if nobody reads or writes.                  *)
LEMMA WayKept ==
  ASSUME NEW bufs, OnTheWay(bufs), UNCHANGED <<c_buffers, to_c, written>>
  PROVE  OnTheWay(bufs)'
  BY DEF OnTheWay

(* A line is written to the buffer.                                        *)
LEMMA WayWritten ==
  ASSUME TypeOK, NEW m \in Command \cup {Dump}, NEW bufs, NEW after, OnTheWay(bufs),
         UNCHANGED <<c_buffers, to_c>>, written' = Append(written, m),
         \A u : Alike(u, bufs) => Alike(AfterInC(u, m), after),
         Apart(after)
  PROVE  OnTheWay(after)'
<1>1. PICK t, u : /\ Leads(c_buffers, to_c, t) /\ Leads(t, written, u)
                  /\ Alike(u, bufs) /\ Apart(bufs)
  BY Zenon DEF OnTheWay
<1>2. written \in Seq(Command \cup {Dump})
  BY DEF TypeOK, ProcTypeOK
<1>3. Leads(t, written', AfterInC(u, m))
  BY <1>1, <1>2, LeadsAppend
<1>4. Leads(c_buffers', to_c', t)
  BY <1>1
<1>5. Alike(AfterInC(u, m), after)
  BY <1>1
<1> QED BY <1>3, <1>4, <1>5, Zenon DEF OnTheWay

(* The first line of the buffer goes to the pipe.                          *)
LEMMA WayWrittenOut ==
  ASSUME TypeOK, NEW bufs, OnTheWay(bufs), WriteOut(Ended)
  PROVE  OnTheWay(bufs)'
<1>1. PICK t, u : /\ Leads(c_buffers, to_c, t) /\ Leads(t, written, u)
                  /\ Alike(u, bufs) /\ Apart(bufs)
  BY Zenon DEF OnTheWay
<1> DEFINE T == Command \cup {Dump}
<1>2. /\ written \in Seq(T) /\ to_c \in Seq(T) /\ written # <<>>
      /\ to_c' = Append(to_c, Head(written)) /\ written' = Tail(written)
      /\ c_buffers' = c_buffers
  BY DEF TypeOK, ProcTypeOK, WriteOut, MustWrite, cVars
<1> HIDE DEF T
<1>3. Head(written) = written[1] /\ Head(written) \in T
  BY <1>2, TakeFirst
<1>4. Leads(c_buffers', to_c', AfterInC(t, written[1]))
  BY <1>1, <1>2, <1>3, LeadsAppend
<1>5. Leads(AfterInC(t, written[1]), written', u)
  BY <1>1, <1>2, LeadsTail
<1> QED BY <1>1, <1>4, <1>5, Zenon DEF OnTheWay

(* The C program takes a line.                                             *)
LEMMA WayTaken ==
  ASSUME TypeOK, NEW bufs, OnTheWay(bufs), CApply \/ CDump
  PROVE  OnTheWay(bufs)'
<1>1. PICK t, u : /\ Leads(c_buffers, to_c, t) /\ Leads(t, written, u)
                  /\ Alike(u, bufs) /\ Apart(bufs)
  BY Zenon DEF OnTheWay
<1> DEFINE T == Command \cup {Dump}
<1>2. /\ to_c \in Seq(T) /\ to_c # <<>> /\ to_c' = Tail(to_c) /\ written' = written
      /\ c_buffers' = AfterInC(c_buffers, Head(to_c))
  BY DumpChangesNothing DEF TypeOK, ProcTypeOK, CApply, CDump
<1> HIDE DEF T
<1>3. Head(to_c) = to_c[1]
  BY <1>2, TakeFirst
<1>4. Leads(c_buffers', to_c', t)
  BY <1>1, <1>2, <1>3, LeadsTail
<1>5. Leads(t, written', u)
  BY <1>1, <1>2
<1> QED BY <1>1, <1>4, <1>5, Zenon DEF OnTheWay

(* What has ended or gone wrong stays so.                                  *)
LEMMA StaysSo ==
  ASSUME [Next]_vars, ~Ended', ~collided', c' # "aborted"
  PROVE  ~Ended /\ ~collided /\ c # "aborted"
<1>1. ~Ended
  <2>1. CASE ProcStep
    BY <2>1 DEF ProcStep, Ended
  <2>2. CASE ~ProcStep
    BY <2>2 DEF Next, Main, CProgram, vars, mainVars, Ended, ReadLine, EndOfLog, Ask, Draw,
                DuplicateFrame, CaughtUp, HoldFrame, Finish, ApplyToPool, PoolRaises, ApplyToProcPool
  <2> QED BY <2>1, <2>2
<1>2. ~collided
  BY DEF Next, Main, ProcStep, CProgram, vars, mainVars, ReadLine, EndOfLog, Ask, Draw,
         DuplicateFrame, CaughtUp, HoldFrame, Finish, ApplyToPool, PoolRaises, ApplyToProcPool
<1>3. c # "aborted"
  <2>1. CASE CProgram
    BY <2>1 DEF CProgram, CStep, CApply, CAbort, CDump, CReply, CEndOfFile
  <2>2. CASE ProcStep
    BY <2>2 DEF ProcStep, WriteOut, WriteFails, Flushed, ReadPart, ReadLastPart, ReplyCutOff, cVars
  <2>3. CASE ~CProgram /\ ~ProcStep
    BY <2>3 DEF Next, Main, vars, procVars, cVars, ReadLine, EndOfLog, Ask, AskForDump, Draw,
                DuplicateFrame, CaughtUp, HoldFrame, Finish, ApplyToPool, PoolRaises,
                ApplyToProcPool, ProcessCommand
  <2> QED BY <2>1, <2>2, <2>3
<1> QED BY <1>1, <1>2, <1>3

(* The steps of the pipes leave what the commands on their way amount to.  *)
LEMMA PipesInStep ==
  ASSUME TypeOK, NEW bufs, OnTheWay(bufs), c' # "aborted",
         \/ AskForDump \/ WriteOut(Ended) \/ Flushed \/ ReadPart \/ ReadLastPart
         \/ CStep \/ CEndOfFile
  PROVE  OnTheWay(bufs)'
<1>1. CASE UNCHANGED <<c_buffers, to_c, written>>
  BY <1>1, WayKept
<1>2. CASE AskForDump
  <2>1. UNCHANGED <<c_buffers, to_c>> /\ written' = Append(written, Dump)
    BY <1>2 DEF AskForDump, cVars
  <2>2. Apart(bufs) /\ \A u : Alike(u, bufs) => Alike(AfterInC(u, Dump), bufs)
    BY DumpChangesNothing DEF OnTheWay
  <2> QED BY <2>1, <2>2, WayWritten
<1>3. CASE WriteOut(Ended)
  BY <1>3, WayWrittenOut
<1>4. CASE Flushed \/ ReadPart \/ ReadLastPart \/ CReply \/ CEndOfFile
  BY <1>1, <1>4 DEF Flushed, ReadPart, ReadLastPart, CReply, CEndOfFile, pipeVars, cVars
<1>5. CASE CApply \/ CDump
  BY <1>5, WayTaken
<1>6. CASE CAbort
  BY <1>6 DEF CAbort
<1> QED BY <1>2, <1>3, <1>4, <1>5, <1>6 DEF CStep

(* The third pool is given the line that the other two have accepted.      *)
LEMMA ApplyInStep ==
  ASSUME TypeOK, InHand, NEW bufs, OnTheWay(bufs), Given(bufs), ApplyToProcPool, ~collided'
  PROVE  InStep'
<1>1. /\ pc = "apply" /\ turn = 3 /\ pc' = "read" /\ line \in Command /\ pools' = pools
      /\ UNCHANGED <<c_buffers, to_c>> /\ written' = Append(written, line)
  BY DEF ApplyToProcPool, ProcessCommand, InHand, cVars
<1>2. PICK after : after = After(bufs, line)
  OBVIOUS
<1>3. Accepts(bufs, line) /\ pools[1] = after /\ pools[2] = after
  BY <1>1, <1>2 DEF Given
<1>4. Apart(after)
  BY <1>3 DEF ApplyToProcPool, Apart
<1>5. Apart(bufs)
  BY DEF OnTheWay
<1>6. \A u : Alike(u, bufs) => Alike(AfterInC(u, line), after)
  BY <1>1, <1>2, <1>3, <1>4, <1>5, AlikeAfter
<1>7. OnTheWay(after)'
  <2>1. PICK m \in Command \cup {Dump} : m = line
    BY <1>1
  <2> QED BY <1>1, <1>4, <1>6, <2>1, WayWritten
<1>8. Given(after)'
  BY <1>1, <1>3 DEF Given
<1> QED BY <1>7, <1>8, Zenon DEF InStep

(* Every step keeps the pools in step.                                     *)
LEMMA NextInStep ==
  ASSUME TypeOK, InHand, Position, InStep, [Next]_vars
  PROVE  InStep'
<1> SUFFICES ASSUME ~Ended', ~collided', c' # "aborted"
             PROVE  (\E bufs : OnTheWay(bufs) /\ Given(bufs))'
  BY DEF InStep
<1>1. PICK bufs : OnTheWay(bufs) /\ Given(bufs)
  BY StaysSo DEF InStep
<1>2. CASE ApplyToProcPool
  BY <1>1, <1>2, ApplyInStep DEF InStep
<1>3. CASE CProgram
  <2>1. OnTheWay(bufs)'
    BY <1>1, <1>3, PipesInStep DEF CProgram
  <2>2. Given(bufs)'
    BY <1>1, <1>3 DEF CProgram, mainVars, Given
  <2> QED BY <2>1, <2>2, Zenon
<1>4. CASE ProcStep
  <2>1. ~WriteFails(Ended) /\ ~ReplyCutOff
    BY StaysSo DEF WriteFails, ReplyCutOff
  <2>2. OnTheWay(bufs)'
    BY <1>1, <1>4, <2>1, PipesInStep DEF ProcStep
  <2>3. UNCHANGED <<pc, turn, line, pools>>
    BY <1>4 DEF ProcStep, Ended
  <2>4. Given(bufs)'
    BY <1>1, <2>3 DEF Given
  <2> QED BY <2>2, <2>4, Zenon
<1>5. CASE Ask
  <2>1. OnTheWay(bufs)'
    BY <1>1, <1>5, PipesInStep DEF Ask
  <2>2. Given(bufs)'
    BY <1>1, <1>5 DEF Ask, mainVars, Given
  <2> QED BY <2>1, <2>2, Zenon
<1>6. CASE ApplyToPool
  <2>1. OnTheWay(bufs)'
    BY <1>1, <1>6, WayKept DEF ApplyToPool, procVars, cVars
  <2>2. /\ pc = "apply" /\ turn \in 1..2 /\ Accepts(pools[turn], line)
        /\ pools' = [pools EXCEPT ![turn] = After(@, line)] /\ turn' = turn + 1
        /\ UNCHANGED <<pc, line>> /\ DOMAIN pools = 1..2
    BY <1>6 DEF ApplyToPool, TypeOK
  <2>3. pools[turn] = bufs
    BY <1>1, <2>2 DEF Given
  <2>4. ASSUME NEW k \in 1..2
        PROVE  IF k < turn + 1 THEN Accepts(bufs, line) /\ pools'[k] = After(bufs, line)
                               ELSE pools'[k] = bufs
    <3>1. CASE k = turn
      BY <2>2, <2>3, <3>1
    <3>2. CASE k # turn
      <4>1. pools'[k] = pools[k] /\ (k < turn <=> k < turn + 1)
        BY <2>2, <3>2
      <4> QED BY <1>1, <2>2, <4>1 DEF Given
    <3> QED BY <3>1, <3>2
  <2>5. Given(bufs)'
    BY <2>2, <2>4 DEF Given
  <2> QED BY <2>1, <2>5, Zenon
<1>7. CASE (\E m \in Command, step \in Steps : ReadLine(m, step)) \/ EndOfLog \/ Draw
           \/ DuplicateFrame \/ CaughtUp \/ HoldFrame \/ UNCHANGED vars
  <2>1. UNCHANGED procVars /\ pools' = pools
    BY <1>7 DEF ReadLine, EndOfLog, Draw, DuplicateFrame, CaughtUp, HoldFrame, vars, mainVars
  <2>2. \/ UNCHANGED <<pc, turn, line>>
        \/ pc # "apply" /\ (pc' = "apply" => turn' = 1)
    BY <1>7
    DEF ReadLine, EndOfLog, Draw, DuplicateFrame, CaughtUp, HoldFrame, vars, mainVars, Position
  <2>3. OnTheWay(bufs)'
    BY <1>1, <2>1, WayKept DEF procVars
  <2>4. Given(bufs)'
    BY <1>1, <2>1, <2>2 DEF Given
  <2> QED BY <2>3, <2>4, Zenon
<1>8. CASE Finish \/ PoolRaises
  BY <1>8 DEF Finish, PoolRaises, Ended
<1> QED
  BY <1>2, <1>3, <1>4, <1>5, <1>6, <1>7, <1>8 DEF Next, Main

-----------------------------------------------------------------------------
(* The theorem *)

AgreeInv == SimInv /\ Lines /\ Current /\ InStep

(* At the start nothing is on its way.                                     *)
LEMMA InitAgree == Init => Lines /\ Current /\ InStep
<1> SUFFICES ASSUME Init PROVE Lines /\ Current /\ InStep
  OBVIOUS
<1>1. Lines /\ Current
  BY DEF Init, ProcInit, Lines, Current
<1> DEFINE none == [n \in {} |-> FALSE]
<1>2. Leads(c_buffers, to_c, none) /\ Leads(none, written, none)
  BY LeadsEmpty DEF Init, ProcInit
<1>3. Alike(none, none) /\ Apart(none)
  BY DEF Alike, Apart
<1>4. Given(none)
  BY DEF Given, Init
<1> HIDE DEF none
<1>5. OnTheWay(none)
  BY <1>2, <1>3, Zenon DEF OnTheWay
<1> QED BY <1>1, <1>4, <1>5, Zenon DEF InStep

(* The invariant: what the C program says is true, and what is on its way  *)
(* to it will bring it to where the two Pools are.                         *)
THEOREM AgreeInvariant == Spec => []AgreeInv
<1>1. Init => Lines /\ Current /\ InStep
  BY InitAgree
<1>2. SimInv /\ Lines /\ Current /\ InStep /\ [Next]_vars => (Lines /\ Current /\ InStep)'
  BY NextLines, NextCurrent, NextInStep DEF SimInv, VideoInv
<1>3. AgreeInv <=> SimInv /\ Lines /\ Current /\ InStep
  BY DEF AgreeInv
<1> QED BY <1>1, <1>2, <1>3, SimulatorInvariant, PTL DEF Spec

(* However many commands wait in the buffer and in the pipe, and wherever  *)
(* the C program stands, the pools of a frame are alike: asking for a dump *)
(* makes the C program catch up.                                           *)
THEOREM PoolsAgreeCorrect == Spec => []PoolsAgree
<1>1. AgreeInv => PoolsAgree
  <2> SUFFICES ASSUME AgreeInv, pc \in {"dup", "hold"}, ~collided
               PROVE  /\ pools[1] = pools[2]
                      /\ DOMAIN c_buffers = {LowName(n) : n \in DOMAIN pools[1]}
                      /\ \A n \in DOMAIN pools[1] : c_buffers[LowName(n)] = pools[1][n]
                      /\ \A l \in answer : l.name \in DOMAIN c_buffers /\ l.in_use = c_buffers[l.name]
    BY DEF PoolsAgree
  <2>1. /\ written = <<>> /\ to_c = <<>> /\ c # "aborted" /\ ~Ended
        /\ \A l \in answer : Truthful(l)
    BY DEF AgreeInv, Current, Ended
  <2>2. PICK bufs : OnTheWay(bufs) /\ Given(bufs)
    BY <2>1 DEF AgreeInv, InStep
  <2>3. Alike(c_buffers, bufs)
    <3>1. PICK t, u : Leads(c_buffers, <<>>, t) /\ Leads(t, <<>>, u) /\ Alike(u, bufs)
      BY <2>1, <2>2, Zenon DEF OnTheWay
    <3> QED BY <3>1, LeadsEmpty
  <2>4. pools[1] = bufs /\ pools[2] = bufs
    BY <2>2 DEF Given
  <2> QED BY <2>1, <2>3, <2>4 DEF Alike, Truthful
<1> QED BY <1>1, AgreeInvariant, PTL
=============================================================================
