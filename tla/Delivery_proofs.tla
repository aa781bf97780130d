----------------------------- MODULE Delivery_proofs -----------------------------
(* What reaches the readers of a board, for every number of them: a browser   *)
(* shows a prefix of the log, a waiting reader misses no answer, subscribers  *)
(* of hints do not cut each other off, readiness follows the samples, and who *)
(* is shown as present is.  One part for each of the components, which share  *)
(* nothing but the library.                                                   *)
EXTENDS BoardStream, HitlWait, EventFanout, StreamHealth, Presence, SequenceTheorems,
        FiniteSetTheorems, TLAPS

(***************************************************************************)
(* The inductive invariant                                                 *)
(*                                                                         *)
(* The frames on their way, those written and those still to be written,   *)
(* are one chain that starts where the client stands and ends where the    *)
(* handler believes to be.  A frame that was lost takes the whole chain    *)
(* with it, and the next one starts from the cursor the client kept.       *)
(***************************************************************************)

Frames == wire \o server.out
Chained(frames) == \A i \in 1..(Len(frames) - 1) : Follows(frames[i], frames[i + 1])

\* The client shows its board up to the event it holds a cursor of.
ReconSound ==
  /\ recon.min = recon.last /\ recon.last <= Head_
  /\ recon.awaiting <=> recon.cursor = None
  /\ recon.cursor # None => recon.cursor.seq = recon.last
  /\ view = 1..recon.last

\* A frame is about an event of the log, and only presence frames have no cursor.
FrameSound(f) == f.seq <= Head_ /\ (f.cursor = None <=> f.kind = "presence")
FramesSound == \A i \in 1..Len(Frames) : FrameSound(Frames[i])

ChainSound == Chained(Frames) /\ (Frames # <<>> => Continues(Frames[1]))

\* The frames end at event n, which is where the client is when there are none.
Ends(frames, n) ==
  IF frames = <<>> THEN ~recon.awaiting /\ recon.last = n ELSE frames[Len(frames)].seq = n

\* Where the handler believes to be; a request that is over has nothing to write.
PositionSound ==
  /\ server.phase = "none" => server.out = <<>>
  /\ server.phase = "cut" => wire = <<>> /\ Ends(server.out, server.seq)
  /\ server.phase = "serving" /\ server.out = <<>> => Ends(wire, server.seq)
  /\ server.seq <= Head_

\* Nothing is on its way to a client that does not read, and a board that is fetched
\* reflects the event that made the client fetch it.
ClientSound ==
  /\ phase \notin {"reading", "refreshing"} => wire = <<>> /\ server = NoServer
  /\ phase = "refreshing" =>
       wire # <<>> /\ (refreshed # 0 => refreshed <= Head_ /\ refreshed >= wire[1].seq)
  /\ NeverOutOfSequence

SInv ==
  /\ TypeOK /\ ReconSound /\ FramesSound /\ ChainSound /\ PositionSound /\ ClientSound

(***************************************************************************)
(* Chains of frames                                                        *)
(***************************************************************************)

\* What is left of a chain is a chain and follows the frame that was read.
LEMMA ChainTail ==
  ASSUME NEW S, NEW frames \in Seq(S), frames # <<>>, Chained(frames)
  PROVE  /\ Chained(Tail(frames)) /\ Head(frames) = frames[1]
         /\ Tail(frames) # <<>> => Follows(frames[1], Tail(frames)[1]) /\ Len(frames) > 1
         /\ Tail(frames) = <<>> => Len(frames) = 1
  <1>1. /\ Tail(frames) \in Seq(S) /\ Len(Tail(frames)) = Len(frames) - 1 /\ Len(frames) \in Nat \ {0}
        /\ \A i \in 1..Len(Tail(frames)) : Tail(frames)[i] = frames[i + 1]
    BY HeadTailProperties, EmptySeq
  <1>2. Chained(Tail(frames))
    <2>1. ASSUME NEW i \in 1..(Len(Tail(frames)) - 1)
          PROVE  Follows(Tail(frames)[i], Tail(frames)[i + 1])
      <3>1. /\ Tail(frames)[i] = frames[i + 1] /\ Tail(frames)[i + 1] = frames[i + 1 + 1]
            /\ i + 1 \in 1..(Len(frames) - 1)
        BY <1>1
      <3>2. QED
        BY <3>1 DEF Chained
    <2>2. QED
      BY <2>1 DEF Chained
  <1>3. ASSUME Tail(frames) # <<>> PROVE Follows(frames[1], Tail(frames)[1]) /\ Len(frames) > 1
    <2>1. Len(Tail(frames)) \in Nat \ {0}
      BY <1>1, <1>3, EmptySeq
    <2>2. Tail(frames)[1] = frames[1 + 1] /\ 1 \in 1..(Len(frames) - 1)
      BY <1>1, <2>1
    <2>3. QED
      BY <1>1, <2>1, <2>2 DEF Chained
  <1>4. Tail(frames) = <<>> => Len(frames) = 1
    BY <1>1, EmptySeq
  <1>5. Head(frames) = frames[1]
    OBVIOUS
  <1>6. QED
    BY <1>2, <1>3, <1>4, <1>5

\* A chain that is continued by another one.
LEMMA ChainJoin ==
  ASSUME NEW S, NEW s \in Seq(S), NEW t \in Seq(S), Chained(s), Chained(t),
         s # <<>> /\ t # <<>> => Follows(s[Len(s)], t[1])
  PROVE  Chained(s \o t)
  <1>1. /\ Len(s) \in Nat /\ Len(t) \in Nat /\ Len(s \o t) = Len(s) + Len(t)
        /\ \A i \in 1..(Len(s) + Len(t)) : (s \o t)[i] = IF i <= Len(s) THEN s[i] ELSE t[i - Len(s)]
    BY ConcatProperties, LenProperties
  <1>2. ASSUME NEW i \in 1..(Len(s) + Len(t) - 1) PROVE Follows((s \o t)[i], (s \o t)[i + 1])
    <2>1. CASE i < Len(s)
      <3>1. (s \o t)[i] = s[i] /\ (s \o t)[i + 1] = s[i + 1] /\ i \in 1..(Len(s) - 1)
        BY <1>1, <2>1
      <3>2. QED
        BY <3>1 DEF Chained
    <2>2. CASE i = Len(s)
      <3>1. (s \o t)[i] = s[Len(s)] /\ (s \o t)[i + 1] = t[1] /\ Len(s) > 0 /\ Len(t) > 0
        BY <1>1, <2>2
      <3>2. s # <<>> /\ t # <<>>
        BY <3>1
      <3>3. QED
        BY <3>1, <3>2
    <2>3. CASE i > Len(s)
      <3>1. /\ (s \o t)[i] = t[i - Len(s)] /\ (s \o t)[i + 1] = t[i - Len(s) + 1]
            /\ i - Len(s) \in 1..(Len(t) - 1)
        BY <1>1, <2>3
      <3>2. QED
        BY <3>1 DEF Chained
    <2>4. QED
      BY <1>1, <2>1, <2>2, <2>3
  <1>3. QED
    BY <1>1, <1>2 DEF Chained

\* The frames that were written before the rest was given up.
LEMMA ChainPrefix ==
  ASSUME NEW S, NEW s \in Seq(S), NEW t \in Seq(S), Chained(s \o t)
  PROVE  Chained(s)
  <1>1. /\ Len(s) \in Nat /\ Len(t) \in Nat /\ Len(s \o t) = Len(s) + Len(t)
        /\ \A i \in 1..(Len(s) + Len(t)) : (s \o t)[i] = IF i <= Len(s) THEN s[i] ELSE t[i - Len(s)]
    BY ConcatProperties, LenProperties
  <1>2. ASSUME NEW i \in 1..(Len(s) - 1) PROVE Follows(s[i], s[i + 1])
    <2>1. (s \o t)[i] = s[i] /\ (s \o t)[i + 1] = s[i + 1] /\ i \in 1..(Len(s \o t) - 1)
      BY <1>1
    <2>2. QED
      BY <2>1 DEF Chained
  <1>3. QED
    BY <1>2 DEF Chained

\* The ends of two sequences put together.
LEMMA JoinEnds ==
  ASSUME NEW S, NEW s \in Seq(S), NEW t \in Seq(S)
  PROVE  /\ s \o t \in Seq(S)
         /\ s # <<>> => s \o t # <<>> /\ (s \o t)[1] = s[1]
         /\ s = <<>> => s \o t = t
         /\ t = <<>> => s \o t = s
         /\ \A i \in 1..Len(s \o t) :
              \/ i \in 1..Len(s) /\ (s \o t)[i] = s[i]
              \/ i - Len(s) \in 1..Len(t) /\ (s \o t)[i] = t[i - Len(s)]
         /\ \A i \in 1..Len(s) : i \in 1..Len(s \o t) /\ (s \o t)[i] = s[i]
         /\ \A i \in 1..Len(t) : Len(s) + i \in 1..Len(s \o t) /\ (s \o t)[Len(s) + i] = t[i]
  <1>1. /\ Len(s) \in Nat /\ Len(t) \in Nat /\ Len(s \o t) = Len(s) + Len(t) /\ s \o t \in Seq(S)
        /\ \A i \in 1..(Len(s) + Len(t)) : (s \o t)[i] = IF i <= Len(s) THEN s[i] ELSE t[i - Len(s)]
    BY ConcatProperties, LenProperties
  <1>2. s # <<>> => s \o t # <<>> /\ (s \o t)[1] = s[1]
    <2>1. s # <<>> => Len(s) > 0
      BY <1>1, EmptySeq
    <2>2. QED
      BY <1>1, <2>1
  <1>3. (s = <<>> => s \o t = t) /\ (t = <<>> => s \o t = s)
    BY ConcatEmptySeq
  <1>4. QED
    BY <1>1, <1>2, <1>3

\* Writing a frame moves it from what is to be written to what is to be read.
LEMMA WrittenFrame ==
  ASSUME NEW s \in Seq(FrameType), NEW t \in Seq(FrameType), t # <<>>,
         NEW a, a = Append(s, Head(t)), NEW b, b = Tail(t)
  PROVE  a \o b = s \o t /\ a \in Seq(FrameType) /\ b \in Seq(FrameType) /\ a # <<>> /\ a[Len(a)] = Head(t)
  <1>1. Head(t) \in FrameType /\ Tail(t) \in Seq(FrameType) /\ Len(Tail(t)) = Len(t) - 1
        /\ \A i \in 1..Len(Tail(t)) : Tail(t)[i] = t[i + 1]
    BY HeadTailProperties
  <1>2. /\ Append(s, Head(t)) \in Seq(FrameType) /\ Append(s, Head(t)) # <<>>
        /\ Len(Append(s, Head(t))) = Len(s) + 1
        /\ \A i \in 1..Len(s) : Append(s, Head(t))[i] = s[i]
        /\ Append(s, Head(t))[Len(s) + 1] = Head(t)
    BY <1>1, AppendProperties
  <1>3. /\ a \o b \in Seq(FrameType) /\ s \o t \in Seq(FrameType) /\ Len(a \o b) = Len(a) + Len(b)
        /\ Len(s \o t) = Len(s) + Len(t) /\ Len(s) \in Nat /\ Len(t) \in Nat
        /\ \A i \in 1..(Len(a) + Len(b)) : (a \o b)[i] = IF i <= Len(a) THEN a[i] ELSE b[i - Len(a)]
        /\ \A i \in 1..(Len(s) + Len(t)) : (s \o t)[i] = IF i <= Len(s) THEN s[i] ELSE t[i - Len(s)]
    BY <1>1, <1>2, ConcatProperties, LenProperties
  <1>4. Len(t) > 0 /\ Head(t) = t[1]
    BY EmptySeq
  <1>5. Len(a \o b) = Len(s \o t)
    BY <1>1, <1>2, <1>3
  <1>6. ASSUME NEW i \in 1..Len(a \o b) PROVE (a \o b)[i] = (s \o t)[i]
    <2>1. i \in 1..(Len(s) + Len(t)) /\ i \in 1..(Len(a) + Len(b)) /\ Len(a) = Len(s) + 1
          /\ Len(b) = Len(t) - 1
      BY <1>1, <1>2, <1>3, <1>5
    <2>2. CASE i <= Len(s)
      BY <1>2, <1>3, <2>1, <2>2
    <2>3. CASE i = Len(s) + 1
      BY <1>2, <1>3, <1>4, <2>1, <2>3
    <2>4. CASE i > Len(s) + 1
      <3>1. (a \o b)[i] = b[i - (Len(s) + 1)] /\ (s \o t)[i] = t[i - Len(s)]
            /\ i - (Len(s) + 1) \in 1..Len(b)
        BY <1>3, <2>1, <2>4
      <3>2. b[i - (Len(s) + 1)] = t[i - (Len(s) + 1) + 1]
        BY <1>1, <3>1
      <3>3. QED
        BY <1>3, <2>1, <3>1, <3>2
    <2>5. QED
      BY <1>3, <2>1, <2>2, <2>3, <2>4
  <1>7. a \o b = s \o t
    BY <1>3, <1>5, <1>6, SeqEqual
  <1>8. QED
    BY <1>1, <1>2, <1>7

\* The frames of a range of the log are a chain from the event after its start to its end.
LEMMA RangeIsChain ==
  ASSUME StreamAssumption, TypeOK, NEW from \in Nat, NEW to \in Nat, from <= to, to <= Head_
  PROVE  /\ RangeAfter(from, to) \in Seq(FrameType) /\ Len(RangeAfter(from, to)) = to - from
         /\ Chained(RangeAfter(from, to))
         /\ \A i \in 1..(to - from) :
              /\ RangeAfter(from, to)[i].seq = from + i
              /\ RangeAfter(from, to)[i].kind \notin {"presence", "snapshot"}
              /\ FrameSound(RangeAfter(from, to)[i])
  <1> DEFINE R == [i \in 1..(to - from) |-> EventFrame(from + i)]
  <1>1. RangeAfter(from, to) = R
    BY DEF RangeAfter
  <1>2. ASSUME NEW i \in 1..(to - from)
        PROVE  /\ EventFrame(from + i) \in FrameType /\ FrameSound(EventFrame(from + i))
               /\ EventFrame(from + i).seq = from + i
               /\ EventFrame(from + i).kind \notin {"presence", "snapshot"}
    <2>1. from + i \in 1..Len(log) /\ from + i \in 1..MaxLog /\ Len(log) \in Nat
      BY DEF TypeOK, Head_, StreamAssumption
    <2>2. log[from + i] \in {"revision", "state", "resync"}
      <3>1. log \in Seq(EventKinds \cup {"revision"})
        BY DEF TypeOK
      <3>2. log[from + i] \in EventKinds \cup {"revision"}
        BY <2>1, <3>1, ElementOfSeq
      <3>3. QED
        BY <3>2 DEF StreamAssumption
    <2>3. key \in 0..MaxRotations /\ key # None
      BY DEF TypeOK, StreamAssumption
    <2>4. QED
      BY <2>1, <2>2, <2>3 DEF EventFrame, FrameType, FrameSound, Head_
  <1>3. R \in Seq(FrameType) /\ Len(R) = to - from
    BY <1>2
  <1>4. \A i \in 1..(to - from) : R[i] = EventFrame(from + i)
    OBVIOUS
  <1> HIDE DEF R
  <1>5. Chained(R)
    <2>1. ASSUME NEW i \in 1..(Len(R) - 1) PROVE Follows(R[i], R[i + 1])
      <3>1. i \in 1..(to - from) /\ i + 1 \in 1..(to - from)
        BY <1>3, <2>1
      <3>2. R[i].seq = from + i /\ R[i + 1].seq = from + (i + 1)
            /\ R[i + 1].kind \notin {"presence", "snapshot"}
        BY <1>2, <1>4, <3>1
      <3>3. QED
        BY <3>1, <3>2 DEF Follows
    <2>2. QED
      BY <2>1 DEF Chained
  <1>6. QED
    BY <1>1, <1>2, <1>3, <1>4, <1>5

(***************************************************************************)
(* Steps that keep the frames, or give them up                             *)
(***************************************************************************)

\* The fields of the record types, one by one.
LEMMA FieldsTyped ==
  ASSUME TypeOK, StreamAssumption
  PROVE  /\ server.phase \in {"none", "cut", "serving"} /\ server.seq \in 0..MaxLog
         /\ server.out \in Seq(FrameType) /\ wire \in Seq(FrameType)
         /\ server = [phase |-> server.phase, seq |-> server.seq, out |-> server.out]
         /\ recon.awaiting \in BOOLEAN /\ recon.last \in 1..MaxLog /\ recon.min \in 1..MaxLog
         /\ recon.cursor \in CursorType \cup {None} /\ recon.ledger \in SUBSET (1..MaxLog)
         /\ Head_ \in 1..MaxLog /\ MaxLog \in Nat /\ Head_ \in Nat
         /\ Frames \in Seq(FrameType)
  <1>1. server.out \in Seq(FrameType) /\ wire \in Seq(FrameType)
    BY DEF TypeOK
  <1>2. Frames \in Seq(FrameType)
    BY <1>1, JoinEnds DEF Frames
  <1>3. QED
    BY <1>1, <1>2 DEF TypeOK, StreamAssumption, Head_

\* The frames, the client's position and the end of the log are left alone.
LEMMA FramesKept ==
  ASSUME SInv, UNCHANGED <<recon, log>>, Frames' = Frames
  PROVE  FramesSound' /\ ChainSound'
  BY DEF SInv, FramesSound, FrameSound, ChainSound, Chained, Follows, Continues, Head_

\* The client gives up what is on its way: it starts over or stops.
LEMMA GivenUp ==
  ASSUME StreamAssumption, SInv, TypeOK', ReconSound', UNCHANGED log, server' = NoServer, wire' = <<>>,
         phase' \notin {"reading", "refreshing", "control_sequence", "snapshot_below_minimum"}
  PROVE  SInv'
  <1>1. server'.phase = "none" /\ server'.out = <<>> /\ server'.seq = 0
    BY DEF NoServer
  <1>2. Frames' = <<>>
    BY <1>1, JoinEnds, EmptySeq DEF Frames
  <1>3. FramesSound' /\ ChainSound'
    BY <1>2 DEF FramesSound, ChainSound, Chained
  <1>4. PositionSound' /\ ClientSound'
    <2>1. Head_' \in Nat
      BY FieldsTyped DEF SInv, Head_
    <2>2. QED
      BY <1>1, <2>1 DEF PositionSound, ClientSound, NeverOutOfSequence
  <1>5. QED
    BY <1>3, <1>4 DEF SInv

\* The request ends; what was written is still read.
LEMMA RequestEnds ==
  ASSUME StreamAssumption, SInv, server' = NoServer, key' \in 0..MaxRotations, cuts' \in 0..MaxCuts,
         UNCHANGED <<log, access, wire, clientVars>>
  PROVE  SInv'
  <1>1. server'.phase = "none" /\ server'.out = <<>> /\ server'.seq = 0
    BY DEF NoServer
  <1>2. UNCHANGED <<phase, recon, resetUsed, view, refreshed>>
    BY DEF clientVars
  <1>3. TypeOK'
    <2>1. NoServer \in [phase : {"none", "cut", "serving"}, seq : 0..MaxLog, out : Seq(FrameType)]
      BY EmptySeq DEF NoServer, StreamAssumption
    <2>2. QED
      BY <1>2, <2>1 DEF SInv, TypeOK
  <1>4. wire \in Seq(FrameType) /\ server.out \in Seq(FrameType) /\ Head_ \in Nat
    BY FieldsTyped DEF SInv
  <1>5. Frames' = wire
    BY <1>1, <1>4, JoinEnds DEF Frames
  <1>6. FramesSound'
    <2>1. \A i \in 1..Len(wire) : i \in 1..Len(Frames) /\ Frames[i] = wire[i]
      BY <1>4, JoinEnds DEF Frames
    <2>2. \A i \in 1..Len(wire) : FrameSound(wire[i])
      BY <2>1 DEF SInv, FramesSound
    <2>3. QED
      BY <1>5, <2>2 DEF FramesSound, FrameSound, Head_
  <1>7. ChainSound'
    <2>1. Chained(wire)
      BY <1>4, ChainPrefix DEF SInv, ChainSound, Frames
    <2>2. wire # <<>> => Continues(wire[1])
      BY <1>4, JoinEnds DEF SInv, ChainSound, Frames
    <2>3. QED
      BY <1>2, <1>5, <2>1, <2>2 DEF ChainSound, Chained, Follows, Continues
  <1>8. ReconSound' /\ ClientSound'
    BY <1>2 DEF SInv, ReconSound, ClientSound, NeverOutOfSequence, Head_
  <1>9. PositionSound'
    BY <1>1, <1>4 DEF PositionSound, Head_
  <1>10. QED
    BY <1>3, <1>6, <1>7, <1>8, <1>9 DEF SInv

(***************************************************************************)
(* The board and its surroundings                                          *)
(***************************************************************************)

\* An event is appended to the log.
LEMMA CommitKeeps ==
  ASSUME StreamAssumption, SInv, NEW kind \in EventKinds, Commit(kind)
  PROVE  SInv'
  <1>1. /\ Head_ < MaxLog /\ log' = Append(log, kind)
        /\ UNCHANGED <<access, key, server, wire, phase, recon, resetUsed, view, refreshed, cuts>>
    BY DEF Commit, serverVars, clientVars
  <1>2. Head_' = Head_ + 1 /\ Head_ \in Nat /\ MaxLog \in Nat /\ recon.last \in Nat /\ server.seq \in Nat
    BY <1>1, FieldsTyped DEF SInv, TypeOK, Head_
  <1>3. log' \in Seq(EventKinds \cup {"revision"}) /\ Len(log') \in 1..MaxLog
    <2>1. log \in Seq(EventKinds \cup {"revision"})
      BY DEF SInv, TypeOK
    <2>2. log' \in Seq(EventKinds \cup {"revision"})
      BY <1>1, <2>1, AppendProperties
    <2>3. QED
      BY <1>1, <1>2, <2>2 DEF Head_
  <1>4. TypeOK' /\ ReconSound'
    BY <1>1, <1>2, <1>3 DEF SInv, TypeOK, ReconSound
  <1>5. Frames' = Frames
    BY <1>1 DEF Frames
  <1>6. FramesSound'
    <2>1. ASSUME NEW i \in 1..Len(Frames) PROVE FrameSound(Frames[i])'
      <3>1. Frames[i] \in FrameType /\ FrameSound(Frames[i])
        BY FieldsTyped, ElementOfSeq DEF SInv, FramesSound
      <3>2. QED
        BY <1>2, <1>5, <3>1 DEF FrameSound, FrameType
    <2>2. QED
      BY <1>5, <2>1 DEF FramesSound
  <1>7. ChainSound'
    BY <1>1, <1>5 DEF SInv, ChainSound, Chained, Follows, Continues
  <1>8. PositionSound'
    BY <1>1, <1>2 DEF SInv, PositionSound, Ends
  <1>9. ClientSound'
    BY <1>1, <1>2 DEF SInv, TypeOK, ClientSound, NeverOutOfSequence
  <1>10. QED
    BY <1>4, <1>6, <1>7, <1>8, <1>9 DEF SInv

\* The access ends, or the cursor grows old.
LEMMA SurroundingsKeep ==
  ASSUME StreamAssumption, SInv, Revoke \/ CursorAges
  PROVE  SInv'
  <1>1. CASE Revoke
    <2>1. access' = FALSE
          /\ UNCHANGED <<log, key, server, wire, phase, recon, resetUsed, view, refreshed, cuts>>
      BY <1>1 DEF Revoke, serverVars, clientVars
    <2>2. TypeOK' /\ Frames' = Frames
      BY <2>1 DEF SInv, TypeOK, Frames
    <2>3. ReconSound' /\ PositionSound' /\ ClientSound'
      BY <2>1 DEF SInv, ReconSound, PositionSound, ClientSound, Ends, NeverOutOfSequence, Head_
    <2>4. QED
      BY <2>1, <2>2, <2>3, FramesKept DEF SInv
  <1>2. CASE CursorAges
    <2>1. /\ recon.cursor # None /\ recon' = [recon EXCEPT !.cursor.fresh = FALSE]
          /\ UNCHANGED <<log, access, key, server, wire, phase, resetUsed, view, refreshed, cuts>>
      BY <1>2 DEF CursorAges, serverVars
    <2>2. recon.cursor \in CursorType
      BY <2>1 DEF SInv, TypeOK
    <2>3. /\ recon'.awaiting = recon.awaiting /\ recon'.last = recon.last /\ recon'.min = recon.min
          /\ recon'.ledger = recon.ledger /\ recon'.cursor = [recon.cursor EXCEPT !.fresh = FALSE]
      BY <2>1 DEF SInv, TypeOK
    <2>4. recon'.cursor \in CursorType /\ recon'.cursor.seq = recon.cursor.seq /\ recon'.cursor # None
      BY <2>2, <2>3 DEF CursorType, StreamAssumption
    <2>5. TypeOK'
      <3>1. recon' \in [awaiting : BOOLEAN, last : 1..MaxLog, min : 1..MaxLog,
                        cursor : CursorType \cup {None}, ledger : SUBSET (1..MaxLog)]
        BY <2>1, <2>2, <2>3, <2>4 DEF SInv, TypeOK
      <3>2. QED
        BY <2>1, <3>1 DEF SInv, TypeOK
    <2>6. ReconSound'
      BY <2>1, <2>3, <2>4 DEF SInv, ReconSound, Head_
    <2>7. FramesSound' /\ ChainSound'
      BY <2>1, <2>3 DEF SInv, Frames, FramesSound, FrameSound, ChainSound, Chained, Follows, Continues, Head_
    <2>8. PositionSound' /\ ClientSound'
      BY <2>1, <2>3 DEF SInv, PositionSound, ClientSound, Ends, NeverOutOfSequence, Head_
    <2>9. QED
      BY <2>5, <2>6, <2>7, <2>8 DEF SInv
  <1>3. QED
    BY <1>1, <1>2

(***************************************************************************)
(* Opening the stream                                                      *)
(***************************************************************************)

\* The client stops, or tries again from where it is.
LEMMA StopKeeps ==
  ASSUME StreamAssumption, SInv, phase' \in {"connecting", "cursor_cardinality", "unexpected_snapshot"} \cup GivenUpFor,
         server' = NoServer, wire' = <<>>, UNCHANGED <<log, access, key, recon, view>>,
         resetUsed' \in BOOLEAN, refreshed' \in 0..MaxLog, cuts' \in 0..MaxCuts
  PROVE  SInv'
  <1>1. TypeOK'
    <2>1. NoServer \in [phase : {"none", "cut", "serving"}, seq : 0..MaxLog, out : Seq(FrameType)]
      BY EmptySeq DEF NoServer, StreamAssumption
    <2>2. phase' \in {"connecting", "reading", "refreshing"} \cup Stopped
      BY DEF Stopped, ProtocolFailures, GivenUpFor
    <2>3. QED
      BY <2>1, <2>2, EmptySeq DEF SInv, TypeOK
  <1>2. ReconSound'
    BY DEF SInv, ReconSound, Head_
  <1>3. QED
    BY <1>1, <1>2, GivenUp DEF GivenUpFor

\* The client starts over without a cursor, with the board up to event n before it.
LEMMA StartOver ==
  ASSUME StreamAssumption, SInv, NEW n \in 1..Head_, recon' = NewReconciler(n), view' = 1..n,
         phase' = "connecting", server' = NoServer, wire' = <<>>, UNCHANGED <<log, access, key>>,
         resetUsed' \in BOOLEAN, refreshed' \in 0..MaxLog, cuts' \in 0..MaxCuts
  PROVE  SInv'
  <1>1. Head_ \in 1..MaxLog /\ MaxLog \in Nat
    BY FieldsTyped DEF SInv
  <1>2. n \in 1..MaxLog /\ 1..n \subseteq 1..MaxLog
    BY <1>1
  <1>3. /\ recon'.awaiting = TRUE /\ recon'.last = n /\ recon'.min = n /\ recon'.cursor = None
        /\ recon' \in [awaiting : BOOLEAN, last : 1..MaxLog, min : 1..MaxLog,
                       cursor : CursorType \cup {None}, ledger : SUBSET (1..MaxLog)]
    BY <1>2 DEF NewReconciler
  <1>4. TypeOK'
    <2>1. NoServer \in [phase : {"none", "cut", "serving"}, seq : 0..MaxLog, out : Seq(FrameType)]
      BY EmptySeq DEF NoServer, StreamAssumption
    <2>2. QED
      BY <1>2, <1>3, <2>1, EmptySeq DEF SInv, TypeOK
  <1>5. ReconSound'
    BY <1>1, <1>3 DEF ReconSound, Head_
  <1>6. QED
    BY <1>4, <1>5, GivenUp

\* The connection is refused, lost, recycled or at its end.
LEMMA ReconnectKeeps ==
  ASSUME StreamAssumption, SInv,
         OpenRefused \/ OpenFails \/ OpenInvalidCursor \/ EndOfStream \/ Recycle \/ RefreshFails
  PROVE  SInv'
  <1>1. resetUsed \in BOOLEAN /\ refreshed \in 0..MaxLog /\ cuts \in 0..MaxCuts /\ MaxCuts \in Nat
    BY DEF SInv, TypeOK, StreamAssumption
  <1>2. CASE OpenRefused \/ OpenFails \/ EndOfStream \/ Recycle \/ RefreshFails
    BY <1>1, <1>2, StopKeeps DEF OpenRefused, OpenFails, EndOfStream, Recycle, RefreshFails, Reconnect, Terminate,
                              GivenUpFor
  <1>3. CASE OpenInvalidCursor
    <2>1. CASE resetUsed
      BY <1>1, <1>3, <2>1, StopKeeps DEF OpenInvalidCursor, Terminate, GivenUpFor
    <2>2. CASE ~resetUsed
      <3>1. recon.last \in 1..Head_ /\ view = 1..recon.last
        BY FieldsTyped DEF SInv, ReconSound
      <3>2. QED
        BY <1>1, <1>3, <2>2, <3>1, StartOver DEF OpenInvalidCursor, Reconnect
    <2>3. QED
      BY <2>1, <2>2
  <1>4. QED
    BY <1>2, <1>3

\* A frame on its own.
LEMMA SnapshotAlone ==
  ASSUME StreamAssumption, SInv
  PROVE  LET only == <<SnapshotFrame(Head_)>> IN
         /\ only \in Seq(FrameType) /\ only # <<>> /\ Len(only) = 1 /\ Chained(only)
         /\ only[1] = SnapshotFrame(Head_) /\ FrameSound(only[1]) /\ Continues(only[1])
         /\ only[1].seq = Head_
  <1>1. Head_ \in 1..MaxLog /\ Head_ \in Nat /\ key \in 0..MaxRotations /\ key # None
    BY FieldsTyped DEF SInv, TypeOK, StreamAssumption
  <1>2. SnapshotFrame(Head_) \in FrameType /\ FrameSound(SnapshotFrame(Head_)) /\ Continues(SnapshotFrame(Head_))
    BY <1>1 DEF SnapshotFrame, FrameType, FrameSound, Continues, SInv, ReconSound
  <1>3. SnapshotFrame(Head_).seq = Head_
    BY DEF SnapshotFrame
  <1>4. QED
    BY <1>2, <1>3 DEF Chained

\* The cut of a new request.
LEMMA OpenKeeps ==
  ASSUME StreamAssumption, SInv, Open
  PROVE  SInv'
  <1> DEFINE out == IF CursorUsable THEN RangeAfter(recon.cursor.seq, Head_) ELSE <<SnapshotFrame(Head_)>>
  <1>1. /\ phase' = "reading" /\ wire' = <<>> /\ server' = [phase |-> "cut", seq |-> Head_, out |-> out]
        /\ UNCHANGED <<log, access, key, recon, resetUsed, view, refreshed, cuts>>
    BY DEF Open
  <1>2. /\ Head_ \in 1..MaxLog /\ MaxLog \in Nat /\ Head_ \in Nat /\ recon.last \in 1..MaxLog
        /\ recon.last <= Head_
    BY FieldsTyped DEF SInv, ReconSound
  <1>3. /\ out \in Seq(FrameType) /\ Chained(out) /\ (out # <<>> => Continues(out[1]))
        /\ Ends(out, Head_) /\ \A i \in 1..Len(out) : FrameSound(out[i])
    <2>1. CASE CursorUsable
      <3>1. recon.cursor # None /\ recon.cursor.seq = recon.last /\ recon.awaiting = FALSE
        BY <2>1, FieldsTyped DEF CursorUsable, SInv, ReconSound
      <3>2. out = RangeAfter(recon.last, Head_)
        BY <2>1, <3>1
      <3>3. /\ out \in Seq(FrameType) /\ Len(out) = Head_ - recon.last /\ Chained(out)
            /\ \A i \in 1..(Head_ - recon.last) :
                 /\ out[i].seq = recon.last + i /\ out[i].kind \notin {"presence", "snapshot"}
                 /\ FrameSound(out[i])
        <4>1. TypeOK /\ recon.last \in Nat /\ Head_ \in Nat /\ recon.last <= Head_ /\ Head_ <= Head_
          BY <1>2 DEF SInv
        <4> HIDE DEF out
        <4>2. QED
          BY <3>2, <4>1, RangeIsChain
      <3> HIDE DEF out
      <3>4. out # <<>> => Len(out) \in 1..(Head_ - recon.last) /\ 1 \in 1..(Head_ - recon.last)
        BY <1>2, <3>3, EmptySeq
      <3>5. out # <<>> => Continues(out[1])
        BY <3>1, <3>3, <3>4 DEF Continues
      <3>6. Ends(out, Head_)
        BY <1>2, <3>1, <3>3, <3>4 DEF Ends
      <3>7. QED
        BY <3>3, <3>5, <3>6
    <2>2. CASE ~CursorUsable
      BY <2>2, SnapshotAlone DEF Ends
    <2>3. QED
      BY <2>1, <2>2
  <1> HIDE DEF out
  <1>4. server'.phase = "cut" /\ server'.seq = Head_ /\ server'.out = out
    BY <1>1
  <1>5. TypeOK'
    BY <1>1, <1>2, <1>3, EmptySeq DEF SInv, TypeOK
  <1>6. Frames' = out
    BY <1>1, <1>3, <1>4, JoinEnds, EmptySeq DEF Frames
  <1>7. FramesSound' /\ ChainSound'
    BY <1>1, <1>3, <1>6 DEF FramesSound, FrameSound, ChainSound, Chained, Follows, Continues, Head_
  <1>8. PositionSound' /\ ClientSound' /\ ReconSound'
    BY <1>1, <1>2, <1>3, <1>4 DEF SInv, PositionSound, Ends, ClientSound, NeverOutOfSequence, ReconSound, Head_
  <1>9. QED
    BY <1>5, <1>7, <1>8 DEF SInv

(***************************************************************************)
(* Serving                                                                 *)
(***************************************************************************)

\* What the handler has to write is continued by the events after its position.
LEMMA RangeContinues ==
  ASSUME StreamAssumption, SInv, NEW before \in Seq(FrameType), Ends(before, server.seq), Chained(before)
  PROVE  LET more == RangeAfter(server.seq, Head_) IN
         /\ more \in Seq(FrameType) /\ Len(more) = Head_ - server.seq
         /\ Chained(before \o more)
         /\ \A i \in 1..Len(more) : FrameSound(more[i])
         /\ before = <<>> /\ more # <<>> => Continues(more[1])
         /\ more = <<>> => server.seq = Head_
  <1> DEFINE more == RangeAfter(server.seq, Head_)
  <1>1. server.seq \in Nat /\ Head_ \in Nat /\ server.seq <= Head_
    BY FieldsTyped DEF SInv, PositionSound
  <1>2. /\ more \in Seq(FrameType) /\ Len(more) = Head_ - server.seq /\ Chained(more)
        /\ \A i \in 1..(Head_ - server.seq) :
             /\ more[i].seq = server.seq + i /\ more[i].kind \notin {"presence", "snapshot"}
             /\ FrameSound(more[i])
    <2>1. TypeOK /\ Head_ <= Head_
      BY <1>1 DEF SInv
    <2>2. QED
      BY <1>1, <2>1, RangeIsChain
  <1> HIDE DEF more
  <1>3. more # <<>> => 1 \in 1..(Head_ - server.seq)
    BY <1>1, <1>2, EmptySeq
  <1>4. before = <<>> /\ more # <<>> => Continues(more[1])
    BY <1>2, <1>3 DEF Continues, Ends
  <1>5. before # <<>> /\ more # <<>> => Follows(before[Len(before)], more[1])
    BY <1>2, <1>3 DEF Follows, Ends
  <1>6. Chained(before \o more)
    BY <1>2, <1>5, ChainJoin
  <1>7. more = <<>> => server.seq = Head_
    BY <1>1, <1>2, EmptySeq
  <1>8. QED
    BY <1>2, <1>4, <1>6, <1>7 DEF more

\* A handler serves a client that reads, or one that fetches the board.
LEMMA Connected ==
  ASSUME SInv, server.phase # "none"
  PROVE  phase \in {"reading", "refreshing"} /\ (server.phase = "cut" => phase = "reading")
  BY DEF SInv, ClientSound, PositionSound, NoServer

\* What a step of the handler has to keep.
LEMMA ServeKeeps ==
  ASSUME StreamAssumption, SInv, server.phase # "none",
         UNCHANGED <<log, access, key, clientVars, cuts>>,
         server' \in [phase : {"serving"}, seq : 0..MaxLog, out : Seq(FrameType)],
         wire' \in Seq(FrameType), FramesSound', ChainSound',
         server'.out = <<>> => Ends(wire', server'.seq), server'.seq <= Head_,
         wire # <<>> => wire' # <<>> /\ wire'[1] = wire[1]
  PROVE  SInv'
  <1>1. UNCHANGED <<phase, recon, resetUsed, view, refreshed>> /\ server'.phase = "serving"
    BY DEF clientVars
  <1>2. TypeOK' /\ ReconSound'
    BY <1>1 DEF SInv, TypeOK, ReconSound, Head_
  <1>3. PositionSound'
    BY <1>1 DEF PositionSound, Ends, Head_
  <1>4. ClientSound'
    BY <1>1, Connected DEF SInv, ClientSound, NeverOutOfSequence, Head_
  <1>5. QED
    BY <1>2, <1>3, <1>4 DEF SInv

\* The gap between the cut and the subscription is filled.
LEMMA PostCutKeeps ==
  ASSUME StreamAssumption, SInv, PostCut
  PROVE  SInv'
  <1> DEFINE out == IF Head_ - server.seq <= Window THEN server.out \o CatchUp ELSE <<SnapshotFrame(Head_)>>
  <1>1. /\ server' = [phase |-> "serving", seq |-> Head_, out |-> out] /\ server.phase = "cut"
        /\ UNCHANGED <<log, access, key, wire, clientVars, cuts>>
    BY DEF PostCut
  <1>2. wire = <<>> /\ Ends(server.out, server.seq)
    BY <1>1 DEF SInv, PositionSound
  <1>3. server.out \in Seq(FrameType) /\ Head_ \in 0..MaxLog /\ Head_ \in Nat
    BY FieldsTyped DEF SInv
  <1>4. Frames = server.out
    BY <1>2, <1>3, JoinEnds, EmptySeq DEF Frames
  <1>5. /\ Chained(server.out) /\ (server.out # <<>> => Continues(server.out[1]))
        /\ \A i \in 1..Len(server.out) : FrameSound(server.out[i])
    BY <1>4 DEF SInv, ChainSound, FramesSound
  <1>6. /\ out \in Seq(FrameType) /\ Chained(out) /\ (out # <<>> => Continues(out[1]))
        /\ (out = <<>> => Ends(<<>>, Head_)) /\ \A i \in 1..Len(out) : FrameSound(out[i])
    <2>1. CASE Head_ - server.seq <= Window
      <3>1. /\ CatchUp \in Seq(FrameType) /\ Chained(server.out \o CatchUp)
            /\ \A i \in 1..Len(CatchUp) : FrameSound(CatchUp[i])
            /\ server.out = <<>> /\ CatchUp # <<>> => Continues(CatchUp[1])
            /\ CatchUp = <<>> => server.seq = Head_
        BY <1>2, <1>3, <1>5, RangeContinues DEF CatchUp
      <3>2. out = server.out \o CatchUp
        BY <2>1
      <3> HIDE DEF out
      <3>3. /\ out \in Seq(FrameType) /\ Chained(out)
            /\ \A i \in 1..Len(out) : FrameSound(out[i])
        <4>1. server.out \o CatchUp \in Seq(FrameType)
          BY <1>3, <3>1, JoinEnds
        <4>2. ASSUME NEW i \in 1..Len(server.out \o CatchUp) PROVE FrameSound((server.out \o CatchUp)[i])
          <5>1. \/ i \in 1..Len(server.out) /\ (server.out \o CatchUp)[i] = server.out[i]
                \/ /\ i - Len(server.out) \in 1..Len(CatchUp)
                   /\ (server.out \o CatchUp)[i] = CatchUp[i - Len(server.out)]
            BY <1>3, <3>1, JoinEnds
          <5>2. QED
            BY <1>5, <3>1, <5>1
        <4>3. QED
          BY <3>1, <3>2, <4>1, <4>2
      <3>4. out # <<>> => Continues(out[1])
        BY <1>3, <1>5, <3>1, <3>2, JoinEnds
      <3>5. out = <<>> => Ends(<<>>, Head_)
        <4>1. server.out \o CatchUp = <<>> => server.out = <<>> /\ CatchUp = <<>>
          BY <1>3, <3>1, JoinEnds
        <4>2. QED
          BY <1>2, <3>1, <3>2, <4>1 DEF Ends
      <3>6. QED
        BY <3>3, <3>4, <3>5
    <2>2. CASE ~(Head_ - server.seq <= Window)
      BY <2>2, SnapshotAlone
    <2>3. QED
      BY <2>1, <2>2
  <1> HIDE DEF out
  <1>7. server'.phase = "serving" /\ server'.seq = Head_ /\ server'.out = out /\ wire' = <<>>
    BY <1>1, <1>2
  <1>8. Frames' = out
    BY <1>6, <1>7, JoinEnds, EmptySeq DEF Frames
  <1>9. UNCHANGED <<log, recon>>
    BY <1>1 DEF clientVars
  <1>10. FramesSound' /\ ChainSound'
    BY <1>6, <1>8, <1>9 DEF FramesSound, FrameSound, ChainSound, Chained, Follows, Continues, Head_
  <1>11. wire' \in Seq(FrameType) /\ (server'.out = <<>> => Ends(wire', server'.seq))
    BY <1>6, <1>7, EmptySeq
  <1>12. server' \in [phase : {"serving"}, seq : 0..MaxLog, out : Seq(FrameType)] /\ server'.seq <= Head_
    BY <1>1, <1>3, <1>6
  <1>13. QED
    BY <1>1, <1>2, <1>10, <1>11, <1>12, ServeKeeps

\* A frame is written.
LEMMA WriteFrameKeeps ==
  ASSUME StreamAssumption, SInv, WriteFrame
  PROVE  SInv'
  <1>1. /\ server.phase = "serving" /\ server.out # <<>> /\ wire' = Append(wire, Head(server.out))
        /\ server' = [server EXCEPT !.out = Tail(@), !.seq = Head(server.out).seq]
        /\ UNCHANGED <<log, access, key, clientVars, cuts>>
    BY DEF WriteFrame
  <1>2. /\ server.out \in Seq(FrameType) /\ wire \in Seq(FrameType) /\ Head_ \in Nat
        /\ server = [phase |-> server.phase, seq |-> server.seq, out |-> server.out]
    BY FieldsTyped DEF SInv
  <1>3. server' = [phase |-> "serving", seq |-> Head(server.out).seq, out |-> Tail(server.out)]
    BY <1>1, <1>2
  <1>4. /\ wire' \o Tail(server.out) = wire \o server.out /\ wire' \in Seq(FrameType)
        /\ Tail(server.out) \in Seq(FrameType) /\ wire' # <<>> /\ wire'[Len(wire')] = Head(server.out)
    <2>1. PICK s, t : s = wire /\ t = server.out
      OBVIOUS
    <2>2. s \in Seq(FrameType) /\ t \in Seq(FrameType) /\ t # <<>>
      BY <1>1, <1>2, <2>1
    <2>3. PICK a, b : a = Append(s, Head(t)) /\ b = Tail(t)
      OBVIOUS
    <2>4. a \o b = s \o t /\ a \in Seq(FrameType) /\ b \in Seq(FrameType) /\ a # <<>> /\ a[Len(a)] = Head(t)
      BY <2>2, <2>3, WrittenFrame, SMTT(60)
    <2>5. wire' = a /\ Tail(server.out) = b /\ Head(server.out) = Head(t)
      BY <1>1, <2>1, <2>3
    <2>6. QED
      BY <2>1, <2>4, <2>5
  <1>5. Frames' = Frames /\ UNCHANGED <<recon, log>>
    BY <1>1, <1>3, <1>4 DEF Frames, clientVars
  <1>6. FramesSound' /\ ChainSound'
    BY <1>5, FramesKept
  <1>7. Head(server.out) = server.out[1] /\ 1 \in 1..Len(server.out)
    BY <1>1, <1>2, EmptySeq
  <1>8. Head(server.out) \in FrameType /\ FrameSound(Head(server.out))
    <2>1. server.out[1] \in FrameType
      BY <1>2, <1>7, ElementOfSeq
    <2>2. Len(wire) + 1 \in 1..Len(Frames) /\ Frames[Len(wire) + 1] = server.out[1]
      BY <1>2, <1>7, JoinEnds DEF Frames
    <2>3. QED
      BY <1>7, <2>1, <2>2 DEF SInv, FramesSound
  <1>9. Head(server.out).seq \in 0..MaxLog /\ Head(server.out).seq <= Head_
    BY <1>8, FieldsTyped DEF FrameType, FrameSound, SInv
  <1>10. wire # <<>> => wire'[1] = wire[1]
    <2>1. wire # <<>> => 1 \in 1..Len(wire)
      BY <1>2, EmptySeq
    <2>2. QED
      BY <1>1, <1>2, <1>8, <2>1, AppendProperties
  <1>11. server'.phase = "serving" /\ server'.seq = Head(server.out).seq /\ server'.out = Tail(server.out)
    BY <1>3
  <1>12. Ends(wire', server'.seq) /\ server'.seq <= Head_
    BY <1>4, <1>9, <1>11 DEF Ends
  <1>13. server' \in [phase : {"serving"}, seq : 0..MaxLog, out : Seq(FrameType)]
    BY <1>3, <1>4, <1>9
  <1>14. QED
    BY <1>1, <1>4, <1>6, <1>10, <1>12, <1>13, ServeKeeps

\* A presence frame names the position of the handler.
LEMMA WritePresenceKeeps ==
  ASSUME StreamAssumption, SInv, WritePresence
  PROVE  SInv'
  <1> DEFINE f == PresenceFrame(server.seq)
  <1>1. /\ server.phase = "serving" /\ server.out = <<>> /\ wire' = Append(wire, f)
        /\ UNCHANGED <<log, access, key, server, clientVars, cuts>>
    BY DEF WritePresence, PresenceSequence, Idle
  <1>2. /\ wire \in Seq(FrameType) /\ Head_ \in Nat /\ server.seq \in 0..MaxLog /\ MaxLog \in Nat
        /\ server = [phase |-> server.phase, seq |-> server.seq, out |-> server.out]
        /\ recon.last \in 1..MaxLog
    BY FieldsTyped DEF SInv
  <1>3. Ends(wire, server.seq) /\ server.seq <= Head_
    BY <1>1 DEF SInv, PositionSound
  <1>4. wire # <<>> => Len(wire) \in 1..Len(wire) /\ wire[Len(wire)] \in FrameType
    BY <1>2, EmptySeq, ElementOfSeq
  <1>5. server.seq \in 1..MaxLog
    BY <1>2, <1>3, <1>4 DEF Ends, FrameType
  <1>6. f \in FrameType /\ FrameSound(f) /\ f.seq = server.seq /\ f.kind = "presence"
    BY <1>3, <1>5 DEF PresenceFrame, FrameType, FrameSound
  <1> HIDE DEF f
  <1>7. <<f>> \in Seq(FrameType) /\ Len(<<f>>) = 1 /\ <<f>>[1] = f /\ <<f>> # <<>>
    BY <1>6
  <1>8. wire' = wire \o <<f>> /\ wire' \in Seq(FrameType)
    BY <1>1, <1>2, <1>6, AppendIsConcat, AppendProperties
  <1>9. Frames = wire /\ Frames' = wire'
    BY <1>1, <1>2, <1>8, JoinEnds DEF Frames
  <1>10. Chained(<<f>>) /\ Chained(wire) /\ (wire # <<>> => Continues(wire[1]))
    BY <1>7, <1>9 DEF Chained, SInv, ChainSound
  <1>11. wire # <<>> => Follows(wire[Len(wire)], f)
    BY <1>3, <1>6 DEF Follows, Ends
  <1>12. Chained(wire')
    BY <1>2, <1>7, <1>8, <1>10, <1>11, ChainJoin
  <1>13. wire'[1] = (IF wire = <<>> THEN f ELSE wire[1]) /\ wire' # <<>>
    BY <1>2, <1>7, <1>8, JoinEnds
  <1>14. Continues(wire'[1])
    BY <1>3, <1>6, <1>10, <1>13 DEF Continues, Ends
  <1>15. ASSUME NEW i \in 1..Len(wire') PROVE FrameSound(wire'[i])
    <2>1. \/ i \in 1..Len(wire) /\ wire'[i] = wire[i]
          \/ i - Len(wire) \in 1..Len(<<f>>) /\ wire'[i] = <<f>>[i - Len(wire)]
      BY <1>2, <1>7, <1>8, JoinEnds
    <2>2. CASE i \in 1..Len(wire) /\ wire'[i] = wire[i]
      BY <1>9, <2>2 DEF SInv, FramesSound
    <2>3. CASE i - Len(wire) \in 1..Len(<<f>>) /\ wire'[i] = <<f>>[i - Len(wire)]
      <3>1. i - Len(wire) = 1
        BY <1>2, <1>7, <2>3
      <3>2. QED
        BY <1>6, <1>7, <2>3, <3>1
    <2>4. QED
      BY <2>1, <2>2, <2>3
  <1>16. UNCHANGED <<log, recon>>
    BY <1>1 DEF clientVars
  <1>17. FramesSound' /\ ChainSound'
    BY <1>9, <1>12, <1>14, <1>15, <1>16 DEF FramesSound, FrameSound, ChainSound, Chained, Follows, Continues, Head_
  <1>18. wire'[Len(wire')].seq = server.seq
    <2>1. Len(wire) + 1 = Len(wire') /\ wire'[Len(wire) + 1] = f
      BY <1>1, <1>2, <1>6, AppendProperties
    <2>2. QED
      BY <1>6, <2>1
  <1>19. server' \in [phase : {"serving"}, seq : 0..MaxLog, out : Seq(FrameType)]
    BY <1>1, <1>2, EmptySeq
  <1>20. Ends(wire', server'.seq) /\ server'.seq <= Head_
    BY <1>1, <1>3, <1>13, <1>18 DEF Ends
  <1>21. QED
    BY <1>1, <1>8, <1>13, <1>17, <1>19, <1>20, ServeKeeps

\* The handler reads the events after its position.
LEMMA DrainKeeps ==
  ASSUME StreamAssumption, SInv, Drain
  PROVE  SInv'
  <1> DEFINE out == RangeAfter(server.seq, Head_)
  <1>1. /\ server.phase = "serving" /\ server.out = <<>> /\ server.seq < Head_
        /\ server' = [server EXCEPT !.out = out]
        /\ UNCHANGED <<log, access, key, wire, clientVars, cuts>>
    BY DEF Drain, Idle, Behind
  <1>2. /\ wire \in Seq(FrameType) /\ Head_ \in Nat /\ server.seq \in 0..MaxLog /\ MaxLog \in Nat
        /\ server = [phase |-> server.phase, seq |-> server.seq, out |-> server.out]
    BY FieldsTyped DEF SInv
  <1>3. Ends(wire, server.seq) /\ server.seq <= Head_
    BY <1>1 DEF SInv, PositionSound
  <1>4. Frames = wire
    BY <1>1, <1>2, JoinEnds DEF Frames
  <1>5. Chained(wire) /\ (wire # <<>> => Continues(wire[1]))
    BY <1>4 DEF SInv, ChainSound
  <1>6. /\ out \in Seq(FrameType) /\ Len(out) = Head_ - server.seq /\ Chained(wire \o out)
        /\ \A i \in 1..Len(out) : FrameSound(out[i])
        /\ wire = <<>> /\ out # <<>> => Continues(out[1])
    BY <1>2, <1>3, <1>5, RangeContinues
  <1> HIDE DEF out
  <1>7. server' = [phase |-> "serving", seq |-> server.seq, out |-> out]
    BY <1>1, <1>2
  <1>8. Frames' = wire \o out /\ out # <<>> /\ UNCHANGED <<log, recon>>
    BY <1>1, <1>2, <1>6, <1>7, EmptySeq DEF Frames, clientVars
  <1>9. FramesSound'
    <2>1. ASSUME NEW i \in 1..Len(wire \o out) PROVE FrameSound((wire \o out)[i])
      <3>1. \/ i \in 1..Len(wire) /\ (wire \o out)[i] = wire[i]
            \/ i - Len(wire) \in 1..Len(out) /\ (wire \o out)[i] = out[i - Len(wire)]
        BY <1>2, <1>6, JoinEnds
      <3>2. QED
        BY <1>4, <1>6, <3>1 DEF SInv, FramesSound
    <2>2. QED
      BY <1>8, <2>1 DEF FramesSound, FrameSound, Head_
  <1>10. ChainSound'
    <2>1. Continues((wire \o out)[1])
      <3>1. CASE wire = <<>>
        <4>1. wire \o out = out
          BY <1>2, <1>6, <3>1, JoinEnds
        <4>2. QED
          BY <1>6, <1>8, <3>1, <4>1
      <3>2. CASE wire # <<>>
        <4>1. (wire \o out)[1] = wire[1]
          BY <1>2, <1>6, <3>2, JoinEnds
        <4>2. QED
          BY <1>5, <3>2, <4>1
      <3>3. QED
        BY <3>1, <3>2
    <2>2. QED
      BY <1>6, <1>8, <2>1 DEF ChainSound, Chained, Follows, Continues
  <1>11. server' \in [phase : {"serving"}, seq : 0..MaxLog, out : Seq(FrameType)]
    BY <1>2, <1>6, <1>7
  <1>12. server'.out # <<>> /\ server'.seq <= Head_
    BY <1>3, <1>7, <1>8
  <1>13. UNCHANGED wire
    BY <1>1
  <1>14. QED
    BY <1>1, <1>2, <1>9, <1>10, <1>11, <1>12, <1>13, ServeKeeps

\* The drain fails, the request is over, or the server restarts with another key.
LEMMA RequestOverKeeps ==
  ASSUME StreamAssumption, SInv, DrainFails \/ Finish \/ RotateKey
  PROVE  SInv'
  <1>1. key \in 0..MaxRotations /\ cuts \in 0..MaxCuts /\ MaxCuts \in Nat /\ MaxRotations \in Nat
    BY DEF SInv, TypeOK, StreamAssumption
  <1>2. QED
    BY <1>1, RequestEnds DEF DrainFails, Finish, RotateKey

(***************************************************************************)
(* The client                                                              *)
(***************************************************************************)

\* The frame that is read next continues the client, so its verdict is never one of a
\* gap, of a duplicate or of a frame out of place.
LEMMA VerdictIs ==
  ASSUME StreamAssumption, SInv, wire # <<>>
  PROVE  LET f == Head(wire) IN
         /\ f = wire[1] /\ f \in FrameType /\ FrameSound(f) /\ Continues(f) /\ f.seq >= recon.last
         /\ Verdict(f) \in {"snapshot", "revision", "state", "skip",
                            "unexpected_snapshot", "cursor_cardinality"}
         /\ Verdict(f) = "snapshot" => f.kind = "snapshot"
         /\ Verdict(f) \in {"revision", "state"} =>
              f.kind = Verdict(f) /\ ~recon.awaiting /\ f.seq = recon.last + 1
         /\ Verdict(f) = "skip" => ~recon.awaiting /\ f.seq = recon.last
  <1> DEFINE f == Head(wire)
  <1>1. wire \in Seq(FrameType) /\ server.out \in Seq(FrameType) /\ recon.last \in Nat /\ recon.min = recon.last
    BY FieldsTyped DEF SInv, ReconSound
  <1>2. f = wire[1] /\ 1 \in 1..Len(wire)
    BY <1>1, EmptySeq
  <1>3. f = Frames[1] /\ 1 \in 1..Len(Frames) /\ Frames # <<>> /\ f \in FrameType
    BY <1>1, <1>2, JoinEnds, ElementOfSeq DEF Frames
  <1>4. FrameSound(f) /\ Continues(f)
    BY <1>3 DEF SInv, FramesSound, ChainSound
  <1> HIDE DEF f
  <1>5. f.kind \in {"snapshot", "revision", "state", "resync", "presence"} /\ f.seq \in Nat
    BY <1>3 DEF FrameType
  <1>6. f.seq >= recon.last
    BY <1>1, <1>4, <1>5 DEF Continues
  <1>7. CASE f.kind = "snapshot"
    <2>1. Verdict(f) = VerdictOnSnapshot(f)
      BY <1>4, <1>7 DEF Verdict, FrameSound, Durable
    <2>2. VerdictOnSnapshot(f) \in {"snapshot", "unexpected_snapshot"}
      BY <1>1, <1>5, <1>6 DEF VerdictOnSnapshot
    <2>3. QED
      BY <1>7, <2>1, <2>2, <1>2, <1>3, <1>4, <1>6 DEF f
  <1>8. CASE f.kind \in {"revision", "state"}
    <2>1. ~recon.awaiting /\ f.seq = recon.last + 1 /\ f.cursor # None
      BY <1>4, <1>8 DEF Continues, FrameSound
    <2>2. Verdict(f) = VerdictOnEvent(f)
      BY <1>8, <2>1 DEF Verdict, Durable
    <2>3. VerdictOnEvent(f) = f.kind
      BY <1>1, <1>5, <2>1 DEF VerdictOnEvent
    <2>4. QED
      BY <1>8, <2>1, <2>2, <2>3, <1>2, <1>3, <1>4, <1>6 DEF f
  <1>9. CASE f.kind = "resync"
    <2>1. Verdict(f) = "cursor_cardinality"
      BY <1>4, <1>9 DEF Verdict, Durable, FrameSound
    <2>2. QED
      BY <2>1, <1>2, <1>3, <1>4, <1>6 DEF f
  <1>10. CASE f.kind = "presence"
    <2>1. ~recon.awaiting /\ f.seq = recon.last /\ f.cursor = None
      BY <1>4, <1>10 DEF Continues, FrameSound
    <2>2. Verdict(f) = "skip"
      BY <1>10, <2>1 DEF Verdict, Durable, VerdictOnControl
    <2>3. QED
      BY <2>1, <2>2, <1>2, <1>3, <1>4, <1>6 DEF f
  <1>11. QED
    BY <1>2, <1>3, <1>4, <1>5, <1>6, <1>7, <1>8, <1>9, <1>10 DEF f

\* A frame that was read has moved the client to its event.
LEMMA ReadKeeps ==
  ASSUME StreamAssumption, SInv, Reading, wire' = Tail(wire),
         UNCHANGED <<log, access, key, server, phase, resetUsed, refreshed, cuts>>,
         recon' \in [awaiting : BOOLEAN, last : 1..MaxLog, min : 1..MaxLog,
                     cursor : CursorType \cup {None}, ledger : SUBSET (1..MaxLog)],
         ReconSound', ~recon'.awaiting, recon'.last = Head(wire).seq
  PROVE  SInv'
  <1>1. /\ phase = "reading" /\ wire # <<>> /\ wire \in Seq(FrameType) /\ server.out \in Seq(FrameType)
        /\ Frames \in Seq(FrameType) /\ MaxLog \in Nat /\ Head_ \in 1..MaxLog
    BY FieldsTyped DEF SInv, Reading
  <1>2. /\ wire' \in Seq(FrameType) /\ Len(wire') = Len(wire) - 1 /\ Len(wire) \in Nat \ {0}
        /\ \A i \in 1..Len(wire') : wire'[i] = wire[i + 1]
    BY <1>1, HeadTailProperties, EmptySeq
  <1>3. Head(wire) = wire[1]
    BY <1>1
  <1>4. Frames # <<>> /\ Frames[1] = wire[1]
    BY <1>1, JoinEnds DEF Frames
  <1>5. Frames' = Tail(Frames)
    <2>1. wire' \o server.out \in Seq(FrameType) /\ Tail(Frames) \in Seq(FrameType)
      BY <1>1, <1>2, <1>4, JoinEnds, HeadTailProperties
    <2>2. /\ Len(Frames) = Len(wire) + Len(server.out) /\ Len(server.out) \in Nat
          /\ Len(wire' \o server.out) = Len(wire') + Len(server.out)
          /\ \A i \in 1..(Len(wire) + Len(server.out)) :
               Frames[i] = IF i <= Len(wire) THEN wire[i] ELSE server.out[i - Len(wire)]
          /\ \A i \in 1..(Len(wire') + Len(server.out)) :
               (wire' \o server.out)[i] = IF i <= Len(wire') THEN wire'[i] ELSE server.out[i - Len(wire')]
      BY <1>1, <1>2, ConcatProperties, LenProperties DEF Frames
    <2>3. Len(Tail(Frames)) = Len(Frames) - 1 /\ \A i \in 1..Len(Tail(Frames)) : Tail(Frames)[i] = Frames[i + 1]
      BY <1>1, <1>4, HeadTailProperties
    <2>4. Len(wire' \o server.out) = Len(Tail(Frames))
      BY <1>2, <2>2, <2>3
    <2>5. ASSUME NEW i \in 1..Len(wire' \o server.out)
          PROVE  (wire' \o server.out)[i] = Tail(Frames)[i]
      <3>1. i \in 1..(Len(wire') + Len(server.out)) /\ i + 1 \in 1..(Len(wire) + Len(server.out))
            /\ Tail(Frames)[i] = Frames[i + 1]
        BY <1>2, <2>2, <2>3, <2>4
      <3>2. CASE i <= Len(wire')
        <4>1. (wire' \o server.out)[i] = wire'[i] /\ wire'[i] = wire[i + 1] /\ Frames[i + 1] = wire[i + 1]
          BY <1>2, <2>2, <3>1, <3>2
        <4>2. QED
          BY <3>1, <4>1
      <3>3. CASE i > Len(wire')
        <4>1. i + 1 - Len(wire) = i - Len(wire') /\ ~(i + 1 <= Len(wire)) /\ ~(i <= Len(wire'))
          BY <1>2, <2>2, <3>1, <3>3
        <4>2. (wire' \o server.out)[i] = server.out[i - Len(wire')]
          BY <2>2, <3>1, <4>1
        <4>3. \A j \in 1..(Len(wire) + Len(server.out)) :
                ~(j <= Len(wire)) => Frames[j] = server.out[j - Len(wire)]
          BY <2>2
        <4>4. Frames[i + 1] = server.out[i + 1 - Len(wire)]
          BY <3>1, <4>1, <4>3
        <4>5. QED
          BY <3>1, <4>1, <4>2, <4>4
      <3>4. i <= Len(wire') \/ i > Len(wire')
        BY <1>2, <3>1
      <3>5. QED
        BY <3>1, <3>2, <3>3, <3>4
    <2>6. wire' \o server.out = Tail(Frames)
      BY <2>1, <2>4, <2>5, SeqEqual
    <2>7. QED
      BY <2>6 DEF Frames
  <1>6. /\ Chained(Tail(Frames))
        /\ Tail(Frames) # <<>> => Follows(Frames[1], Tail(Frames)[1])
    BY <1>1, <1>4, ChainTail DEF SInv, ChainSound
  <1>7. ChainSound'
    <2>1. Frames' # <<>> => Follows(wire[1], Frames'[1])
      BY <1>4, <1>5, <1>6
    <2> HIDE DEF Frames
    <2>2. Frames' # <<>> => Continues(Frames[1])'
      BY <1>3, <2>1 DEF Follows, Continues
    <2>3. Chained(Frames')
      BY <1>5, <1>6
    <2>4. QED
      BY <2>2, <2>3 DEF ChainSound, Chained, Follows
  <1>8. FramesSound'
    <2>1. Len(Tail(Frames)) = Len(Frames) - 1 /\ Len(Frames) \in Nat
          /\ \A i \in 1..Len(Tail(Frames)) : Tail(Frames)[i] = Frames[i + 1]
      BY <1>1, <1>4, HeadTailProperties, LenProperties
    <2>2. ASSUME NEW i \in 1..Len(Tail(Frames)) PROVE FrameSound(Tail(Frames)[i])
      <3>1. i + 1 \in 1..Len(Frames)
        BY <2>1
      <3>2. QED
        BY <2>1, <3>1 DEF SInv, FramesSound
    <2>3. QED
      BY <1>5, <2>2 DEF FramesSound, FrameSound, Head_
  <1>9. TypeOK'
    <2>1. view' \subseteq 1..MaxLog
      BY <1>1 DEF ReconSound, Head_
    <2>2. QED
      BY <1>2, <2>1 DEF SInv, TypeOK
  <1>10. PositionSound'
    <2>1. server.phase # "cut"
      BY <1>1 DEF SInv, PositionSound
    <2>2. ASSUME server.phase = "serving", server.out = <<>> PROVE Ends(wire, server.seq)'
      <3>1. wire[Len(wire)].seq = server.seq
        BY <1>1, <2>2 DEF SInv, PositionSound, Ends
      <3>2. CASE wire' = <<>>
        <4>1. Len(wire') = 0
          BY <1>2, <3>2, EmptySeq
        <4>2. Len(wire) = 1
          BY <1>2, <4>1
        <4>3. recon'.last = server.seq
          BY <1>3, <3>1, <4>2
        <4>4. QED
          BY <3>2, <4>3 DEF Ends
      <3>3. CASE wire' # <<>>
        <4>1. Len(wire') \in 1..Len(wire')
          BY <1>2, <3>3, EmptySeq
        <4>2. wire'[Len(wire')] = wire[Len(wire)]
          BY <1>2, <4>1
        <4>3. QED
          BY <3>1, <3>3, <4>2 DEF Ends
      <3>4. QED
        BY <3>2, <3>3
    <2>3. QED
      BY <2>1, <2>2 DEF SInv, PositionSound, Ends, Head_
  <1>11. ClientSound'
    BY <1>1 DEF ClientSound, NeverOutOfSequence
  <1>12. QED
    BY <1>7, <1>8, <1>9, <1>10, <1>11 DEF SInv

\* The record the reconciler commits for a durable frame.
LEMMA CommittedIs ==
  ASSUME StreamAssumption, SInv, NEW f \in FrameType, FrameSound(f), f.kind # "presence"
  PROVE  /\ Committed(f) \in [awaiting : BOOLEAN, last : 1..MaxLog, min : 1..MaxLog,
                              cursor : CursorType \cup {None}, ledger : SUBSET (1..MaxLog)]
         /\ ~Committed(f).awaiting /\ Committed(f).last = f.seq /\ Committed(f).min = f.seq
         /\ Committed(f).cursor # None /\ Committed(f).cursor.seq = f.seq
  <1>1. f.seq \in 1..MaxLog /\ f.cursor \in 0..MaxRotations
    BY DEF FrameType, FrameSound
  <1>2. /\ recon \in [awaiting : BOOLEAN, last : 1..MaxLog, min : 1..MaxLog,
                      cursor : CursorType \cup {None}, ledger : SUBSET (1..MaxLog)]
    BY DEF SInv, TypeOK
  <1>3. [seq |-> f.seq, key |-> f.cursor, fresh |-> TRUE] \in CursorType
    BY <1>1 DEF CursorType
  <1>4. [seq |-> f.seq, key |-> f.cursor, fresh |-> TRUE] # None
    BY <1>3 DEF StreamAssumption
  <1>5. QED
    BY <1>1, <1>2, <1>3, <1>4 DEF Committed

\* A snapshot or an event is shown.
LEMMA ApplyKeeps ==
  ASSUME StreamAssumption, SInv, ApplySnapshot \/ ApplyEvent
  PROVE  SInv' /\ ViewNeverRegresses
  <1> DEFINE f == Head(wire)
  <1>1. /\ Reading /\ wire # <<>> /\ recon' = Committed(f) /\ wire' = Tail(wire)
        /\ UNCHANGED <<log, access, key, server, phase, resetUsed, refreshed, cuts>>
    BY DEF ApplySnapshot, ApplyEvent, Reading
  <1>2. /\ f \in FrameType /\ FrameSound(f) /\ f.seq >= recon.last
        /\ Verdict(f) = "snapshot" => f.kind = "snapshot"
        /\ Verdict(f) = "state" => f.kind = "state" /\ f.seq = recon.last + 1
    BY <1>1, VerdictIs
  <1> HIDE DEF f
  <1>3. f.seq \in Nat /\ recon.last \in Nat /\ f.seq <= Head_ /\ view = 1..recon.last
    BY <1>2, FieldsTyped DEF SInv, ReconSound, FrameType, FrameSound
  <1>4. f.kind # "presence" /\ view' = 1..f.seq
    <2>1. CASE ApplySnapshot
      BY <1>2, <2>1 DEF ApplySnapshot, f
    <2>2. CASE ApplyEvent
      <3>1. f.kind = "state" /\ f.seq = recon.last + 1 /\ view' = view \cup {f.seq}
        BY <1>2, <2>2 DEF ApplyEvent, f
      <3>2. view' = 1..f.seq
        BY <1>3, <3>1
      <3>3. QED
        BY <3>1, <3>2
    <2>3. QED
      BY <2>1, <2>2
  <1>5. ViewNeverRegresses
    BY <1>2, <1>3, <1>4 DEF ViewNeverRegresses
  <1>6. /\ recon' \in [awaiting : BOOLEAN, last : 1..MaxLog, min : 1..MaxLog,
                       cursor : CursorType \cup {None}, ledger : SUBSET (1..MaxLog)]
        /\ ~recon'.awaiting /\ recon'.last = f.seq /\ recon'.min = f.seq
        /\ recon'.cursor # None /\ recon'.cursor.seq = f.seq
    BY <1>1, <1>2, <1>4, CommittedIs
  <1>7. ReconSound'
    BY <1>1, <1>3, <1>4, <1>6 DEF ReconSound, Head_
  <1>8. SInv'
    BY <1>1, <1>6, <1>7, ReadKeeps DEF f
  <1>9. QED
    BY <1>5, <1>8

\* A presence frame is read; it changes nothing that is shown.
LEMMA SkipKeeps ==
  ASSUME StreamAssumption, SInv, SkipFrame
  PROVE  SInv' /\ ViewNeverRegresses
  <1>1. /\ Reading /\ wire # <<>> /\ wire' = Tail(wire) /\ Verdict(Head(wire)) = "skip"
        /\ UNCHANGED <<log, access, key, server, phase, recon, resetUsed, view, refreshed, cuts>>
    BY DEF SkipFrame, Reading, clientVars
  <1>2. ~recon'.awaiting /\ recon'.last = Head(wire).seq
    BY <1>1, VerdictIs
  <1>3. recon' \in [awaiting : BOOLEAN, last : 1..MaxLog, min : 1..MaxLog,
                    cursor : CursorType \cup {None}, ledger : SUBSET (1..MaxLog)]
    BY <1>1 DEF SInv, TypeOK
  <1>4. ReconSound' /\ ViewNeverRegresses
    BY <1>1 DEF SInv, ReconSound, ViewNeverRegresses, Head_
  <1>5. QED
    BY <1>1, <1>2, <1>3, <1>4, ReadKeeps

\* The client stops on a frame that breaks the protocol.
LEMMA AbandonKeeps ==
  ASSUME StreamAssumption, SInv, Abandon
  PROVE  SInv' /\ ViewNeverRegresses
  <1> DEFINE verdict == Verdict(Head(wire))
  <1>1. wire # <<>> /\ verdict \in ProtocolFailures \cup {"restart"}
    BY DEF Abandon, Reading
  <1>2. verdict \in {"unexpected_snapshot", "cursor_cardinality"}
    BY <1>1, VerdictIs DEF ProtocolFailures
  <1>3. /\ Terminate(verdict) /\ UNCHANGED recon
        /\ UNCHANGED <<log, access, key, resetUsed, view, refreshed, cuts>>
    BY <1>2 DEF Abandon
  <1> HIDE DEF verdict
  <1>4. resetUsed \in BOOLEAN /\ refreshed \in 0..MaxLog /\ cuts \in 0..MaxCuts
    BY DEF SInv, TypeOK
  <1>5. ViewNeverRegresses
    BY <1>3 DEF ViewNeverRegresses
  <1>6. QED
    BY <1>2, <1>3, <1>4, <1>5, StopKeeps DEF Terminate

\* A revision event is heard, the board is fetched, and shown with a new stream.
LEMMA RefreshKeeps ==
  ASSUME StreamAssumption, SInv, Refresh
  PROVE  SInv' /\ ViewNeverRegresses
  <1>1. Head_ \in 1..MaxLog /\ MaxLog \in Nat /\ Head_ \in Nat
    BY FieldsTyped DEF SInv
  <1>2. CASE HearRevision
    <2>1. /\ phase' = "refreshing" /\ refreshed' = 0 /\ wire # <<>>
          /\ UNCHANGED <<log, access, key, server, wire, recon, resetUsed, view, cuts>>
      BY <1>2 DEF HearRevision, Reading
    <2>2. TypeOK' /\ Frames' = Frames
      BY <1>1, <2>1 DEF SInv, TypeOK, Frames
    <2>3. ReconSound' /\ PositionSound' /\ ClientSound' /\ ViewNeverRegresses
      BY <2>1 DEF SInv, ReconSound, PositionSound, Ends, ClientSound, NeverOutOfSequence, Head_,
                  ViewNeverRegresses
    <2>4. QED
      BY <2>1, <2>2, <2>3, FramesKept DEF SInv
  <1>3. CASE RefreshRead
    <2>1. /\ phase = "refreshing" /\ refreshed' = Head_
          /\ UNCHANGED <<log, access, key, server, wire, phase, recon, resetUsed, view, cuts>>
      BY <1>3 DEF RefreshRead, SnapshotRead, serverVars
    <2>2. TypeOK' /\ Frames' = Frames
      BY <1>1, <2>1 DEF SInv, TypeOK, Frames
    <2>3. ReconSound' /\ PositionSound' /\ ViewNeverRegresses
      BY <2>1 DEF SInv, ReconSound, PositionSound, Ends, Head_, ViewNeverRegresses
    <2>4. wire # <<>> /\ wire[1].seq <= Head_
      <3>1. wire # <<>>
        BY <2>1 DEF SInv, ClientSound
      <3>2. QED
        BY <3>1, VerdictIs DEF FrameSound
    <2>5. wire[1].seq \in Nat
      BY <2>4, VerdictIs DEF FrameType
    <2>6. ClientSound'
      BY <1>1, <2>1, <2>4, <2>5 DEF SInv, ClientSound, NeverOutOfSequence, Head_
    <2>7. QED
      BY <2>1, <2>2, <2>3, <2>6, FramesKept DEF SInv
  <1>4. CASE RefreshApply
    <2>1. /\ phase = "refreshing" /\ refreshed # 0 /\ view' = 1..refreshed
          /\ UNCHANGED <<log, access, key, resetUsed, refreshed, cuts>>
      BY <1>4 DEF RefreshApply
    <2>2. wire # <<>> /\ refreshed <= Head_ /\ refreshed >= wire[1].seq /\ refreshed \in 0..MaxLog
      BY <2>1 DEF SInv, ClientSound, TypeOK
    <2>3. Head(wire) = wire[1] /\ wire[1].seq >= recon.last /\ wire[1].seq \in Nat
      BY <2>2, VerdictIs DEF FrameType
    <2>4. refreshed >= Head(wire).seq
      BY <2>2, <2>3
    <2>5. Reconnect /\ recon' = NewReconciler(refreshed)
      BY <1>4, <2>4 DEF RefreshApply
    <2>6. refreshed \in 1..Head_ /\ resetUsed \in BOOLEAN /\ cuts \in 0..MaxCuts
      BY <1>1, <2>1, <2>2 DEF SInv, TypeOK
    <2>7. ViewNeverRegresses
      <3>1. recon.last \in Nat /\ view = 1..recon.last /\ recon.last <= refreshed
        BY <2>2, <2>3, FieldsTyped DEF SInv, ReconSound
      <3>2. QED
        BY <2>1, <2>2, <3>1 DEF ViewNeverRegresses
    <2>8. SInv'
      BY <2>1, <2>2, <2>5, <2>6, StartOver DEF Reconnect
    <2>9. QED
      BY <2>7, <2>8
  <1>5. QED
    BY <1>2, <1>3, <1>4 DEF Refresh

(***************************************************************************)
(* Every step                                                              *)
(***************************************************************************)

\* The page has loaded a snapshot over HTTP.
LEMMA InitSound ==
  ASSUME StreamAssumption, Init
  PROVE  SInv
  <1>1. /\ log = <<"revision">> /\ server = NoServer /\ wire = <<>> /\ phase = "connecting"
        /\ recon = NewReconciler(1) /\ view = {1} /\ access = TRUE /\ key = 0 /\ resetUsed = FALSE
        /\ refreshed = 0 /\ cuts = 0 /\ MaxLog \in Nat \ {0} /\ MaxRotations \in Nat /\ MaxCuts \in Nat
    BY DEF Init, StreamAssumption
  <1>2. log \in Seq(EventKinds \cup {"revision"}) /\ Head_ = 1
    BY <1>1 DEF Head_
  <1>3. /\ server \in [phase : {"none", "cut", "serving"}, seq : 0..MaxLog, out : Seq(FrameType)]
        /\ server.phase = "none" /\ server.out = <<>> /\ server.seq = 0 /\ wire \in Seq(FrameType)
    BY <1>1, EmptySeq DEF NoServer
  <1>4. /\ recon \in [awaiting : BOOLEAN, last : 1..MaxLog, min : 1..MaxLog,
                      cursor : CursorType \cup {None}, ledger : SUBSET (1..MaxLog)]
        /\ recon.awaiting /\ recon.last = 1 /\ recon.min = 1 /\ recon.cursor = None
    BY <1>1 DEF NewReconciler
  <1>5. view = 1..1
    BY <1>1
  <1>6. TypeOK
    <2>1. Len(log) \in 1..MaxLog /\ view \subseteq 1..MaxLog
      BY <1>1, <1>2 DEF Head_
    <2>2. key \in 0..MaxRotations /\ cuts \in 0..MaxCuts /\ refreshed \in 0..MaxLog
      BY <1>1
    <2>3. access \in BOOLEAN /\ resetUsed \in BOOLEAN
      BY <1>1
    <2>4. phase \in {"connecting", "reading", "refreshing"} \cup Stopped
      BY <1>1
    <2>5. QED
      BY <1>2, <1>3, <1>4, <2>1, <2>2, <2>3, <2>4 DEF TypeOK
  <1>7. Frames = <<>>
    BY <1>1, <1>3, JoinEnds DEF Frames
  <1>8. ReconSound /\ FramesSound /\ ChainSound /\ PositionSound /\ ClientSound
    BY <1>1, <1>2, <1>3, <1>4, <1>5, <1>7
       DEF ReconSound, FramesSound, ChainSound, Chained, PositionSound, ClientSound, NeverOutOfSequence
  <1>9. QED
    BY <1>6, <1>8 DEF SInv

\* Every step keeps the invariant and never takes the shown board back.
LEMMA NextKeeps ==
  ASSUME StreamAssumption, SInv, [Next]_vars
  PROVE  SInv' /\ (ViewNeverRegresses \/ UNCHANGED vars)
  <1>1. ASSUME NEW kind \in EventKinds, Commit(kind) PROVE SInv' /\ ViewNeverRegresses
    BY <1>1, CommitKeeps DEF Commit, clientVars, ViewNeverRegresses
  <1>2. CASE Revoke \/ CursorAges
    BY <1>2, SurroundingsKeep DEF Revoke, CursorAges, clientVars, ViewNeverRegresses
  <1>3. CASE OpenRefused \/ OpenFails \/ OpenInvalidCursor \/ EndOfStream \/ Recycle \/ RefreshFails
    BY <1>3, ReconnectKeeps
       DEF OpenRefused, OpenFails, OpenInvalidCursor, EndOfStream, Recycle, RefreshFails, ViewNeverRegresses
  <1>4. CASE Open
    BY <1>4, OpenKeeps DEF Open, ViewNeverRegresses
  <1>5. CASE PostCut
    BY <1>5, PostCutKeeps DEF PostCut, clientVars, ViewNeverRegresses
  <1>6. CASE WriteFrame
    BY <1>6, WriteFrameKeeps DEF WriteFrame, clientVars, ViewNeverRegresses
  <1>7. CASE WritePresence
    BY <1>7, WritePresenceKeeps DEF WritePresence, clientVars, ViewNeverRegresses
  <1>8. CASE Drain
    BY <1>8, DrainKeeps DEF Drain, clientVars, ViewNeverRegresses
  <1>9. CASE DrainFails \/ Finish \/ RotateKey
    BY <1>9, RequestOverKeeps DEF DrainFails, Finish, RotateKey, clientVars, ViewNeverRegresses
  <1>10. CASE ApplySnapshot \/ ApplyEvent
    BY <1>10, ApplyKeeps
  <1>11. CASE SkipFrame
    BY <1>11, SkipKeeps
  <1>12. CASE Abandon
    BY <1>12, AbandonKeeps
  <1>13. CASE Refresh
    BY <1>13, RefreshKeeps
  <1>14. CASE UNCHANGED vars
    <2>1. UNCHANGED <<log, access, key, server, wire, phase, recon, resetUsed, view, refreshed, cuts>>
      BY <1>14 DEF vars
    <2>2. Frames' = Frames /\ TypeOK'
      BY <2>1 DEF Frames, SInv, TypeOK
    <2>3. ReconSound' /\ PositionSound' /\ ClientSound'
      BY <2>1 DEF SInv, ReconSound, PositionSound, Ends, ClientSound, NeverOutOfSequence, Head_
    <2>4. QED
      BY <1>14, <2>1, <2>2, <2>3, FramesKept DEF SInv
  <1>15. QED
    BY <1>1, <1>2, <1>3, <1>4, <1>5, <1>6, <1>7, <1>8, <1>9, <1>10, <1>11, <1>12, <1>13, <1>14
       DEF Next, Connect, Serve, Receive

\* What the invariant says of the shown board and of the frames on their way.
LEMMA SoundIsFollowed ==
  ASSUME StreamAssumption, SInv
  PROVE  TypeOK /\ ViewIsPrefix /\ FramesContinue /\ NeverOutOfSequence
  <1>1. recon.last \in 1..MaxLog /\ MaxLog \in Nat /\ view = 1..recon.last /\ recon.last <= Head_
    BY FieldsTyped DEF SInv, ReconSound
  <1>2. Cardinality(view) = recon.last
    BY <1>1, FS_Interval
  <1>3. ~recon.awaiting => recon.cursor # None /\ recon.cursor.seq = recon.last
    BY DEF SInv, ReconSound
  <1>4. ViewIsPrefix
    BY <1>1, <1>2, <1>3 DEF ViewIsPrefix
  <1>5. FramesContinue
    BY DEF SInv, ChainSound, Chained, Frames, FramesContinue
  <1>6. QED
    BY <1>4, <1>5 DEF SInv, ClientSound

\* For every board and every sequence of cuts, key changes and aged cursors: the browser
\* shows the board after a prefix of its log, the prefix only grows, and the frames on
\* their way continue it without a gap and without a duplicate.
THEOREM ViewAlwaysFollowsLog ==
  ASSUME StreamAssumption
  PROVE  Spec => ViewFollowsLog
  <1>1. Init => SInv
    BY InitSound
  <1>2. SInv /\ [Next]_vars => SInv'
    BY NextKeeps
  <1>3. SInv /\ [Next]_vars => [ViewNeverRegresses]_vars
    BY NextKeeps
  <1>4. SInv => TypeOK /\ ViewIsPrefix /\ FramesContinue /\ NeverOutOfSequence
    BY SoundIsFollowed
  <1>5. QED
    BY <1>1, <1>2, <1>3, <1>4, PTL DEF Spec, ViewFollowsLog

(***************************************************************************)
(* Readers that wait                                                       *)
(*                                                                         *)
(* A reader sleeps on the generation it captured before it looked, and it  *)
(* looked while the question was open.  So when the question is settled    *)
(* and the generation is still that one, the notification is still to      *)
(* come, or there is none.                                                 *)
(***************************************************************************)

\* Only the settlement owes a notification, and that one is always possible.
DebtSound ==
  /\ owed => settled
  /\ owed \/ ~settled => generation <= MaxGeneration

CaptureSound(r) ==
  /\ captured[r] <= generation
  /\ reader[r] = "asleep" => captured[r] = generation
  /\ reader[r] \in {"wait", "asleep"} /\ captured[r] = generation /\ settled => owed \/ silent

WInv == WaitTypeOK /\ DebtSound /\ \A r \in Readers : CaptureSound(r)

LEMMA WaitInitially == ASSUME WaitAssumption, WaitInit PROVE WInv
<1>0. MaxGeneration \in Nat /\ 0 \in 0..(MaxGeneration + 1) BY DEF WaitAssumption
<1>1. WaitTypeOK BY <1>0 DEF WaitInit, WaitTypeOK, Places
<1>2. DebtSound BY <1>0 DEF WaitInit, DebtSound
<1>3. ASSUME NEW r \in Readers PROVE CaptureSound(r) BY <1>3 DEF WaitInit, CaptureSound
<1> QED BY <1>1, <1>2, <1>3 DEF WInv

\* A reader that moves by itself disturbs nobody else.
LEMMA ReaderMoves ==
  ASSUME WaitAssumption, WInv, NEW r \in Readers, NEW place \in Places, Go(r, place),
         UNCHANGED <<settled, owed, silent, generation, captured>>,
         late' \in SUBSET Readers,
         place = "asleep" => reader[r] = "wait" /\ captured[r] = generation,
         place = "wait" => ~settled
  PROVE  WInv'
<1> USE DEF WInv
<1>1. WaitTypeOK' BY DEF WaitTypeOK, Go
<1>2. DebtSound' BY DEF DebtSound
<1>3. ASSUME NEW q \in Readers PROVE CaptureSound(q)'
  BY <1>3 DEF CaptureSound, WaitTypeOK, Go
<1> QED BY <1>1, <1>2, <1>3

LEMMA WaitStep == ASSUME WaitAssumption, WInv, [WaitNext]_waitVars PROVE WInv'
<1> USE DEF WInv
<1>1. CASE SettleHere
  BY <1>1 DEF SettleHere, WaitTypeOK, DebtSound, CaptureSound
<1>2. CASE SettleSilently
  BY <1>2 DEF SettleSilently, WaitTypeOK, DebtSound, CaptureSound
<1>3. CASE Notify
  <2>1. WaitTypeOK'
    <3>1. generation' \in 0..(MaxGeneration + 1)
      BY <1>3 DEF Notify, WaitTypeOK, DebtSound, WaitAssumption
    <3>2. reader' \in [Readers -> Places]
      BY <1>3 DEF Notify, Woken, WaitTypeOK, Places
    <3> QED BY <1>3, <3>1, <3>2 DEF Notify, WaitTypeOK
  <2>2. DebtSound'
    BY <1>3 DEF Notify, DebtSound, WaitTypeOK, WaitAssumption
  <2>3. ASSUME NEW r \in Readers PROVE CaptureSound(r)'
    BY <1>3, <2>3 DEF Notify, Woken, CaptureSound, WaitTypeOK
  <2> QED BY <2>1, <2>2, <2>3
<1>4. ASSUME NEW r \in Readers, Advance(r) \/ DeadlinePasses(r) \/ Abort(r) PROVE WInv'
  <2> late \in SUBSET Readers BY DEF WaitTypeOK
  <2>1. CASE FirstProbe(r)
    BY <2>1, ReaderMoves DEF FirstProbe, Places
  <2>2. CASE FinalProbe(r)
    BY <2>2, ReaderMoves DEF FinalProbe, FinalAnswer, Places
  <2>3. CASE CaptureGeneration(r)
    <3>1. WaitTypeOK'
      BY <2>3 DEF CaptureGeneration, Captured, Go, WaitTypeOK, Places
    <3>2. DebtSound' BY <2>3 DEF CaptureGeneration, DebtSound
    <3>3. ASSUME NEW q \in Readers PROVE CaptureSound(q)'
      BY <2>3, <3>3 DEF CaptureGeneration, Captured, Go, CaptureSound, WaitTypeOK
    <3> QED BY <3>1, <3>2, <3>3
  <2>4. CASE Probe(r)
    BY <2>4, ReaderMoves DEF Probe, Places
  <2>5. CASE Wait(r)
    BY <2>5, ReaderMoves DEF Wait, MaySleep, Places
  <2>6. CASE Timeout(r)
    BY <2>6, ReaderMoves DEF Timeout, Places
  <2>7. CASE DeadlinePasses(r)
    BY <2>7 DEF DeadlinePasses, WaitTypeOK, DebtSound, CaptureSound
  <2>8. CASE Abort(r)
    BY <2>8, ReaderMoves DEF Abort, Places
  <2> QED BY <1>4, <2>1, <2>2, <2>3, <2>4, <2>5, <2>6, <2>7, <2>8 DEF Advance
<1>5. CASE UNCHANGED waitVars
  BY <1>5 DEF waitVars, WaitTypeOK, DebtSound, CaptureSound
<1> QED BY <1>1, <1>2, <1>3, <1>4, <1>5 DEF WaitNext

LEMMA WaitInvSafe == ASSUME WInv PROVE WaitTypeOK /\ NoLostWakeup
BY DEF WInv, NoLostWakeup, CaptureSound

LEMMA UnchangedStep ==
  ASSUME WInv, [WaitNext]_waitVars PROVE [UnchangedIsTrue]_waitVars
<1> SUFFICES ASSUME NEW r \in Readers, reader[r] # "unchanged", reader'[r] = "unchanged"
             PROVE  ~settled /\ r \in late
  BY DEF UnchangedIsTrue
<1>1. reader \in [Readers -> Places] BY DEF WInv, WaitTypeOK
<1>2. PICK q \in Readers : Advance(q) \/ DeadlinePasses(q) \/ Abort(q)
  BY <1>1 DEF WaitNext, waitVars, SettleHere, SettleSilently, Notify, Woken
<1>3. FinalProbe(q) /\ q = r /\ FinalAnswer = "unchanged"
  BY <1>1, <1>2 DEF Advance, FirstProbe, FinalProbe, CaptureGeneration, Probe, Wait, Timeout,
     DeadlinePasses, Abort, Go
<1> QED BY <1>3 DEF FinalProbe, FinalAnswer

\* No reader sleeps through the answer to its question, and none is told that a
\* settled question is open, for any number of readers and notifications.
THEOREM NoAnswerEverMissed ==
  ASSUME WaitAssumption
  PROVE  WaitSpec => NoAnswerMissed
<1>1. WaitInit => WInv BY WaitInitially
<1>2. WInv /\ [WaitNext]_waitVars => WInv' BY WaitStep
<1>3. WInv => WaitTypeOK /\ NoLostWakeup BY WaitInvSafe
<1>4. WInv /\ [WaitNext]_waitVars => [UnchangedIsTrue]_waitVars BY UnchangedStep
<1> QED BY <1>1, <1>2, <1>3, <1>4, PTL DEF WaitSpec, NoAnswerMissed

(***************************************************************************)
(* Readiness                                                               *)
(*                                                                         *)
(* The two counters say how many of the newest samples are old and young;  *)
(* they are compared with 2 and 3, so that is all that matters of them.    *)
(***************************************************************************)

NewestAre(n, s) == n <= Len(recent) /\ \A m \in 1..n : recent[m] = s

CountersTell ==
  /\ degrade >= 1 <=> NewestAre(1, "old")
  /\ recover >= 1 <=> NewestAre(1, "young")
  /\ recover >= 2 <=> NewestAre(2, "young")

RInv == HealthTypeOK /\ CountersTell /\ FollowsSamples

HistoryType == recent \in Seq(Samples) /\ Len(recent) <= MaxSamples

\* The history as a sequence.
LEMMA HistoryIsSequence ==
  ASSUME HealthAssumption, recent \in UNION {[1..n -> Samples] : n \in 0..MaxSamples}
  PROVE  HistoryType
<1>1. PICK n \in 0..MaxSamples : recent \in [1..n -> Samples] OBVIOUS
<1>2. n \in Nat /\ n <= MaxSamples BY DEF HealthAssumption
<1>3. recent \in Seq(Samples) /\ Len(recent) = n BY <1>1, <1>2
<1> QED BY <1>2, <1>3 DEF HistoryType

\* A new sample is in front, and the others move by one; the oldest may be dropped.
LEMMA Remembered ==
  ASSUME HealthAssumption, HistoryType, NEW s \in Samples, Remember(s)
  PROVE  /\ recent' \in UNION {[1..n -> Samples] : n \in 0..MaxSamples}
         /\ Len(recent') = (IF Len(recent) < MaxSamples THEN Len(recent) + 1 ELSE MaxSamples)
         /\ Len(recent') \in Nat /\ Len(recent') >= 1
         /\ recent'[1] = s
         /\ \A n \in 2..Len(recent') : recent'[n] = recent[n - 1]
<1> DEFINE k == IF Len(recent) < MaxSamples THEN Len(recent) + 1 ELSE MaxSamples
           all == <<s>> \o recent
<1>1. Len(recent) \in Nat /\ MaxSamples \in Nat /\ MaxSamples >= 3 /\ Len(recent) <= MaxSamples
  BY DEF HistoryType, HealthAssumption
<1>2. k \in 1..(Len(recent) + 1) /\ k <= MaxSamples BY <1>1
<1>3. all \in Seq(Samples) /\ Len(all) = Len(recent) + 1 BY DEF HistoryType
<1>4. all[1] = s /\ \A n \in 2..Len(all) : all[n] = recent[n - 1]
  BY <1>1, <1>3 DEF HistoryType
<1>5. recent' = SubSeq(all, 1, k) BY DEF Remember
<1> HIDE DEF all, k
<1>6. SubSeq(all, 1, k) = [n \in 1..k |-> all[n]] BY <1>2, <1>3
<1>7. recent' \in [1..k -> Samples] /\ Len(recent') = k
  <2>1. ASSUME NEW n \in 1..k PROVE all[n] \in Samples BY <1>1, <1>2, <1>3, <2>1
  <2>2. recent' \in [1..k -> Samples] BY <1>5, <1>6, <2>1
  <2>3. k \in Nat BY <1>1, <1>2
  <2> QED BY <2>2, <2>3
<1>8. recent'[1] = s /\ \A n \in 2..k : recent'[n] = recent[n - 1]
  BY <1>1, <1>2, <1>3, <1>4, <1>5, <1>6
<1>9. k \in 0..MaxSamples BY <1>1, <1>2
<1>10. k = IF Len(recent) < MaxSamples THEN Len(recent) + 1 ELSE MaxSamples BY DEF k
<1> QED BY <1>1, <1>2, <1>7, <1>8, <1>9, <1>10

\* A sample decides as the one it was before did, unless the history ended too soon.
LEMMA DecidesAsBefore ==
  ASSUME HealthAssumption, HistoryType, NEW s \in Samples, Remember(s),
         NEW n \in 2..Len(recent'), Decides(n)',
         \A m \in 1..(n - 1) : ~Decides(m)'
  PROVE  /\ n - 1 \in 1..Len(recent) /\ Decides(n - 1)
         /\ \A m \in 1..(n - 2) : ~Decides(m)
<1>1. /\ Len(recent) \in Nat /\ Len(recent') \in Nat
      /\ Len(recent') <= Len(recent) + 1 /\ Len(recent') >= Len(recent)
      /\ n \in Nat /\ 2 <= n /\ n <= Len(recent')
  BY Remembered DEF HistoryType, HealthAssumption
<1>2. \A i \in 2..Len(recent') : recent'[i] = recent[i - 1] BY Remembered
<1>3. n - 1 \in 1..Len(recent) BY <1>1
<1>4. recent'[n] = recent[n - 1] BY <1>2
<1>5. n + 1 <= Len(recent') => recent'[n + 1] = recent[n]
  BY <1>1, <1>2
<1>6. n + 2 <= Len(recent') => recent'[n + 2] = recent[n + 1]
  BY <1>1, <1>2
<1>7. Decides(n - 1) BY <1>1, <1>4, <1>5, <1>6 DEF Decides
<1>8. ASSUME NEW m \in 1..(n - 2), Decides(m) PROVE FALSE
  <2>1. m \in Nat /\ 1 <= m /\ m + 2 <= n BY <1>1
  <2>2. /\ recent'[m + 1] = recent[m] /\ recent'[m + 2] = recent[m + 1]
        /\ m + 3 <= Len(recent') => recent'[m + 3] = recent[m + 2]
    BY <1>1, <1>2, <2>1
  <2>3. ~Decides(m + 1)' BY <1>1, <2>1
  <2>4. recent[m] = "young" /\ recent[m + 1] = "young" /\ recent[m + 2] = "young" /\ m + 2 = Len(recent')
    BY <1>1, <1>8, <2>1, <2>2, <2>3 DEF Decides
  <2>5. n = Len(recent') /\ recent'[n] = "young" BY <1>1, <2>1, <2>2, <2>4
  <2> QED BY <1>1, <2>5 DEF Decides
<1> QED BY <1>3, <1>7, <1>8

\* Readiness follows the samples when the newest one has its say, and the ones
\* before it keep theirs if it has none.
LEMMA FollowedOn ==
  ASSUME HealthAssumption, HistoryType, FollowsSamples, NEW s \in Samples, Remember(s),
         Decides(1)' => (ready' <=> s = "young"),
         ~Decides(1)' => ready' = ready
  PROVE  FollowsSamples'
<1> SUFFICES ASSUME NEW n \in 1..Len(recent'), Decides(n)', \A m \in 1..(n - 1) : ~Decides(m)'
             PROVE  ready' <=> recent'[n] = "young"
  BY DEF FollowsSamples
<1>1. Len(recent') \in Nat /\ n \in Nat /\ 1 <= n /\ recent'[1] = s BY Remembered
<1>2. CASE n = 1 BY <1>1, <1>2
<1>3. CASE n # 1
  <2>1. n \in 2..Len(recent') /\ 1 \in 1..(n - 1) BY <1>1, <1>3
  <2>2. ready' = ready BY <2>1
  <2>3. /\ n - 1 \in 1..Len(recent) /\ Decides(n - 1)
        /\ \A m \in 1..((n - 1) - 1) : ~Decides(m)
    BY <1>1, <2>1, DecidesAsBefore
  <2>4. recent'[n] = recent[n - 1] BY <2>1, Remembered
  <2>5. ready <=> recent[n - 1] = "young" BY <2>3 DEF FollowsSamples
  <2> QED BY <2>2, <2>4, <2>5
<1> QED BY <1>2, <1>3

\* What the counters tell of the history with one more sample.
LEMMA NewestAreNow ==
  ASSUME HealthAssumption, HistoryType, NEW s \in Samples, Remember(s), NEW t
  PROVE  /\ NewestAre(1, t)' <=> s = t
         /\ NewestAre(2, t)' <=> s = t /\ NewestAre(1, t)
<1>1. /\ MaxSamples \in Nat /\ MaxSamples >= 3 /\ Len(recent) \in Nat
      /\ Len(recent') = (IF Len(recent) < MaxSamples THEN Len(recent) + 1 ELSE MaxSamples)
      /\ Len(recent') \in Nat /\ Len(recent') >= 1 /\ recent'[1] = s
  BY Remembered DEF HistoryType, HealthAssumption
<1>2. Len(recent') >= 2 <=> Len(recent) >= 1 BY <1>1 DEF HistoryType
<1>3. Len(recent') >= 2 => recent'[2] = recent[1]
  BY <1>1, Remembered
<1>4. NewestAre(1, t)' <=> s = t BY <1>1 DEF NewestAre
<1>5. ASSUME NewestAre(2, t)' PROVE s = t /\ NewestAre(1, t)
  BY <1>1, <1>2, <1>3, <1>5 DEF NewestAre
<1>6. ASSUME s = t, NewestAre(1, t) PROVE NewestAre(2, t)'
  BY <1>1, <1>2, <1>3, <1>6 DEF NewestAre
<1> QED BY <1>4, <1>5, <1>6

\* When the newest sample decides.
LEMMA NewestDecides ==
  ASSUME HealthAssumption, HistoryType, NEW s \in Samples, Remember(s)
  PROVE  Decides(1)' <=> \/ s \in {"failed", "unhealthy"}
                         \/ s = "old" /\ NewestAre(1, "old")
                         \/ s = "young" /\ NewestAre(2, "young")
<1>1. /\ MaxSamples \in Nat /\ MaxSamples >= 3 /\ Len(recent) \in Nat
      /\ Len(recent') = (IF Len(recent) < MaxSamples THEN Len(recent) + 1 ELSE MaxSamples)
      /\ Len(recent') \in Nat /\ Len(recent') >= 1 /\ recent'[1] = s
  BY Remembered DEF HistoryType, HealthAssumption
<1>2. /\ Len(recent') >= 2 <=> Len(recent) >= 1
      /\ Len(recent') >= 3 <=> Len(recent) >= 2
  BY <1>1 DEF HistoryType
<1>3. /\ Len(recent') >= 2 => recent'[2] = recent[1]
      /\ Len(recent') >= 3 => recent'[3] = recent[2]
  BY <1>1, Remembered
<1>4. NewestAre(1, "old") <=> Len(recent) >= 1 /\ recent[1] = "old"
  BY <1>1 DEF NewestAre
<1>5. NewestAre(2, "young") <=> Len(recent) >= 2 /\ recent[1] = "young" /\ recent[2] = "young"
  BY <1>1 DEF NewestAre
<1>6. Decides(1)' <=> \/ s \in {"failed", "unhealthy"}
                      \/ s = "old" /\ 1 < Len(recent') /\ recent'[2] = "old"
                      \/ s = "young" /\ 3 <= Len(recent')
                           /\ recent'[2] = "young" /\ recent'[3] = "young"
  BY <1>1 DEF Decides
<1> QED BY <1>1, <1>2, <1>3, <1>4, <1>5, <1>6

LEMMA HealthInitially == ASSUME HealthAssumption, HealthInit PROVE RInv
<1>1. /\ MaxSamples \in Nat /\ 0 \in 0..MaxSamples /\ Len(recent) = 0
      /\ recent \in [1..0 -> Samples]
  BY DEF HealthAssumption, HealthInit
<1>2. recent \in UNION {[1..n -> Samples] : n \in 0..MaxSamples} BY <1>1
<1>3. HealthTypeOK BY <1>1, <1>2 DEF HealthInit, HealthTypeOK
<1>4. CountersTell BY <1>1 DEF HealthInit, CountersTell, NewestAre
<1>5. FollowsSamples BY <1>1 DEF FollowsSamples
<1> QED BY <1>3, <1>4, <1>5 DEF RInv

LEMMA HealthStep == ASSUME HealthAssumption, RInv, [HealthNext]_healthVars PROVE RInv'
<1> USE DEF RInv
<1>0. HistoryType BY HistoryIsSequence DEF HealthTypeOK
<1>1. /\ MaxSamples \in Nat /\ MaxSamples >= 3
      /\ degrade \in 0..MaxSamples /\ recover \in 0..MaxSamples
      /\ Up(degrade) \in 0..MaxSamples /\ Up(recover) \in 0..MaxSamples
      /\ Up(degrade) >= 1 /\ Up(recover) >= 1
      /\ Up(degrade) >= 2 <=> degrade >= 1
      /\ Up(recover) >= 2 <=> recover >= 1
      /\ Up(recover) >= 3 <=> recover >= 2
  BY DEF HealthTypeOK, HealthAssumption, Up
<1>2. CASE MeetCorrupt \/ UNCHANGED healthVars
  <2>0. UNCHANGED <<ready, replay, degrade, recover, recent>> /\ quarantined' \in BOOLEAN
    BY <1>2 DEF MeetCorrupt, healthVars, HealthTypeOK
  <2>1. HealthTypeOK' BY <2>0 DEF HealthTypeOK
  <2>2. CountersTell' BY <2>0 DEF CountersTell, NewestAre
  <2>3. FollowsSamples' BY <2>0 DEF FollowsSamples, Decides
  <2> QED BY <2>1, <2>2, <2>3
<1>3. ASSUME NEW s \in {"unhealthy", "failed"}, Remember(s), ready' = FALSE, replay' \in BOOLEAN,
             degrade' = 0, recover' = 0, UNCHANGED quarantined
      PROVE  RInv'
  <2> s \in Samples BY DEF Samples
  <2>1. FollowsSamples' BY <1>0, <1>3, FollowedOn, NewestDecides
  <2>2. CountersTell' BY <1>0, <1>3, NewestAreNow DEF CountersTell
  <2>3. HealthTypeOK' BY <1>0, <1>1, <1>3, Remembered DEF HealthTypeOK
  <2> QED BY <2>1, <2>2, <2>3
<1>4. CASE SampleUnhealthy BY <1>3, <1>4 DEF SampleUnhealthy
<1>5. CASE SampleFails BY <1>3, <1>5 DEF SampleFails
<1>6. CASE SampleAge("old")
  <2>0. /\ degrade' = Up(degrade) /\ recover' = 0 /\ ready' = (ready /\ degrade' < 2)
        /\ replay' = TRUE /\ Remember("old") /\ UNCHANGED quarantined /\ "old" \in Samples
    BY <1>6 DEF SampleAge, EndsRecovery, Samples, Ages
  <2>1. Decides(1)' <=> degrade' >= 2
    BY <1>0, <1>1, <2>0, NewestDecides DEF CountersTell
  <2>5. degrade' \in Nat /\ ready \in BOOLEAN BY <1>1, <2>0 DEF HealthTypeOK
  <2>6. ASSUME degrade' < 2 PROVE ready' = ready /\ ~Decides(1)'
    <3>1. ready' = (ready /\ TRUE) BY <2>0, <2>6
    <3>2. ready' = ready BY <2>5, <3>1, Zenon
    <3>3. ~Decides(1)' BY <2>1, <2>5, <2>6
    <3> QED BY <3>2, <3>3
  <2>7. ASSUME ~(degrade' < 2) PROVE ready' = FALSE /\ Decides(1)'
    <3>1. ready' = FALSE BY <2>0, <2>7, Zenon
    <3>2. Decides(1)' BY <2>1, <2>5, <2>7
    <3> QED BY <3>1, <3>2
  <2>8. (Decides(1)' => ready' = FALSE) /\ (~Decides(1)' => ready' = ready)
    BY <2>6, <2>7
  <2>2. FollowsSamples' BY <1>0, <2>0, <2>8, FollowedOn
  <2>3. CountersTell' BY <1>0, <1>1, <2>0, NewestAreNow DEF CountersTell
  <2>4. HealthTypeOK' BY <1>0, <1>1, <2>0, Remembered DEF HealthTypeOK
  <2> QED BY <2>2, <2>3, <2>4
<1>7. CASE SampleAge("young")
  <2>0. /\ recover' = Up(recover) /\ degrade' = 0 /\ ready' = (ready \/ recover' >= 3)
        /\ replay' = TRUE /\ Remember("young") /\ UNCHANGED quarantined /\ "young" \in Samples
    BY <1>7 DEF SampleAge, Samples, Ages
  <2>1. Decides(1)' <=> recover' >= 3
    BY <1>0, <1>1, <2>0, NewestDecides DEF CountersTell
  <2>2. FollowsSamples' BY <1>0, <2>0, <2>1, FollowedOn DEF HealthTypeOK
  <2>3. CountersTell' BY <1>0, <1>1, <2>0, NewestAreNow DEF CountersTell
  <2>4. HealthTypeOK' BY <1>0, <1>1, <2>0, Remembered DEF HealthTypeOK
  <2> QED BY <2>2, <2>3, <2>4
<1>8. CASE SampleAge("middle")
  <2>0. /\ recover' = 0 /\ degrade' = 0 /\ ready' = ready
        /\ replay' = TRUE /\ Remember("middle") /\ UNCHANGED quarantined /\ "middle" \in Samples
    BY <1>8 DEF SampleAge, MiddleResets, Samples, Ages
  <2>1. ~Decides(1)' BY <1>0, <2>0, NewestDecides
  <2>2. FollowsSamples' BY <1>0, <2>0, <2>1, FollowedOn
  <2>3. CountersTell' BY <1>0, <1>1, <2>0, NewestAreNow DEF CountersTell
  <2>4. HealthTypeOK' BY <1>0, <1>1, <2>0, Remembered DEF HealthTypeOK
  <2> QED BY <2>2, <2>3, <2>4
<1> QED BY <1>2, <1>4, <1>5, <1>6, <1>7, <1>8 DEF HealthNext, Ages

LEMMA QuarantineStep == ASSUME [HealthNext]_healthVars PROVE [QuarantineIsFinal]_healthVars
BY DEF HealthNext, healthVars, MeetCorrupt, SampleUnhealthy, SampleFails, SampleAge, AgeDecides,
   QuarantineIsFinal

\* The readiness a process reports is the one its last decisive sample calls for, for
\* every history, and a process that has met a corrupt event is not taken back.
THEOREM ReadinessAlwaysFollows ==
  ASSUME HealthAssumption
  PROVE  HealthSpec => ReadinessFollowsSamples
<1>1. HealthInit => RInv BY HealthInitially
<1>2. RInv /\ [HealthNext]_healthVars => RInv' BY HealthStep
<1>3. RInv => HealthTypeOK /\ FollowsSamples BY DEF RInv
<1>4. [HealthNext]_healthVars => [QuarantineIsFinal]_healthVars BY QuarantineStep
<1> QED BY <1>1, <1>2, <1>3, <1>4, PTL DEF HealthSpec, ReadinessFollowsSamples

(***************************************************************************)
(* Presence                                                                *)
(*                                                                         *)
(* The lease of a tab is the one of the stream that opened last for it, so *)
(* whoever holds a lease may give it back.  A user's set holds tabs of     *)
(* that user only: what is swept from it is no lease of somebody else.     *)
(* What a stream has written is of a version that has been, and tabs leave *)
(* without a new version only when their lease runs out.                   *)
(***************************************************************************)

Known == {t \in Tabs : latest[t] # NoStream}
Opened == {s \in Streams : stream[s] # "new"}
Ended == {s \in Streams : stream[s] = "ended"}

LeasesAreLatest ==
  /\ \A t \in Live : latest[t] = lease[t]
  /\ \A t \in Known : TabOf[latest[t]] = t /\ stream[latest[t]] # "new"

SetsAreOfTabs ==
  /\ index \subseteq Known
  /\ \A s \in Streams : shown[s].tabs \subseteq Known
  /\ \A u \in Users : concurrency[u] \subseteq TabsOf(u)
  /\ \A u \in Users : IsFiniteSet(Live \cap TabsOf(u))

WrittenBefore == losses = 0 => \A s \in Streams : shown[s].version <= version

\* An opening and an end move the version once each.
VersionCounts == version <= Cardinality(Opened) + Cardinality(Ended)

TabInv ==
  /\ PresenceTypeOK /\ LeasesAreLatest /\ SetsAreOfTabs /\ WrittenBefore /\ VersionCounts
  /\ LatestStreamIsPresent /\ ListsComplete /\ VersionTellsSet

LEMMA StreamSetsFinite ==
  ASSUME PresenceAssumption
  PROVE  /\ IsFiniteSet(Opened) /\ Cardinality(Opened) \in Nat
         /\ IsFiniteSet(Ended) /\ Cardinality(Ended) \in Nat
         /\ Cardinality(Opened) <= Cardinality(Streams)
         /\ Cardinality(Ended) <= Cardinality(Streams)
         /\ Cardinality(Streams) \in Nat /\ MaxVersion \in Nat
<1>1. Opened \in SUBSET Streams /\ Ended \in SUBSET Streams BY DEF Opened, Ended
<1> QED BY <1>1, FS_Subset, FS_CardinalityType DEF PresenceAssumption, MaxVersion

\* A stream that moves on: the version may go up by one when it is opened or ended.
LEMMA VersionKeepsCount ==
  ASSUME PresenceAssumption, PresenceTypeOK, VersionCounts, NEW s \in Streams,
         NEW to \in {"open", "refused", "ended", "crashed"},
         stream[s] # "ended", stream' = [stream EXCEPT ![s] = to],
         stream[s] = "new" \/ stream[s] = "open",
         \/ version' = version
         \/ version' = version + 1 /\ (to = "ended" \/ stream[s] = "new")
  PROVE  VersionCounts' /\ version' \in 0..MaxVersion
<1>0. version \in Nat BY StreamSetsFinite DEF PresenceTypeOK
<1>1. Opened' = Opened \cup {s} /\ Opened' \in SUBSET Streams BY DEF Opened, PresenceTypeOK
<1>2. Ended' = IF to = "ended" THEN Ended \cup {s} ELSE Ended BY DEF Ended, PresenceTypeOK
<1>3. s \notin Ended /\ (s \in Opened <=> stream[s] # "new") BY DEF Ended, Opened
<1>4. Ended' \in SUBSET Streams BY <1>2 DEF Ended
<1>5. /\ Cardinality(Opened') = IF s \in Opened THEN Cardinality(Opened) ELSE Cardinality(Opened) + 1
      /\ Cardinality(Ended \cup {s}) = Cardinality(Ended) + 1
  BY <1>1, <1>3, StreamSetsFinite, FS_AddElement
<1>6. /\ Cardinality(Opened') <= Cardinality(Streams) /\ Cardinality(Opened') \in Nat
      /\ Cardinality(Ended') <= Cardinality(Streams) /\ Cardinality(Ended') \in Nat
  BY <1>1, <1>4, FS_Subset, FS_CardinalityType DEF PresenceAssumption
<1>7. version' <= Cardinality(Opened') + Cardinality(Ended') /\ version' \in Nat
  BY <1>0, <1>2, <1>3, <1>5, StreamSetsFinite DEF VersionCounts
<1>8. version' <= 2 * Cardinality(Streams) /\ Cardinality(Streams) \in Nat
  BY <1>6, <1>7, StreamSetsFinite
<1> QED BY <1>7, <1>8 DEF VersionCounts, MaxVersion

LEMMA PresenceInitially == ASSUME PresenceAssumption, PresenceInit PROVE TabInv
<1>1. MaxVersion \in Nat /\ 0 \in 0..MaxVersion /\ -1 \in -1..MaxVersion /\ MaxLosses \in Nat
  BY StreamSetsFinite DEF PresenceAssumption
<1>2. /\ Live = {} /\ Known = {}
      /\ \A u \in Users : Live \cap TabsOf(u) = {} /\ concurrency[u] \cap Live = {}
  BY DEF PresenceInit, Live, Known
<1>3. PresenceTypeOK BY <1>1 DEF PresenceInit, PresenceTypeOK, Nothing, Tabs
<1>4. LeasesAreLatest BY <1>2 DEF LeasesAreLatest
<1>5. SetsAreOfTabs BY <1>2, FS_EmptySet DEF SetsAreOfTabs, PresenceInit, Nothing
<1>6. WrittenBefore BY DEF WrittenBefore, PresenceInit, Nothing
<1>7. VersionCounts BY StreamSetsFinite DEF VersionCounts, PresenceInit
<1>8. ListsComplete
  BY <1>2, FS_EmptySet DEF ListsComplete, PresenceInit, PresenceAssumption
<1>9. LatestStreamIsPresent /\ VersionTellsSet
  BY DEF LatestStreamIsPresent, VersionTellsSet, PresenceInit
<1> QED BY <1>3, <1>4, <1>5, <1>6, <1>7, <1>8, <1>9 DEF TabInv

\* A step that leaves the leases and the version alone: it may sweep the lists or put
\* a tab with a lease back into them, end a stream, or write what is there.
LEMMA LeasesStay ==
  ASSUME PresenceAssumption, TabInv, NEW s \in Streams,
         UNCHANGED <<lease, latest, version, losses>>,
         \/ stream' = stream
         \/ /\ stream[s] \in {"new", "open"}
            /\ \E to \in {"refused", "ended", "crashed"} : stream' = [stream EXCEPT ![s] = to],
         index' \in SUBSET Known, Live \subseteq index',
         concurrency' \in [Users -> SUBSET Tabs],
         \A v \in Users : /\ concurrency'[v] \subseteq TabsOf(v)
                          /\ concurrency'[v] \cap Live = concurrency[v] \cap Live,
         \/ shown' = shown
         \/ shown' = [shown EXCEPT ![s] = [version |-> version, tabs |-> Live]]
  PROVE  TabInv'
<1> USE DEF TabInv
<1>1. Live' = Live /\ Known' = Known /\ Live \subseteq Known /\ Live \in SUBSET Tabs
  BY DEF Live, Known, LeasesAreLatest
<1>2. version' \in 0..MaxVersion /\ VersionCounts'
  <2>1. CASE stream' = stream BY <2>1 DEF VersionCounts, Opened, Ended, PresenceTypeOK, MaxVersion
  <2>2. CASE stream' # stream
    <3>1. stream[s] \in {"new", "open"} BY <2>2
    <3>2. PICK to \in {"refused", "ended", "crashed"} : stream' = [stream EXCEPT ![s] = to]
      BY <2>2
    <3> QED BY <3>1, <3>2, VersionKeepsCount
  <2> QED BY <2>1, <2>2
<1>3. stream' \in [Streams -> {"new", "open", "refused", "ended", "crashed"}]
  BY DEF PresenceTypeOK
<1>4. shown' \in [Streams -> [version : -1..MaxVersion, tabs : SUBSET Tabs]]
  <2>1. version \in -1..MaxVersion BY StreamSetsFinite DEF PresenceTypeOK
  <2>2. [version |-> version, tabs |-> Live] \in [version : -1..MaxVersion, tabs : SUBSET Tabs]
    BY <1>1, <2>1
  <2> QED BY <2>2 DEF PresenceTypeOK
<1>5. PresenceTypeOK' BY <1>2, <1>3, <1>4 DEF PresenceTypeOK, Known, MaxVersion
<1>6. \A q \in Streams : stream[q] # "new" => stream'[q] # "new"
  BY DEF PresenceTypeOK
<1>7. LeasesAreLatest' BY <1>1, <1>6 DEF LeasesAreLatest, PresenceTypeOK, Known
<1>8. \A q \in Streams : \/ shown'[q] = shown[q]
                         \/ q = s /\ shown'[q].version = version /\ shown'[q].tabs = Live
  BY DEF PresenceTypeOK
<1>9. SetsAreOfTabs'
  BY <1>1, <1>8 DEF SetsAreOfTabs, TabsOf
<1>10. WrittenBefore' 
  <2> version \in Nat BY StreamSetsFinite DEF PresenceTypeOK
  <2> QED BY <1>8 DEF WrittenBefore
<1>11. LatestStreamIsPresent' BY DEF LatestStreamIsPresent, PresenceTypeOK
<1>12. ListsComplete' BY <1>1 DEF ListsComplete, TabsOf
<1>13. VersionTellsSet'
  <2> SUFFICES ASSUME losses' = 0, NEW q \in Streams, stream'[q] = "open",
                      shown'[q].version = version'
               PROVE  /\ Live' \subseteq shown'[q].tabs
                      /\ \A t \in shown'[q].tabs \ Live' : stream'[latest'[t]] = "crashed"
    BY DEF VersionTellsSet
  <2>1. CASE shown'[q] = shown[q]
    <3>1. stream[q] = "open" BY DEF PresenceTypeOK
    <3>2. \A t \in shown[q].tabs \ Live : stream[latest[t]] = "crashed" /\ latest[t] \in Streams
      BY <2>1, <3>1 DEF VersionTellsSet, SetsAreOfTabs, Known, PresenceTypeOK
    <3>3. \A t \in shown[q].tabs \ Live : stream'[latest[t]] = "crashed"
      BY <3>2 DEF PresenceTypeOK
    <3> QED BY <1>1, <2>1, <3>1, <3>3 DEF VersionTellsSet
  <2>2. CASE shown'[q].tabs = Live BY <1>1, <2>2
  <2> QED BY <1>8, <2>1, <2>2
<1> QED BY <1>2, <1>5, <1>7, <1>9, <1>10, <1>11, <1>12, <1>13

\* What sweeping leaves of the lists.
LEMMA SweptLists ==
  ASSUME TabInv
  PROVE  /\ Swept(index) = Live /\ Live \subseteq Known
         /\ \A v \in Users : /\ Swept(concurrency[v]) \subseteq TabsOf(v)
                             /\ Swept(concurrency[v]) \cap Live = concurrency[v] \cap Live
BY DEF TabInv, Swept, ListsComplete, SetsAreOfTabs, LeasesAreLatest, Known, Live, PresenceTypeOK

\* An opening that is refused: leases stay, expired members are swept.
LEMMA RefusalKeeps ==
  ASSUME PresenceAssumption, TabInv, NEW s \in Streams, OpenTab(s),
         lease[TabOf[s]] = NoStream /\ Full(UserOf[TabOf[s]])
  PROVE  TabInv'
<1> DEFINE u == UserOf[TabOf[s]]
<1>0. /\ stream[s] = "new" /\ stream' = [stream EXCEPT ![s] = "refused"]
      /\ index' = Swept(index) /\ concurrency' = [concurrency EXCEPT ![u] = Swept(@)]
      /\ UNCHANGED <<lease, version, latest, shown, losses>>
      /\ TabOf[s] \in Tabs /\ u \in Users
  BY DEF OpenTab, PresenceAssumption
<1> HIDE DEF u
<1>1. concurrency \in [Users -> SUBSET Tabs] BY DEF TabInv, PresenceTypeOK
<1>2. \A v \in Users : concurrency'[v] = (IF v = u THEN Swept(concurrency[v]) ELSE concurrency[v])
  BY <1>0, <1>1
<1>3. concurrency' \in [Users -> SUBSET Tabs] BY <1>0, <1>1 DEF Swept
<1>4. \A v \in Users : /\ concurrency'[v] \subseteq TabsOf(v)
                       /\ concurrency'[v] \cap Live = concurrency[v] \cap Live
  BY <1>2, SweptLists DEF TabInv, SetsAreOfTabs
<1> QED BY <1>0, <1>3, <1>4, SweptLists, LeasesStay

\* An opening: the tab's key is the stream's, and the version moves.
LEMMA OpeningKeeps ==
  ASSUME PresenceAssumption, TabInv, NEW s \in Streams, OpenTab(s),
         ~(lease[TabOf[s]] = NoStream /\ Full(UserOf[TabOf[s]]))
  PROVE  TabInv'
<1> USE DEF TabInv
<1> DEFINE t == TabOf[s]
           u == UserOf[TabOf[s]]
<1>0. /\ stream[s] = "new" /\ stream' = [stream EXCEPT ![s] = "open"]
      /\ lease' = [lease EXCEPT ![t] = s] /\ latest' = [latest EXCEPT ![t] = s]
      /\ index' = Swept(index) \cup {t}
      /\ concurrency' = [concurrency EXCEPT ![u] = Swept(@) \cup {t}]
      /\ version' = version + 1
      /\ UNCHANGED <<shown, losses>>
      /\ t \in Tabs /\ u \in Users /\ s # NoStream /\ t \in TabsOf(u) /\ TabOf[s] = t
      /\ \A v \in Users : v # u => t \notin TabsOf(v)
  BY DEF OpenTab, PresenceAssumption, TabsOf
<1>00. lease[t] = NoStream => ~Full(u) OBVIOUS
<1> HIDE DEF u, t
<1>1. Live' = Live \cup {t} /\ Known' = Known \cup {t} /\ Live \subseteq Tabs
  BY <1>0 DEF Live, Known, PresenceTypeOK
<1>2. VersionCounts' /\ version' \in 0..MaxVersion BY <1>0, VersionKeepsCount
<1>3. PresenceTypeOK' BY <1>0, <1>1, <1>2 DEF PresenceTypeOK, Swept
<1>4. LeasesAreLatest' BY <1>0, <1>1 DEF LeasesAreLatest, PresenceTypeOK, Known, Live
<1>5. \A v \in Users : concurrency'[v] = (IF v = u THEN Swept(concurrency[v]) \cup {t} ELSE concurrency[v])
  BY <1>0 DEF PresenceTypeOK
<1>6. \A v \in Users : Live' \cap TabsOf(v)' = IF v = u THEN (Live \cap TabsOf(v)) \cup {t} ELSE Live \cap TabsOf(v)
  BY <1>0, <1>1 DEF TabsOf
<1>7. SetsAreOfTabs'
  <2>1. ASSUME NEW v \in Users PROVE IsFiniteSet(Live' \cap TabsOf(v)')
    <3>1. IsFiniteSet(Live \cap TabsOf(v)) BY DEF SetsAreOfTabs
    <3>2. IsFiniteSet((Live \cap TabsOf(v)) \cup {t}) BY <3>1, FS_AddElement
    <3> QED BY <1>6, <3>1, <3>2
  <2> QED BY <1>0, <1>1, <1>5, <2>1 DEF SetsAreOfTabs, Swept, TabsOf
<1>8. version \in Nat BY StreamSetsFinite DEF PresenceTypeOK
<1>9. \A q \in Streams : shown[q].version \in Int BY StreamSetsFinite DEF PresenceTypeOK
<1>10. WrittenBefore' BY <1>0, <1>8, <1>9 DEF WrittenBefore
<1>11. LatestStreamIsPresent'
  BY <1>0 DEF LatestStreamIsPresent, PresenceTypeOK, PresenceAssumption
<1>12. ListsComplete'
  <2>1. Live' \subseteq index' BY <1>0, <1>1 DEF ListsComplete, Swept
  <2>2. ASSUME NEW v \in Users
        PROVE  Live' \cap TabsOf(v)' = concurrency'[v] \cap Live'
    <3>1. /\ Live \cap TabsOf(v) = concurrency[v] \cap Live
          /\ concurrency[v] \subseteq TabsOf(v)
      BY DEF ListsComplete, SetsAreOfTabs
    <3>2. CASE v = u
      <4>1. concurrency'[v] = (concurrency[v] \cap Live) \cup {t} BY <1>5, <3>2 DEF Swept
      <4>2. Live' \cap TabsOf(v)' = (Live \cap TabsOf(v)) \cup {t} BY <1>6, <3>2
      <4> QED BY <1>1, <3>1, <4>1, <4>2
    <3>3. CASE v # u
      <4>1. concurrency'[v] = concurrency[v] BY <1>5, <3>3
      <4>2. Live' \cap TabsOf(v)' = Live \cap TabsOf(v) BY <1>6, <3>3
      <4>3. t \notin concurrency[v] BY <1>0, <3>1, <3>3
      <4> QED BY <1>1, <3>1, <4>1, <4>2, <4>3
    <3> QED BY <3>2, <3>3
  <2>3. ASSUME NEW v \in Users
        PROVE  Cardinality(Live' \cap TabsOf(v)') <= Cap
    <3>1. CASE v # u BY <1>6, <3>1 DEF ListsComplete
    <3>2. CASE v = u /\ t \in Live
      <4>1. Live' \cap TabsOf(v)' = Live \cap TabsOf(v) BY <1>0, <1>6, <3>2
      <4> QED BY <4>1 DEF ListsComplete
    <3>3. CASE v = u /\ t \notin Live
      <4>1. ~Full(u) BY <1>0, <1>00, <3>3 DEF Live
      <4>2. Live \cap TabsOf(u) = Swept(concurrency[u]) BY <1>0 DEF ListsComplete, Swept
      <4>3. Cardinality(Live \cap TabsOf(u)) < Cap /\ Cardinality(Live \cap TabsOf(u)) \in Nat
        <5>1. IsFiniteSet(Live \cap TabsOf(u)) BY <1>0 DEF SetsAreOfTabs
        <5>2. Cardinality(Live \cap TabsOf(u)) \in Nat BY <5>1, FS_CardinalityType
        <5>3. ~(Cardinality(Live \cap TabsOf(u)) >= Cap) BY <4>1, <4>2 DEF Full
        <5> QED BY <5>2, <5>3 DEF PresenceAssumption
      <4>4. Cardinality((Live \cap TabsOf(u)) \cup {t}) = Cardinality(Live \cap TabsOf(u)) + 1
        BY <1>0, <3>3, FS_AddElement DEF SetsAreOfTabs
      <4>5. Live' \cap TabsOf(v)' = (Live \cap TabsOf(u)) \cup {t} BY <1>6, <3>3
      <4>6. Cardinality(Live \cap TabsOf(u)) + 1 <= Cap BY <4>3 DEF PresenceAssumption
      <4> QED BY <4>4, <4>5, <4>6
    <3> QED BY <3>1, <3>2, <3>3
  <2> QED BY <2>1, <2>2, <2>3 DEF ListsComplete
<1>13. VersionTellsSet'
  BY <1>0, <1>8, <1>9 DEF VersionTellsSet, WrittenBefore
<1> QED BY <1>2, <1>3, <1>4, <1>7, <1>10, <1>11, <1>12, <1>13

LEMMA TouchKeeps ==
  ASSUME PresenceAssumption, TabInv, NEW s \in Streams, Touch(s)
  PROVE  TabInv'
<1> DEFINE t == TabOf[s]
           u == UserOf[TabOf[s]]
<1>0. /\ concurrency \in [Users -> SUBSET Tabs] /\ index \in SUBSET Known /\ Live \subseteq index
      /\ \A v \in Users : concurrency[v] \subseteq TabsOf(v)
  BY DEF TabInv, PresenceTypeOK, SetsAreOfTabs, ListsComplete
<1>1. CASE Holds(s)
  <2>1. /\ stream' = stream /\ index' = index \cup {t}
        /\ concurrency' = [concurrency EXCEPT ![u] = @ \cup {t}]
        /\ UNCHANGED <<lease, latest, version, losses, shown>>
    BY <1>1 DEF Touch, TouchVersion
  <2>2. t \in Live /\ u \in Users /\ t \in TabsOf(u) /\ t \in Known
    BY <1>1, SweptLists DEF Holds, Live, PresenceAssumption, TabsOf, Known
  <2>3. t \in concurrency[u] BY <2>2 DEF TabInv, ListsComplete
  <2> HIDE DEF t, u
  <2>4. concurrency' = concurrency /\ index' \in SUBSET Known /\ Live \subseteq index'
    BY <1>0, <2>1, <2>2, <2>3
  <2> QED BY <1>0, <2>1, <2>4, LeasesStay
<1>2. CASE ~Holds(s)
  BY <1>0, <1>2, LeasesStay DEF Touch
<1> QED BY <1>1, <1>2

LEMMA WriteKeeps ==
  ASSUME PresenceAssumption, TabInv, NEW s \in Streams, WriteTabs(s)
  PROVE  TabInv'
<1>1. /\ concurrency \in [Users -> SUBSET Tabs]
      /\ \A v \in Users : concurrency[v] \subseteq TabsOf(v)
  BY DEF TabInv, PresenceTypeOK, SetsAreOfTabs
<1> QED BY <1>1, SweptLists, LeasesStay DEF WriteTabs

LEMMA CrashKeeps ==
  ASSUME PresenceAssumption, TabInv, NEW s \in Streams, Crash(s)
  PROVE  TabInv'
<1>0. /\ concurrency \in [Users -> SUBSET Tabs] /\ index \in SUBSET Known /\ Live \subseteq index
      /\ \A v \in Users : concurrency[v] \subseteq TabsOf(v)
  BY DEF TabInv, PresenceTypeOK, SetsAreOfTabs, ListsComplete
<1> QED BY <1>0, LeasesStay DEF Crash

\* The end of a stream that no longer has the lease, and of one that has.
LEMMA EndKeeps ==
  ASSUME PresenceAssumption, TabInv, NEW s \in Streams, End(s)
  PROVE  TabInv'
<1> DEFINE t == TabOf[s]
           u == UserOf[TabOf[s]]
<1>0. /\ concurrency \in [Users -> SUBSET Tabs] /\ index \in SUBSET Known /\ Live \subseteq index
      /\ \A v \in Users : concurrency[v] \subseteq TabsOf(v)
  BY DEF TabInv, PresenceTypeOK, SetsAreOfTabs, ListsComplete
<1>1. CASE ~Holds(s) BY <1>0, <1>1, LeasesStay DEF End
<1>2. CASE Holds(s)
  <2> USE DEF TabInv
  <2>0. /\ stream[s] = "open" /\ stream' = [stream EXCEPT ![s] = "ended"]
        /\ lease' = [lease EXCEPT ![t] = NoStream]
        /\ index' = index \ {t}
        /\ concurrency' = [concurrency EXCEPT ![u] = @ \ {t}]
        /\ version' = version + 1
        /\ UNCHANGED <<shown, latest, losses>>
        /\ lease[t] = s /\ t \in Tabs /\ u \in Users /\ t \in TabsOf(u)
        /\ \A v \in Users : v # u => t \notin TabsOf(v)
    BY <1>2 DEF End, Holds, CloseVersion, PresenceAssumption, TabsOf
  <2> HIDE DEF t, u
  <2>1. Live' = Live \ {t} /\ Known' = Known /\ Live \subseteq Tabs
    BY <2>0 DEF Live, Known, PresenceTypeOK
  <2>2. VersionCounts' /\ version' \in 0..MaxVersion BY <2>0, VersionKeepsCount
  <2>3. PresenceTypeOK' BY <2>0, <2>1, <2>2 DEF PresenceTypeOK
  <2>4. LeasesAreLatest' BY <2>0, <2>1 DEF LeasesAreLatest, PresenceTypeOK, Known, Live
  <2>5. \A v \in Users : concurrency'[v] = concurrency[v] \ {t}
    BY <1>0, <2>0
  <2>6. \A v \in Users : Live' \cap TabsOf(v)' = (Live \cap TabsOf(v)) \ {t}
    BY <2>1 DEF TabsOf
  <2>7. ASSUME NEW v \in Users
        PROVE  /\ IsFiniteSet(Live' \cap TabsOf(v)')
               /\ Cardinality(Live' \cap TabsOf(v)') <= Cap
               /\ Live' \cap TabsOf(v)' = concurrency'[v] \cap Live'
    <3>1. IsFiniteSet(Live \cap TabsOf(v)) /\ Cardinality(Live \cap TabsOf(v)) <= Cap
      BY DEF SetsAreOfTabs, ListsComplete
    <3>2. (Live \cap TabsOf(v)) \ {t} \in SUBSET (Live \cap TabsOf(v)) OBVIOUS
    <3>3. /\ IsFiniteSet((Live \cap TabsOf(v)) \ {t})
          /\ Cardinality((Live \cap TabsOf(v)) \ {t}) <= Cardinality(Live \cap TabsOf(v))
      BY <3>1, <3>2, FS_Subset
    <3>4. /\ Cardinality((Live \cap TabsOf(v)) \ {t}) \in Nat
          /\ Cardinality(Live \cap TabsOf(v)) \in Nat
      BY <3>1, <3>3, FS_CardinalityType
    <3>5. Cardinality((Live \cap TabsOf(v)) \ {t}) <= Cap
      BY <3>1, <3>3, <3>4 DEF PresenceAssumption
    <3>6. Live \cap TabsOf(v) = concurrency[v] \cap Live BY DEF ListsComplete
    <3> QED BY <2>1, <2>5, <2>6, <3>3, <3>5, <3>6
  <2>8. SetsAreOfTabs' BY <2>0, <2>1, <2>5, <2>7 DEF SetsAreOfTabs, TabsOf
  <2>9. /\ version \in Nat
        /\ \A q \in Streams : shown[q].version \in Int
    BY StreamSetsFinite DEF PresenceTypeOK
  <2>10. WrittenBefore' BY <2>0, <2>9 DEF WrittenBefore
  <2>11. LatestStreamIsPresent' BY <2>0 DEF LatestStreamIsPresent, PresenceTypeOK
  <2>12. ListsComplete' BY <2>0, <2>1, <2>7, <1>0 DEF ListsComplete
  <2>13. VersionTellsSet' BY <2>0, <2>9 DEF VersionTellsSet, WrittenBefore
  <2> QED BY <2>2, <2>3, <2>4, <2>8, <2>10, <2>11, <2>12, <2>13
<1> QED BY <1>1, <1>2

\* A lease runs out with no word of it.
LEMMA ExpireKeeps ==
  ASSUME PresenceAssumption, TabInv, NEW t \in Tabs, Expire(t)
  PROVE  TabInv'
<1> USE DEF TabInv
<1>0. /\ lease[t] # NoStream /\ stream[lease[t]] = "crashed"
      /\ lease' = [lease EXCEPT ![t] = NoStream]
      /\ UNCHANGED <<index, concurrency, version, stream, shown, latest, losses>>
  BY DEF Expire
<1>1. Live' = Live \ {t} /\ Known' = Known /\ Live \subseteq Tabs /\ latest[t] = lease[t]
  BY <1>0 DEF Live, Known, PresenceTypeOK, LeasesAreLatest
<1>2. VersionCounts' BY <1>0 DEF VersionCounts, Opened, Ended
<1>3. PresenceTypeOK' BY <1>0 DEF PresenceTypeOK, MaxVersion
<1>4. LeasesAreLatest' BY <1>0, <1>1 DEF LeasesAreLatest, PresenceTypeOK, Known, Live
<1>5. \A v \in Users : Live' \cap TabsOf(v)' = (Live \cap TabsOf(v)) \ {t}
  BY <1>1 DEF TabsOf
<1>6. ASSUME NEW v \in Users
      PROVE  /\ IsFiniteSet(Live' \cap TabsOf(v)')
             /\ Cardinality(Live' \cap TabsOf(v)') <= Cap
             /\ Live' \cap TabsOf(v)' = concurrency'[v] \cap Live'
  <2>1. IsFiniteSet(Live \cap TabsOf(v)) /\ Cardinality(Live \cap TabsOf(v)) <= Cap
    BY DEF SetsAreOfTabs, ListsComplete
  <2>2. (Live \cap TabsOf(v)) \ {t} \in SUBSET (Live \cap TabsOf(v)) OBVIOUS
  <2>3. /\ IsFiniteSet((Live \cap TabsOf(v)) \ {t})
        /\ Cardinality((Live \cap TabsOf(v)) \ {t}) <= Cardinality(Live \cap TabsOf(v))
    BY <2>1, <2>2, FS_Subset
  <2>4. /\ Cardinality((Live \cap TabsOf(v)) \ {t}) \in Nat
        /\ Cardinality(Live \cap TabsOf(v)) \in Nat
    BY <2>1, <2>3, FS_CardinalityType
  <2>5. Cardinality((Live \cap TabsOf(v)) \ {t}) <= Cap
    BY <2>1, <2>3, <2>4 DEF PresenceAssumption
  <2>6. Live \cap TabsOf(v) = concurrency[v] \cap Live BY DEF ListsComplete
  <2> QED BY <1>0, <1>1, <1>5, <2>3, <2>5, <2>6
<1>7. SetsAreOfTabs' BY <1>0, <1>1, <1>6 DEF SetsAreOfTabs, TabsOf
<1>8. WrittenBefore' BY <1>0 DEF WrittenBefore
<1>9. LatestStreamIsPresent' BY <1>0 DEF LatestStreamIsPresent, PresenceTypeOK
<1>10. ListsComplete' BY <1>0, <1>1, <1>6 DEF ListsComplete
<1>11. VersionTellsSet' BY <1>0, <1>1 DEF VersionTellsSet
<1> QED BY <1>2, <1>3, <1>4, <1>7, <1>8, <1>9, <1>10, <1>11

\* Redis comes back empty; from then on only the lists and the caps are promised.
LEMMA LossKeeps == ASSUME PresenceAssumption, TabInv, LoseRedis PROVE TabInv'
<1> USE DEF TabInv
<1>0. /\ losses < MaxLosses /\ losses' = losses + 1
      /\ lease' = [t \in Tabs |-> NoStream] /\ index' = {}
      /\ concurrency' = [u \in Users |-> {}] /\ version' = 0
      /\ UNCHANGED <<stream, shown, latest>>
      /\ losses \in Nat /\ MaxLosses \in Nat
  BY DEF LoseRedis, PresenceTypeOK, PresenceAssumption
<1>1. Live' = {} /\ Known' = Known BY <1>0 DEF Live, Known
<1>2. VersionCounts'
  BY <1>0, StreamSetsFinite DEF VersionCounts, Opened, Ended
<1>3. PresenceTypeOK'
  BY <1>0, StreamSetsFinite DEF PresenceTypeOK, MaxVersion, Tabs
<1>4. LeasesAreLatest' BY <1>0, <1>1 DEF LeasesAreLatest, Known
<1>5. \A v \in Users : Live' \cap TabsOf(v)' = {} /\ concurrency'[v] = {}
  BY <1>0, <1>1
<1>6. SetsAreOfTabs' BY <1>0, <1>1, <1>5, FS_EmptySet DEF SetsAreOfTabs, TabsOf
<1>7. ListsComplete' BY <1>0, <1>1, <1>5, FS_EmptySet DEF ListsComplete, PresenceAssumption
<1>8. losses' # 0 BY <1>0
<1>9. WrittenBefore' /\ LatestStreamIsPresent' /\ VersionTellsSet'
  BY <1>8 DEF WrittenBefore, LatestStreamIsPresent, VersionTellsSet
<1> QED BY <1>2, <1>3, <1>4, <1>6, <1>7, <1>9

LEMMA PresenceStep ==
  ASSUME PresenceAssumption, TabInv, [PresenceNext]_presenceVars PROVE TabInv'
<1>1. ASSUME NEW s \in Streams, OpenTab(s) PROVE TabInv'
  BY <1>1, OpeningKeeps, RefusalKeeps
<1>2. CASE UNCHANGED presenceVars
  BY <1>2 DEF presenceVars, TabInv, PresenceTypeOK, LeasesAreLatest, SetsAreOfTabs, WrittenBefore,
     VersionCounts, LatestStreamIsPresent, ListsComplete, VersionTellsSet, Known, Live, Opened,
     Ended, TabsOf, MaxVersion
<1> QED BY <1>1, <1>2, TouchKeeps, EndKeeps, WriteKeeps, CrashKeeps, ExpireKeeps, LossKeeps
        DEF PresenceNext

\* Only an opening refuses, when the leases of the user are as many as the cap.
LEMMA RefusalStep ==
  ASSUME PresenceAssumption, TabInv, [PresenceNext]_presenceVars
  PROVE  [RefusedOnlyAtCap]_presenceVars
<1> SUFFICES ASSUME NEW s \in Streams, stream[s] = "new", stream'[s] = "refused"
             PROVE  Cardinality(Live \cap TabsOf(UserOf[TabOf[s]])) = Cap
  BY DEF RefusedOnlyAtCap
<1> DEFINE u == UserOf[TabOf[s]]
<1>0. u \in Users BY DEF PresenceAssumption
<1>1. stream \in [Streams -> {"new", "open", "refused", "ended", "crashed"}]
  BY DEF TabInv, PresenceTypeOK
<1>2. PICK q \in Streams : OpenTab(q) \/ Touch(q) \/ End(q) \/ WriteTabs(q) \/ Crash(q)
  BY <1>1 DEF PresenceNext, presenceVars, Expire, LoseRedis
<1>3. OpenTab(q) /\ q = s /\ Full(u)
  BY <1>1, <1>2 DEF OpenTab, Touch, End, WriteTabs, Crash
<1>4. Live \cap TabsOf(u) = Swept(concurrency[u]) /\ Cardinality(Live \cap TabsOf(u)) <= Cap
  BY <1>0 DEF TabInv, ListsComplete, Swept
<1>5. Cardinality(Live \cap TabsOf(u)) \in Nat
  BY <1>0, FS_CardinalityType DEF TabInv, SetsAreOfTabs
<1>6. Cardinality(Live \cap TabsOf(u)) >= Cap BY <1>3, <1>4 DEF Full
<1> HIDE DEF u
<1>7. Cardinality(Live \cap TabsOf(u)) = Cap BY <1>4, <1>5, <1>6 DEF PresenceAssumption
<1> QED BY <1>7 DEF u

\* Who is shown as present is, and a tab is refused only where the cap is used up by tabs
\* that are present, for any number of tabs, users and servers that die.
THEOREM PresenceAlwaysTold ==
  ASSUME PresenceAssumption
  PROVE  PresenceSpec => PresenceIsTold
<1>1. PresenceInit => TabInv BY PresenceInitially
<1>2. TabInv /\ [PresenceNext]_presenceVars => TabInv' BY PresenceStep
<1>3. TabInv => /\ PresenceTypeOK /\ LatestStreamIsPresent
                /\ ListsComplete /\ VersionTellsSet
  BY DEF TabInv
<1>4. TabInv /\ [PresenceNext]_presenceVars => [RefusedOnlyAtCap]_presenceVars BY RefusalStep
<1> QED BY <1>1, <1>2, <1>3, <1>4, PTL DEF PresenceSpec, PresenceIsTold

-----------------------------------------------------------------------------
(***************************************************************************)
(* The fan-out: the inductive invariant                                    *)
(*                                                                         *)
(* The open generation is the current one, and has members.  A generation  *)
(* that is in the set of the channel is set up and not torn down.  Set-ups *)
(* are queued in the order in which their generations were created, so     *)
(* nobody else has found the set of the current one before its command is  *)
(* answered: only a generation that was set up with an older set can       *)
(* remove it from the channel, and then stays in that older set.           *)
(***************************************************************************)

Unsettled == {"connecting", "sent", "unanswered"}

GenerationFits(g) ==
  /\ setup[g] # "unused" /\ g \notin closed <=> current = g
  /\ setup[g] = "unused" => g \notin closed
  /\ setup[g] = "failed" => g \in closed
  /\ setup[g] = "ready" /\ teardown[g] = "none" => g \notin closed
  /\ teardown[g] # "none" => setup[g] = "ready" /\ g \in closed
  /\ current = g => members[g] # {}
GenerationsFit == \A g \in Listeners : GenerationFits(g)

ListenerFits(l) ==
  /\ call[l] = "new" => setup[l] = "unused"
  /\ \A g \in Listeners : l \in members[g] => joined[l] = g /\ call[l] \in {"waiting", "active"}
  /\ call[l] = "waiting" =>
       /\ joined[l] \in Listeners /\ setup[joined[l]] # "unused"
       /\ l \in members[joined[l]] \/ joined[l] \in closed
  /\ call[l] = "active" =>
       joined[l] \in Listeners /\ l \in members[joined[l]] /\ setup[joined[l]] = "ready"
ListenersFit == \A l \in Listeners : ListenerFits(l)

TransportFits ==
  \A g \in Listeners :
    /\ setup[g] \in {"unused", "queued"} =>
         transport[g] = {} /\ channel # g /\ \A h \in Listeners : kept[h] # g
    /\ setup[g] \in Unsettled => kept[g] = g
    /\ setup[g] = "ready" => kept[g] \in Listeners
    /\ setup[g] = "ready" /\ teardown[g] # "done" => g \in transport[kept[g]]
    /\ \A s \in Listeners : g \in transport[s] => setup[g] = "ready"
    /\ channel # Absent /\ g \in transport[channel] => teardown[g] # "done"

\* What is queued is waited for, and queued once.
Entry == {"setup", "teardown"} \X Listeners
Waits(q, up, down) ==
  /\ \A i \in 1..Len(q) : /\ q[i][1] = "setup" => up[q[i][2]] = "queued"
                          /\ q[i][1] = "teardown" => down[q[i][2]] = "queued"
  /\ \A i, j \in 1..Len(q) : q[i] = q[j] => i = j
MicroFits == Waits(micro, setup, teardown)

\* The set-ups in q are those that wait, and that of the open generation c is
\* the last of them.
Lined(q, up, c) ==
  /\ \A g \in Listeners : up[g] = "queued" => \E i \in 1..Len(q) : q[i] = <<"setup", g>>
  /\ c # Absent => \A i, j \in 1..Len(q) : q[i] = <<"setup", c>> /\ q[j][1] = "setup" => j <= i
Alone(g) ==
  /\ setup[g] # "queued" => \A h \in Listeners : setup[h] # "queued"
  /\ setup[g] \in Unsettled => \A h \in Listeners : kept[h] = g => h = g
OrderFits == Lined(micro, setup, current) /\ \A g \in Listeners : current = g => Alone(g)

\* A generation whose set is not that of the channel.
Lost(g) ==
  /\ kept[g] \in Listeners /\ kept[g] # channel
  /\ setup[g] \in Unsettled \/ g \in transport[kept[g]]
Unharmed ==
  /\ listening => channel # Absent \/ \E g \in Listeners : Lost(g)
  /\ channel # Absent => transport[channel] # {} \/ setup[channel] \in {"connecting", "sent"}
  /\ \A g \in Listeners : setup[g] # "unanswered"
ReachFits ==
  /\ \A g \in Listeners : current = g /\ setup[g] \in Unsettled \cup {"ready"} => channel = kept[g] \/ Strayed
  /\ channel # Absent /\ setup[channel] \in {"sent", "ready"} => listening
  /\ faults = 0 => Unharmed

FInv ==
  FanoutTypeOK /\ GenerationsFit /\ ListenersFit /\ TransportFits /\ MicroFits /\ OrderFits /\ ReachFits

-----------------------------------------------------------------------------
\* One entry more, which was not queued; the others wait on.
LEMMA WaitsAppended ==
  ASSUME NEW q \in Seq(Entry), NEW e \in Entry, NEW up, NEW down, NEW up2, NEW down2, Waits(q, up, down),
         \A h \in Listeners : (up[h] = "queued" => up2[h] = "queued") /\ (down[h] = "queued" => down2[h] = "queued"),
         e[1] = "setup" => up[e[2]] # "queued" /\ up2[e[2]] = "queued",
         e[1] = "teardown" => down[e[2]] # "queued" /\ down2[e[2]] = "queued"
  PROVE  Append(q, e) \in Seq(Entry) /\ Waits(Append(q, e), up2, down2)
  <1> DEFINE p == Append(q, e)
  <1>1. /\ p \in Seq(Entry) /\ Len(p) = Len(q) + 1 /\ Len(q) \in Nat /\ p[Len(q) + 1] = e
        /\ \A i \in 1..Len(q) : p[i] = q[i]
    BY AppendProperties, LenProperties
  <1>2. \A i \in 1..Len(p) : i \in 1..Len(q) \/ i = Len(q) + 1
    BY <1>1
  <1>3. \A i \in 1..Len(q) : q[i] \in Entry
    BY ElementOfSeq
  <1>4. \A f \in Entry : f[1] \in {"setup", "teardown"} /\ f[2] \in Listeners
    BY DEF Entry
  <1>5. \A i \in 1..Len(q) : q[i] # e
    BY <1>3, <1>4 DEF Waits
  <1> HIDE DEF p
  <1>6. \A i \in 1..Len(p) : /\ p[i][1] = "setup" => up2[p[i][2]] = "queued"
                             /\ p[i][1] = "teardown" => down2[p[i][2]] = "queued"
    <2>1. SUFFICES ASSUME NEW i \in 1..Len(p)
                   PROVE  /\ p[i][1] = "setup" => up2[p[i][2]] = "queued"
                          /\ p[i][1] = "teardown" => down2[p[i][2]] = "queued"
      OBVIOUS
    <2>2. CASE i = Len(q) + 1
      BY <1>1, <2>2
    <2>3. CASE i \in 1..Len(q)
      BY <1>1, <1>3, <1>4, <2>3 DEF Waits
    <2>4. QED
      BY <1>2, <2>2, <2>3
  <1>7. \A i, j \in 1..Len(p) : p[i] = p[j] => i = j
    BY <1>1, <1>2, <1>5 DEF Waits
  <1>8. QED
    BY <1>1, <1>6, <1>7 DEF Waits, p

\* The first entry is served; the others wait on.
LEMMA WaitsServed ==
  ASSUME NEW q \in Seq(Entry), q # <<>>, NEW up, NEW down, NEW up2, NEW down2, Waits(q, up, down),
         \A h \in Listeners : /\ up[h] = "queued" /\ <<"setup", h>> # Head(q) => up2[h] = "queued"
                              /\ down[h] = "queued" /\ <<"teardown", h>> # Head(q) => down2[h] = "queued"
  PROVE  Tail(q) \in Seq(Entry) /\ Waits(Tail(q), up2, down2)
  <1> DEFINE p == Tail(q)
  <1>1. /\ p \in Seq(Entry) /\ Len(p) = Len(q) - 1 /\ Len(q) \in Nat /\ Len(q) > 0 /\ Head(q) = q[1]
        /\ \A i \in 1..Len(p) : p[i] = q[i + 1]
    BY HeadTailProperties, LenProperties, EmptySeq
  <1> HIDE DEF p
  <1>2. \A i \in 1..Len(p) : i + 1 \in 1..Len(q) /\ i + 1 # 1
    BY <1>1
  <1>3. 1 \in 1..Len(q)
    BY <1>1
  <1>4. \A i \in 1..Len(q) : q[i] \in Entry
    BY ElementOfSeq
  <1>5. \A f \in Entry : f = <<f[1], f[2]>> /\ f[1] \in {"setup", "teardown"} /\ f[2] \in Listeners
    BY DEF Entry
  <1>6. \A i \in 1..Len(p) : p[i] # Head(q)
    BY <1>1, <1>2, <1>3 DEF Waits
  <1>7. \A i \in 1..Len(p) : /\ p[i][1] = "setup" => up2[p[i][2]] = "queued"
                             /\ p[i][1] = "teardown" => down2[p[i][2]] = "queued"
    <2>1. SUFFICES ASSUME NEW i \in 1..Len(p)
                   PROVE  /\ p[i][1] = "setup" => up2[p[i][2]] = "queued"
                          /\ p[i][1] = "teardown" => down2[p[i][2]] = "queued"
      OBVIOUS
    <2>2. PICK f \in Entry : f = q[i + 1]
      BY <1>2, <1>4
    <2>3. f # Head(q) /\ f = <<f[1], f[2]>> /\ f[1] \in {"setup", "teardown"} /\ f[2] \in Listeners
      BY <1>1, <1>5, <1>6, <2>2
    <2>4. f[1] = "setup" => up[f[2]] = "queued"
      BY <1>2, <2>2 DEF Waits
    <2>5. f[1] = "teardown" => down[f[2]] = "queued"
      BY <1>2, <2>2 DEF Waits
    <2>6. p[i] = f
      BY <1>1, <2>2
    <2>7. QED
      BY <2>3, <2>4, <2>5, <2>6
  <1>8. \A i, j \in 1..Len(p) : p[i] = p[j] => i = j
    BY <1>1, <1>2 DEF Waits
  <1>9. QED
    BY <1>1, <1>7, <1>8 DEF Waits, p

\* A set-up is queued last, for a new open generation; a tear-down disturbs nothing.
LEMMA LinedAppended ==
  ASSUME NEW q \in Seq(Entry), NEW e \in Entry, NEW up, NEW down, NEW up2, NEW c, NEW c2,
         Waits(q, up, down), Lined(q, up, c),
         \A h \in Listeners : up2[h] = "queued" => up[h] = "queued" \/ e = <<"setup", h>>,
         e[1] = "setup" => c2 = e[2] /\ up[c2] # "queued",
         e[1] = "teardown" => c2 \in {c, Absent}
  PROVE  Lined(Append(q, e), up2, c2)
  <1> DEFINE p == Append(q, e)
  <1>1. /\ Len(p) = Len(q) + 1 /\ Len(q) \in Nat /\ p[Len(q) + 1] = e
        /\ \A i \in 1..Len(q) : p[i] = q[i]
    BY AppendProperties, LenProperties
  <1>2. \A i \in 1..Len(p) : i \in 1..Len(q) \/ i = Len(q) + 1
    BY <1>1
  <1>3. (\A i \in 1..Len(q) : i \in 1..Len(p)) /\ Len(q) + 1 \in 1..Len(p)
    BY <1>1
  <1> HIDE DEF p
  <1>4. ASSUME NEW h \in Listeners, up2[h] = "queued" PROVE \E i \in 1..Len(p) : p[i] = <<"setup", h>>
    <2>1. CASE up[h] = "queued"
      BY <1>1, <1>3, <2>1 DEF Lined
    <2>2. CASE e = <<"setup", h>>
      BY <1>1, <1>3, <2>2
    <2>3. QED
      BY <1>4, <2>1, <2>2
  <1>5. ASSUME c2 # Absent, NEW i \in 1..Len(p), NEW j \in 1..Len(p), p[i] = <<"setup", c2>>, p[j][1] = "setup"
        PROVE  j <= i
    <2>1. CASE i = Len(q) + 1
      BY <1>1, <2>1
    <2>2. CASE i \in 1..Len(q)
      <3>1. q[i] = <<"setup", c2>> /\ q[i][1] = "setup" /\ q[i][2] = c2
        BY <1>1, <1>5, <2>2
      <3>2. up[c2] = "queued"
        BY <2>2, <3>1 DEF Waits
      <3>3. e[1] \in {"setup", "teardown"}
        BY DEF Entry
      <3>4. e[1] = "teardown" /\ c2 = c
        BY <1>5, <3>2, <3>3
      <3>5. j # Len(q) + 1
        BY <1>1, <1>5, <3>4
      <3>6. j \in 1..Len(q) /\ q[j][1] = "setup"
        BY <1>1, <1>2, <1>5, <3>5
      <3>7. QED
        BY <1>5, <2>2, <3>1, <3>4, <3>6 DEF Lined
    <2>3. QED
      BY <1>2, <2>1, <2>2
  <1>6. QED
    BY <1>4, <1>5 DEF Lined, p

\* The first entry is served, and no longer waits.
LEMMA LinedServed ==
  ASSUME NEW q \in Seq(Entry), q # <<>>, NEW up, NEW up2, NEW c, Lined(q, up, c),
         \A h \in Listeners : up2[h] = "queued" => up[h] = "queued" /\ <<"setup", h>> # Head(q)
  PROVE  Lined(Tail(q), up2, c)
  <1> DEFINE p == Tail(q)
  <1>1. /\ Len(p) = Len(q) - 1 /\ Len(q) \in Nat /\ Len(q) > 0 /\ Head(q) = q[1]
        /\ \A i \in 1..Len(p) : p[i] = q[i + 1]
    BY HeadTailProperties, LenProperties, EmptySeq
  <1> HIDE DEF p
  <1>2. \A i \in 1..Len(p) : i + 1 \in 1..Len(q)
    BY <1>1
  <1>3. ASSUME NEW h \in Listeners, up2[h] = "queued" PROVE \E i \in 1..Len(p) : p[i] = <<"setup", h>>
    <2>1. PICK i \in 1..Len(q) : q[i] = <<"setup", h>>
      BY <1>3 DEF Lined
    <2>2. i # 1
      BY <1>1, <1>3, <2>1
    <2>3. i - 1 \in 1..Len(p) /\ (i - 1) + 1 = i
      BY <1>1, <2>2
    <2>4. QED
      BY <1>1, <2>1, <2>3
  <1>4. ASSUME c # Absent, NEW i \in 1..Len(p), NEW j \in 1..Len(p), p[i] = <<"setup", c>>, p[j][1] = "setup"
        PROVE  j <= i
    <2>1. q[i + 1] = <<"setup", c>> /\ q[j + 1][1] = "setup"
      BY <1>1, <1>4
    <2>2. j + 1 <= i + 1
      BY <1>2, <1>4, <2>1 DEF Lined
    <2>3. QED
      BY <2>2
  <1>5. QED
    BY <1>3, <1>4 DEF Lined, p

\* Once a tear-down went astray, it stays so.
LEMMA StrayedStays ==
  ASSUME Strayed,
         \A g \in Listeners : teardown[g] = "done" /\ g \in transport[kept[g]] =>
           teardown'[g] = "done" /\ kept'[g] = kept[g] /\ g \in transport'[kept[g]]
  PROVE  Strayed'
  BY DEF Strayed

-----------------------------------------------------------------------------
FanoutTyped ==
  /\ call \in [Listeners -> {"new", "waiting", "active", "refused", "aborted", "gone"}]
  /\ joined \in [Listeners -> Listeners \cup {Absent}]
  /\ current \in Listeners \cup {Absent} /\ channel \in Listeners \cup {Absent}
  /\ setup \in [Listeners -> SetupStates]
  /\ teardown \in [Listeners -> {"none", "queued", "done"}]
  /\ closed \subseteq Listeners
  /\ members \in [Listeners -> SUBSET Listeners]
  /\ transport \in [Listeners -> SUBSET Listeners]
  /\ kept \in [Listeners -> Listeners \cup {Absent}]
  /\ listening \in BOOLEAN
  /\ micro \in Seq(Entry)
  /\ faults \in 0..MaxFaults
  /\ \A g \in closed : members[g] = {}

LEMMA FanoutParts ==
  /\ FanoutTypeOK <=> FanoutTyped
  /\ FanoutTypeOK' <=> FanoutTyped'
  BY DEF FanoutTypeOK, FanoutTyped, Entry

\* Who leaves or is answered touches nothing of what the order is about, except
\* that a generation may be closed and its tear-down begin.
LEMMA OrderStays ==
  ASSUME FanoutAssumption, FanoutTyped, OrderFits, ReachFits, current' \in {current, Absent},
         UNCHANGED <<setup, channel, transport, kept, listening, faults>>,
         \A h \in Listeners : teardown[h] = "done" => teardown'[h] = "done",
         Lined(micro', setup', current')
  PROVE  OrderFits' /\ ReachFits'
  <1>1. ASSUME NEW g \in Listeners, current' = g PROVE Alone(g)'
    BY <1>1 DEF FanoutAssumption, OrderFits, Alone
  <1>2. ASSUME NEW g \in Listeners, current' = g, setup'[g] \in Unsettled \cup {"ready"}
        PROVE  channel' = kept'[g] \/ Strayed'
    <2>1. current = g /\ (channel = kept[g] \/ Strayed)
      BY <1>2 DEF ReachFits, FanoutAssumption
    <2>2. Strayed => Strayed'
      BY StrayedStays
    <2>3. QED
      BY <2>1, <2>2
  <1>3. Unharmed => Unharmed'
    BY DEF Unharmed, Lost
  <1>4. QED
    BY <1>1, <1>2, <1>3 DEF OrderFits, ReachFits

\* A member of a generation that is not closed: it is the current one.
LEMMA OpenIsCurrent ==
  ASSUME FInv, NEW g \in Listeners, members[g] # {}
  PROVE  current = g
  <1>1. g \notin closed
    BY FanoutParts DEF FInv, FanoutTyped
  <1>2. PICK l \in Listeners : l \in members[g]
    BY FanoutParts DEF FInv, FanoutTyped
  <1>3. joined[l] = g /\ call[l] \in {"waiting", "active"}
    BY <1>2 DEF FInv, ListenersFit, ListenerFits
  <1>4. setup[g] # "unused"
    BY <1>3 DEF FInv, ListenersFit, ListenerFits
  <1>5. QED
    BY <1>1, <1>4 DEF FInv, GenerationsFit, GenerationFits

LEMMA SubscribeKeeps ==
  ASSUME FanoutAssumption, FInv, NEW l \in Listeners, SubscribeBoard(l)
  PROVE  FInv'
  <1> DEFINE g == IF current = Absent THEN l ELSE current
  <1>1. FanoutTyped /\ GenerationsFit /\ ListenersFit /\ TransportFits /\ MicroFits /\ OrderFits /\ ReachFits
    BY FanoutParts DEF FInv
  <1>2. /\ call[l] = "new" /\ call' = [call EXCEPT ![l] = "waiting"] /\ joined' = [joined EXCEPT ![l] = g]
        /\ members' = [members EXCEPT ![g] = members[g] \cup {l}] /\ current' = g
        /\ UNCHANGED <<teardown, closed, channel, transport, kept, listening, faults>>
    BY DEF SubscribeBoard, redis
  <1>3. g \in Listeners /\ g # Absent
    BY <1>1 DEF FanoutTyped, FanoutAssumption
  <1>4. /\ \A k \in Listeners : call'[k] = IF k = l THEN "waiting" ELSE call[k]
        /\ \A k \in Listeners : joined'[k] = IF k = l THEN g ELSE joined[k]
        /\ \A h \in Listeners : members'[h] = IF h = g THEN members[h] \cup {l} ELSE members[h]
    BY <1>1, <1>2, <1>3 DEF FanoutTyped
  <1>5. ~(\E h \in Listeners : l \in members[h])
    BY <1>1, <1>2 DEF ListenersFit, ListenerFits
  <1>6. CASE current # Absent
    <2>1. g = current /\ UNCHANGED <<setup, micro, current>>
      BY <1>2, <1>6 DEF SubscribeBoard
    <2>2. g \notin closed /\ setup[g] # "unused"
      BY <1>1, <1>3, <2>1 DEF GenerationsFit, GenerationFits
    <2> HIDE DEF g
    <2>3. FanoutTyped'
      BY <1>1, <1>2, <1>3, <1>4, <2>1, <2>2 DEF FanoutTyped
    <2>4. GenerationsFit'
      BY <1>1, <1>2, <1>4, <2>1 DEF GenerationsFit, GenerationFits
    <2>5. ListenersFit'
      <3>1. SUFFICES ASSUME NEW k \in Listeners PROVE ListenerFits(k)'
        BY DEF ListenersFit
      <3>2. CASE k = l
        BY <1>2, <1>3, <1>4, <1>5, <2>1, <2>2, <3>2 DEF ListenerFits
      <3>3. CASE k # l
        BY <1>1, <1>2, <1>3, <1>4, <2>1, <3>3 DEF FanoutTyped, ListenersFit, ListenerFits
      <3>4. QED
        BY <3>2, <3>3
    <2>6. TransportFits' /\ MicroFits'
      BY <1>1, <1>2, <2>1 DEF TransportFits, MicroFits
    <2>7. OrderFits' /\ ReachFits'
      BY <1>1, <1>2, <2>1, OrderStays DEF OrderFits
    <2>8. QED
      BY <2>3, <2>4, <2>5, <2>6, <2>7, FanoutParts DEF FInv
  <1>7. CASE current = Absent
    <2>1. g = l /\ setup' = [setup EXCEPT ![l] = "queued"] /\ micro' = Append(micro, <<"setup", l>>)
      BY <1>2, <1>7 DEF SubscribeBoard, Queue
    <2>2. setup[l] = "unused" /\ l \notin closed /\ teardown[l] = "none"
      BY <1>1, <1>2 DEF ListenersFit, ListenerFits, GenerationsFit, GenerationFits
    <2>3. \A h \in Listeners : setup'[h] = IF h = l THEN "queued" ELSE setup[h]
      BY <1>1, <2>1 DEF FanoutTyped
    <2>4. g = l /\ current' = l
      BY <1>2, <2>1
    <2> HIDE DEF g
    <2>5. micro' \in Seq(Entry) /\ MicroFits'
      <3>1. <<"setup", l>> \in Entry /\ <<"setup", l>>[1] = "setup" /\ <<"setup", l>>[2] = l
        BY DEF Entry
      <3>2. PICK e \in Entry : e = <<"setup", l>> /\ e[1] = "setup" /\ e[2] = l
        BY <3>1
      <3>3. \A h \in Listeners : (setup[h] = "queued" => setup'[h] = "queued")
                                 /\ (teardown[h] = "queued" => teardown'[h] = "queued")
        BY <1>2, <2>2, <2>3
      <3>4. Append(micro, e) \in Seq(Entry) /\ Waits(Append(micro, e), setup', teardown')
        BY <1>1, <2>2, <2>3, <3>2, <3>3, WaitsAppended DEF FanoutTyped, MicroFits
      <3>5. QED
        BY <2>1, <3>2, <3>4 DEF MicroFits
    <2>6. FanoutTyped'
      BY <1>1, <1>2, <1>3, <1>4, <2>1, <2>2, <2>4, <2>5 DEF FanoutTyped, SetupStates
    <2>7. GenerationsFit'
      BY <1>1, <1>2, <1>3, <1>4, <1>7, <2>2, <2>3, <2>4 DEF GenerationsFit, GenerationFits, FanoutAssumption
    <2>8. ListenersFit'
      <3>1. SUFFICES ASSUME NEW k \in Listeners PROVE ListenerFits(k)'
        BY DEF ListenersFit
      <3>2. CASE k = l
        BY <1>2, <1>3, <1>4, <1>5, <2>2, <2>3, <2>4, <3>2 DEF ListenerFits
      <3>3. CASE k # l
        <4>1. ListenerFits(k) /\ call'[k] = call[k] /\ joined'[k] = joined[k]
              /\ \A h \in Listeners : k \in members'[h] <=> k \in members[h]
          BY <1>1, <1>4, <3>3 DEF ListenersFit
        <4>2. call[k] = "active" => joined[k] # l
          BY <2>2, <4>1 DEF ListenerFits
        <4>3. QED
          BY <1>2, <2>3, <3>3, <4>1, <4>2 DEF ListenerFits
      <3>4. QED
        BY <3>2, <3>3
    <2>9. TransportFits'
      BY <1>1, <1>2, <2>2, <2>3 DEF TransportFits, Unsettled
    <2>10. OrderFits'
      <3>1. <<"setup", l>> \in Entry /\ <<"setup", l>>[1] = "setup" /\ <<"setup", l>>[2] = l
        BY DEF Entry
      <3>2. PICK e \in Entry : e = <<"setup", l>> /\ e[1] = "setup" /\ e[2] = l
        BY <3>1
      <3>3. \A h \in Listeners : setup'[h] = "queued" => setup[h] = "queued" \/ e = <<"setup", h>>
        BY <2>3, <3>2
      <3>4. micro \in Seq(Entry) /\ Waits(micro, setup, teardown) /\ Lined(micro, setup, current)
        BY <1>1 DEF FanoutTyped, MicroFits, OrderFits
      <3>5. Lined(Append(micro, e), setup', l)
        BY <2>2, <3>2, <3>3, <3>4, LinedAppended
      <3>6. Lined(micro', setup', current')
        BY <2>1, <2>4, <3>2, <3>5
      <3>7. setup'[l] = "queued"
        BY <2>3
      <3>8. \A h \in Listeners : current' = h => Alone(h)'
        BY <2>4, <3>7 DEF Alone, Unsettled
      <3>9. QED
        BY <3>6, <3>8 DEF OrderFits
    <2>11. ReachFits'
      <3>1. \A h \in Listeners : current' = h => setup'[h] = "queued"
        BY <2>3, <2>4
      <3>2. channel # Absent => channel \in Listeners /\ setup'[channel] = setup[channel]
        BY <1>1, <2>2, <2>3 DEF FanoutTyped, TransportFits
      <3>3. \A h \in Listeners : (Lost(h) => Lost(h)') /\ (setup'[h] = "unanswered" => setup[h] = "unanswered")
        BY <1>2, <2>2, <2>3 DEF Lost, Unsettled
      <3>4. Unharmed => Unharmed'
        BY <1>2, <3>2, <3>3 DEF Unharmed
      <3>5. QED
        BY <1>1, <1>2, <3>1, <3>2, <3>4 DEF ReachFits, Unsettled
    <2>12. QED
      BY <2>5, <2>6, <2>7, <2>8, <2>9, <2>10, <2>11, FanoutParts DEF FInv
  <1>8. QED
    BY <1>6, <1>7

\* Somebody leaves, and others stay.
LEMMA LeaveKeeps ==
  ASSUME FanoutAssumption, FInv, NEW l \in Listeners, call[l] \in {"waiting", "active"},
         ~(members[joined[l]] \subseteq {l}), NEW c \in {"gone", "aborted"}, call' = [call EXCEPT ![l] = c],
         members' = [members EXCEPT ![joined[l]] = members[joined[l]] \ {l}],
         UNCHANGED <<joined, current, setup, teardown, closed, redis, micro, faults>>
  PROVE  FInv'
  <1>1. FanoutTyped /\ GenerationsFit /\ ListenersFit /\ TransportFits /\ MicroFits /\ OrderFits /\ ReachFits
    BY FanoutParts DEF FInv
  <1>2. UNCHANGED <<joined, current, setup, teardown, closed, channel, transport, kept, listening,
                    micro, faults>>
    BY DEF redis
  <1>3. PICK g \in Listeners : g = joined[l]
    BY <1>1 DEF ListenersFit, ListenerFits
  <1>4. /\ \A k \in Listeners : call'[k] = IF k = l THEN c ELSE call[k]
        /\ \A h \in Listeners : members'[h] = IF h = g THEN members[h] \ {l} ELSE members[h]
    BY <1>1, <1>3 DEF FanoutTyped
  <1>5. members[g] \ {l} # {}
    BY <1>3
  <1>6. FanoutTyped'
    BY <1>1, <1>2, <1>3, <1>4 DEF FanoutTyped
  <1>7. GenerationsFit'
    BY <1>1, <1>2, <1>4, <1>5 DEF GenerationsFit, GenerationFits
  <1>8. ListenersFit'
    <2>1. SUFFICES ASSUME NEW k \in Listeners PROVE ListenerFits(k)'
      BY DEF ListenersFit
    <2>2. CASE k = l
      BY <1>1, <1>2, <1>3, <1>4, <2>2 DEF ListenersFit, ListenerFits
    <2>3. CASE k # l
      BY <1>1, <1>2, <1>4, <2>3 DEF ListenersFit, ListenerFits
    <2>4. QED
      BY <2>2, <2>3
  <1>9. TransportFits' /\ MicroFits'
    BY <1>1, <1>2 DEF TransportFits, MicroFits
  <1>10. OrderFits' /\ ReachFits'
    BY <1>1, <1>2, OrderStays DEF OrderFits
  <1>11. QED
    BY <1>6, <1>7, <1>8, <1>9, <1>10, FanoutParts DEF FInv

\* The last one leaves: its generation is closed.
LEMMA CloseKeeps ==
  ASSUME FanoutAssumption, FInv, NEW l \in Listeners, call[l] \in {"waiting", "active"},
         members[joined[l]] \subseteq {l}, NEW c \in {"gone", "aborted"}, call' = [call EXCEPT ![l] = c],
         Close(joined[l]), UNCHANGED <<joined, setup, redis, faults>>
  PROVE  FInv'
  <1>1. FanoutTyped /\ GenerationsFit /\ ListenersFit /\ TransportFits /\ MicroFits /\ OrderFits /\ ReachFits
    BY FanoutParts DEF FInv
  <1>2. UNCHANGED <<joined, setup, channel, transport, kept, listening, faults>>
    BY DEF redis
  <1>3. PICK g \in Listeners : g = joined[l]
    BY <1>1 DEF ListenersFit, ListenerFits
  <1> DEFINE downs == teardown[g] = "none" /\ setup[g] = "ready"
  <1>4. /\ \A k \in Listeners : call'[k] = IF k = l THEN c ELSE call[k]
        /\ members' = [members EXCEPT ![g] = {}]
        /\ \A h \in Listeners : members'[h] = IF h = g THEN {} ELSE members[h]
        /\ closed' = closed \cup {g}
        /\ current' = IF current = g THEN Absent ELSE current
    BY <1>1, <1>3 DEF FanoutTyped, Close, Emptied, Unlisted
  <1>5. /\ downs => teardown' = [teardown EXCEPT ![g] = "queued"] /\ micro' = Append(micro, <<"teardown", g>>)
        /\ ~downs => UNCHANGED <<teardown, micro>>
    BY <1>3 DEF Close, TearDown
  <1>6. \A h \in Listeners : teardown'[h] = IF downs /\ h = g THEN "queued" ELSE teardown[h]
    BY <1>1, <1>5 DEF FanoutTyped
  <1>7. setup[g] # "unused"
    BY <1>1, <1>3 DEF ListenersFit, ListenerFits
  <1>8. micro' \in Seq(Entry) /\ MicroFits'
    <2>1. CASE downs
      <3>1. <<"teardown", g>> \in Entry /\ <<"teardown", g>>[1] = "teardown" /\ <<"teardown", g>>[2] = g
        BY DEF Entry
      <3>2. PICK e \in Entry : e = <<"teardown", g>> /\ e[1] = "teardown" /\ e[2] = g
        BY <3>1
      <3>3. \A h \in Listeners : (setup[h] = "queued" => setup'[h] = "queued")
                                 /\ (teardown[h] = "queued" => teardown'[h] = "queued")
        BY <1>2, <1>6
      <3>4. teardown[g] # "queued" /\ teardown'[g] = "queued"
        BY <1>6, <2>1
      <3>5. Append(micro, e) \in Seq(Entry) /\ Waits(Append(micro, e), setup', teardown')
        BY <1>1, <3>2, <3>3, <3>4, WaitsAppended DEF FanoutTyped, MicroFits
      <3>6. QED
        BY <1>5, <2>1, <3>2, <3>5 DEF MicroFits
    <2>2. CASE ~downs
      BY <1>1, <1>2, <1>5, <2>2 DEF FanoutTyped, MicroFits
    <2>3. QED
      BY <2>1, <2>2
  <1>9. FanoutTyped'
    <2>1. teardown' \in [Listeners -> {"none", "queued", "done"}]
      BY <1>1, <1>5 DEF FanoutTyped
    <2>2. call' \in [Listeners -> {"new", "waiting", "active", "refused", "aborted", "gone"}]
      BY <1>1 DEF FanoutTyped
    <2> HIDE DEF downs
    <2>3. QED
      BY <1>1, <1>2, <1>4, <1>8, <2>1, <2>2 DEF FanoutTyped
  <1>10. GenerationsFit'
    <2>1. SUFFICES ASSUME NEW h \in Listeners PROVE GenerationFits(h)'
      BY DEF GenerationsFit
    <2>2. GenerationFits(h)
      BY <1>1 DEF GenerationsFit
    <2>3. CASE h = g
      <3>1. current' # g
        BY <1>4 DEF FanoutAssumption
      <3>2. g \in closed'
        BY <1>4
      <3>3. setup'[g] = "ready" => teardown'[g] # "none"
        BY <1>2, <1>6
      <3>4. teardown'[g] # "none" => setup'[g] = "ready"
        BY <1>2, <1>6, <2>2, <2>3 DEF GenerationFits
      <3>5. QED
        BY <1>2, <1>7, <2>3, <3>1, <3>2, <3>3, <3>4 DEF GenerationFits
    <2>4. CASE h # g
      <3>1. /\ current' = h <=> current = h
            /\ h \in closed' <=> h \in closed
            /\ members'[h] = members[h] /\ teardown'[h] = teardown[h] /\ setup' = setup
        BY <1>2, <1>4, <1>6, <2>4 DEF FanoutAssumption
      <3>2. QED
        BY <2>2, <3>1 DEF GenerationFits
    <2>5. QED
      BY <2>3, <2>4
  <1>11. ListenersFit'
    <2>1. SUFFICES ASSUME NEW k \in Listeners PROVE ListenerFits(k)'
      BY DEF ListenersFit
    <2>2. CASE k = l
      BY <1>1, <1>2, <1>3, <1>4, <2>2 DEF ListenersFit, ListenerFits
    <2>3. CASE k # l
      BY <1>1, <1>2, <1>3, <1>4, <2>3 DEF ListenersFit, ListenerFits
    <2>4. QED
      BY <2>2, <2>3
  <1>12. TransportFits'
    BY <1>1, <1>2, <1>6 DEF TransportFits
  <1>13. OrderFits' /\ ReachFits'
    <2>1. micro \in Seq(Entry) /\ Waits(micro, setup, teardown) /\ Lined(micro, setup, current)
      BY <1>1 DEF FanoutTyped, MicroFits, OrderFits
    <2>2. current' \in {current, Absent}
      BY <1>4
    <2>3. Lined(micro', setup', current')
      <3>1. CASE downs
        <4>1. <<"teardown", g>> \in Entry /\ <<"teardown", g>>[1] = "teardown"
          BY DEF Entry
        <4>2. PICK e \in Entry : e = <<"teardown", g>> /\ e[1] = "teardown"
          BY <4>1
        <4>3. \A h \in Listeners : setup[h] = "queued" => setup[h] = "queued" \/ e = <<"setup", h>>
          OBVIOUS
        <4>4. Lined(Append(micro, e), setup, current')
          BY <2>1, <2>2, <4>2, <4>3, LinedAppended
        <4>5. QED
          BY <1>2, <1>5, <3>1, <4>2, <4>4
      <3>2. CASE ~downs
        BY <1>2, <1>5, <2>1, <2>2, <3>2 DEF Lined
      <3>3. QED
        BY <3>1, <3>2
    <2>4. \A h \in Listeners : teardown[h] = "done" => teardown'[h] = "done"
      BY <1>6
    <2>5. QED
      BY <1>1, <1>2, <2>2, <2>3, <2>4, OrderStays
  <1>14. QED
    BY <1>8, <1>9, <1>10, <1>11, <1>12, <1>13, FanoutParts DEF FInv

LEMMA RemoveKeeps ==
  ASSUME FanoutAssumption, FInv, NEW l \in Listeners, Remove(l)
  PROVE  FInv'
  <1>1. /\ call[l] \in {"waiting", "active"}
        /\ UNCHANGED <<joined, setup, redis, faults>>
    BY DEF Remove
  <1>2. PICK c \in {"gone", "aborted"} : call' = [call EXCEPT ![l] = c]
    BY DEF Remove
  <1>3. CASE LastMember(l)
    BY <1>1, <1>2, <1>3, CloseKeeps DEF Remove, LastMember
  <1>4. CASE ~LastMember(l)
    BY <1>1, <1>2, <1>4, LeaveKeeps DEF Remove, LastMember
  <1>5. QED
    BY <1>3, <1>4

\* A call is answered once the set-up is settled.
LEMMA ConfirmKeeps ==
  ASSUME FanoutAssumption, FInv, NEW l \in Listeners, Confirm(l)
  PROVE  FInv'
  <1>1. FanoutTyped /\ GenerationsFit /\ ListenersFit /\ TransportFits /\ MicroFits /\ OrderFits /\ ReachFits
    BY FanoutParts DEF FInv
  <1>2. PICK g \in Listeners : g = joined[l] /\ setup[g] \in {"ready", "failed"}
    BY <1>1 DEF Confirm, ListenersFit, ListenerFits, Settled
  <1>3. UNCHANGED <<joined, current, setup, teardown, closed, channel, transport, kept, listening,
                    micro, faults>>
    BY DEF Confirm, redis
  <1>4. members' = members
    <2>1. CASE setup[g] = "failed"
      <3>1. members[g] = {}
        BY <1>1, <2>1 DEF GenerationsFit, GenerationFits, FanoutTyped
      <3>2. members' = [members EXCEPT ![g] = members[g] \ {l}]
        BY <1>2, <2>1 DEF Confirm
      <3>3. QED
        BY <1>1, <3>1, <3>2 DEF FanoutTyped
    <2>2. CASE setup[g] # "failed"
      BY <1>2, <2>2 DEF Confirm
    <2>3. QED
      BY <2>1, <2>2
  <1>5. PICK c : c = IF g \notin closed /\ l \in members[g] THEN "active" ELSE "refused"
    OBVIOUS
  <1>6. call[l] = "waiting" /\ call' = [call EXCEPT ![l] = c]
    BY <1>2, <1>5 DEF Confirm
  <1>7. \A k \in Listeners : call'[k] = IF k = l THEN c ELSE call[k]
    BY <1>1, <1>6 DEF FanoutTyped
  <1>8. FanoutTyped'
    <2>1. call' \in [Listeners -> {"new", "waiting", "active", "refused", "aborted", "gone"}]
      BY <1>1, <1>5, <1>6 DEF FanoutTyped
    <2>2. QED
      BY <1>1, <1>3, <1>4, <2>1 DEF FanoutTyped
  <1>9. GenerationsFit' /\ TransportFits' /\ MicroFits'
    BY <1>1, <1>3, <1>4 DEF GenerationsFit, GenerationFits, TransportFits, MicroFits
  <1>10. ListenersFit'
    <2>1. SUFFICES ASSUME NEW k \in Listeners PROVE ListenerFits(k)'
      BY DEF ListenersFit
    <2>2. CASE k = l
      <3>1. ListenerFits(l) /\ joined'[l] = g /\ call'[l] = c
        BY <1>1, <1>2, <1>3, <1>7 DEF ListenersFit
      <3>2. CASE g \notin closed /\ l \in members[g]
        <4>1. c = "active" /\ setup[g] = "ready"
          BY <1>1, <1>2, <1>5, <3>2 DEF GenerationsFit, GenerationFits
        <4>2. QED
          BY <1>2, <1>3, <1>4, <1>6, <2>2, <3>1, <3>2, <4>1 DEF ListenerFits
      <3>3. CASE ~(g \notin closed /\ l \in members[g])
        <4>1. c = "refused"
          BY <1>5, <3>3
        <4>2. g \in closed
          BY <1>2, <1>6, <3>1, <3>3 DEF ListenerFits
        <4>3. members[g] = {}
          BY <1>1, <4>2 DEF FanoutTyped
        <4>4. \A h \in Listeners : l \notin members[h]
          BY <1>2, <3>1, <4>3 DEF ListenerFits
        <4>5. QED
          BY <1>4, <2>2, <3>1, <4>1, <4>4 DEF ListenerFits
      <3>4. QED
        BY <3>2, <3>3
    <2>3. CASE k # l
      BY <1>1, <1>3, <1>4, <1>7, <2>3 DEF ListenersFit, ListenerFits
    <2>4. QED
      BY <2>2, <2>3
  <1>11. OrderFits' /\ ReachFits'
    BY <1>1, <1>3, OrderStays DEF OrderFits
  <1>12. QED
    BY <1>8, <1>9, <1>10, <1>11, FanoutParts DEF FInv

\* A generation is set up, from the queue or when its command is answered.
LEMMA SetUpKeeps ==
  ASSUME FanoutAssumption, FInv, NEW g \in Listeners, NEW s \in Listeners, setup[g] \in {"queued", "sent"},
         setup[s] \notin {"unused", "queued"}, NEW rest \in Seq(Entry), Waits(rest, setup', teardown),
         Lined(rest, setup', current), setup[g] = "sent" => s = g,
         setup[g] = "queued" => /\ channel = s
                                /\ current = g => \A h \in Listeners : setup[h] = "queued" => h = g,
         SetUp(g, s, rest), kept' = [kept EXCEPT ![g] = s],
         UNCHANGED <<call, joined, current, closed, members, channel, listening, faults>>
  PROVE  FInv'
  <1>1. FanoutTyped /\ GenerationsFit /\ ListenersFit /\ TransportFits /\ OrderFits /\ ReachFits
    BY FanoutParts DEF FInv
  <1>2. /\ transport' = [transport EXCEPT ![s] = transport[s] \cup {g}]
        /\ setup' = [setup EXCEPT ![g] = "ready"]
        /\ g \in closed => teardown' = [teardown EXCEPT ![g] = "queued"] /\ micro' = Append(rest, <<"teardown", g>>)
        /\ g \notin closed => teardown' = teardown /\ micro' = rest
    BY DEF SetUp, TearDown, MustTearDown
  <1>3. /\ \A h \in Listeners : setup'[h] = IF h = g THEN "ready" ELSE setup[h]
        /\ \A h \in Listeners : teardown'[h] = IF h = g /\ g \in closed THEN "queued" ELSE teardown[h]
        /\ \A h \in Listeners : transport'[h] = IF h = s THEN transport[s] \cup {g} ELSE transport[h]
        /\ \A h \in Listeners : kept'[h] = IF h = g THEN s ELSE kept[h]
    BY <1>1, <1>2 DEF FanoutTyped
  <1>4. teardown[g] = "none"
    BY <1>1 DEF GenerationsFit, GenerationFits, FanoutTyped
  <1>5. micro' \in Seq(Entry) /\ MicroFits'
    <2>1. CASE g \in closed
      <3>1. <<"teardown", g>> \in Entry /\ <<"teardown", g>>[1] = "teardown" /\ <<"teardown", g>>[2] = g
        BY DEF Entry
      <3>2. PICK e \in Entry : e = <<"teardown", g>> /\ e[1] = "teardown" /\ e[2] = g
        BY <3>1
      <3>3. \A h \in Listeners : (setup'[h] = "queued" => setup'[h] = "queued")
                                 /\ (teardown[h] = "queued" => teardown'[h] = "queued")
        BY <1>3
      <3>4. teardown[g] # "queued" /\ teardown'[g] = "queued"
        BY <1>3, <1>4, <2>1
      <3>5. Append(rest, e) \in Seq(Entry) /\ Waits(Append(rest, e), setup', teardown')
        BY <3>2, <3>3, <3>4, WaitsAppended
      <3>6. QED
        BY <1>2, <2>1, <3>2, <3>5 DEF MicroFits
    <2>2. CASE g \notin closed
      BY <1>2, <2>2 DEF MicroFits
    <2>3. QED
      BY <2>1, <2>2
  <1>6. FanoutTyped'
    <2>1. setup' \in [Listeners -> SetupStates]
      BY <1>1, <1>2 DEF FanoutTyped, SetupStates
    <2>2. teardown' \in [Listeners -> {"none", "queued", "done"}]
      BY <1>1, <1>2 DEF FanoutTyped
    <2>3. transport' \in [Listeners -> SUBSET Listeners] /\ kept' \in [Listeners -> Listeners \cup {Absent}]
      BY <1>1, <1>2 DEF FanoutTyped
    <2>4. QED
      BY <1>1, <1>5, <2>1, <2>2, <2>3 DEF FanoutTyped
  <1>7. GenerationsFit'
    <2>1. SUFFICES ASSUME NEW h \in Listeners PROVE GenerationFits(h)'
      BY DEF GenerationsFit
    <2>2. GenerationFits(h)
      BY <1>1 DEF GenerationsFit
    <2>3. QED
      BY <1>3, <1>4, <2>2 DEF GenerationFits
  <1>8. ListenersFit'
    <2>1. SUFFICES ASSUME NEW k \in Listeners PROVE ListenerFits(k)'
      BY DEF ListenersFit
    <2>2. ListenerFits(k)
      BY <1>1 DEF ListenersFit
    <2>3. QED
      BY <1>3, <2>2 DEF ListenerFits
  <1>9. TransportFits'
    <2>1. ASSUME NEW h \in Listeners
          PROVE  /\ setup'[h] \in {"unused", "queued"} =>
                      transport'[h] = {} /\ channel' # h /\ \A k \in Listeners : kept'[k] # h
                 /\ setup'[h] \in Unsettled => kept'[h] = h
                 /\ setup'[h] = "ready" => kept'[h] \in Listeners
                 /\ setup'[h] = "ready" /\ teardown'[h] # "done" => h \in transport'[kept'[h]]
      <3>1. CASE h = g
        BY <1>3, <3>1 DEF Unsettled
      <3>2. CASE h # g
        <4>1. setup'[h] = setup[h] /\ teardown'[h] = teardown[h] /\ kept'[h] = kept[h] /\ channel' = channel
          BY <1>3, <3>2
        <4>2. setup[h] \in {"unused", "queued"} => h # s
          OBVIOUS
        <4>3. setup[h] = "ready" => kept[h] \in Listeners /\ (teardown[h] # "done" => h \in transport[kept[h]])
          BY <1>1 DEF TransportFits
        <4>4. \A c \in Listeners : transport[c] \subseteq transport'[c]
          BY <1>3
        <4>5. QED
          BY <1>1, <1>3, <4>1, <4>2, <4>3, <4>4 DEF TransportFits
      <3>3. QED
        BY <3>1, <3>2
    <2>2. ASSUME NEW h \in Listeners, NEW c \in Listeners, h \in transport'[c] PROVE setup'[h] = "ready"
      BY <1>1, <1>3, <2>2 DEF TransportFits
    <2>3. ASSUME NEW h \in Listeners, channel' # Absent, h \in transport'[channel'] PROVE teardown'[h] # "done"
      <3>1. CASE h = g
        BY <1>3, <1>4, <3>1
      <3>2. CASE h # g
        <4>1. h \in transport[channel] /\ teardown'[h] = teardown[h]
          BY <1>1, <1>3, <2>3, <3>2 DEF FanoutTyped
        <4>2. QED
          BY <1>1, <2>3, <4>1 DEF TransportFits
      <3>3. QED
        BY <3>1, <3>2
    <2>4. QED
      BY <2>1, <2>2, <2>3 DEF TransportFits
  <1>10. OrderFits'
    <2>1. Lined(micro', setup', current')
      <3>1. CASE g \in closed
        <4>1. <<"teardown", g>> \in Entry /\ <<"teardown", g>>[1] = "teardown"
          BY DEF Entry
        <4>2. PICK e \in Entry : e = <<"teardown", g>> /\ e[1] = "teardown"
          BY <4>1
        <4>3. \A h \in Listeners : setup'[h] = "queued" => setup'[h] = "queued" \/ e = <<"setup", h>>
          OBVIOUS
        <4>4. Lined(Append(rest, e), setup', current)
          BY <4>2, <4>3, LinedAppended
        <4>5. QED
          BY <1>2, <3>1, <4>2, <4>4
      <3>2. CASE g \notin closed
        BY <1>2, <3>2
      <3>3. QED
        BY <3>1, <3>2
    <2>2. ASSUME NEW h \in Listeners, current' = h PROVE Alone(h)'
      <3>1. Alone(h)
        BY <1>1, <2>2 DEF OrderFits
      <3>2. CASE h = g
        <4>1. setup'[h] = "ready"
          BY <1>3, <3>2
        <4>2. \A k \in Listeners : setup'[k] # "queued"
          <5>1. SUFFICES ASSUME NEW k \in Listeners, setup'[k] = "queued" PROVE FALSE
            OBVIOUS
          <5>2. setup[k] = "queued" /\ k # g
            BY <1>3, <5>1
          <5>3. setup[g] = "queued"
            BY <3>1, <3>2, <5>2 DEF Alone
          <5>4. QED
            BY <2>2, <3>2, <5>2, <5>3
        <4>3. QED
          BY <4>1, <4>2 DEF Alone, Unsettled
      <3>3. CASE h # g
        <4>1. setup'[h] = setup[h] /\ \A k \in Listeners : setup'[k] = "queued" => setup[k] = "queued"
          BY <1>3, <3>3
        <4>2. ASSUME setup'[h] \in Unsettled, NEW k \in Listeners, kept'[k] = h PROVE k = h
          <5>1. setup[h] \in Unsettled /\ setup[g] # "queued"
            BY <3>1, <4>1, <4>2 DEF Alone, Unsettled
          <5>2. kept[g] = g /\ s = g
            BY <1>1, <5>1 DEF TransportFits, Unsettled
          <5>3. kept[k] = h
            BY <1>3, <4>2, <5>2
          <5>4. QED
            BY <3>1, <5>1, <5>3 DEF Alone
        <4>3. QED
          BY <3>1, <4>1, <4>2 DEF Alone
      <3>4. QED
        BY <3>2, <3>3
    <2>3. QED
      BY <2>1, <2>2 DEF OrderFits
  <1>11. ReachFits'
    <2>1. \A h \in Listeners : teardown[h] = "done" /\ h \in transport[kept[h]] =>
            teardown'[h] = "done" /\ kept'[h] = kept[h] /\ h \in transport'[kept[h]]
      <3>1. SUFFICES ASSUME NEW h \in Listeners, teardown[h] = "done", h \in transport[kept[h]]
                     PROVE  teardown'[h] = "done" /\ kept'[h] = kept[h] /\ h \in transport'[kept[h]]
        OBVIOUS
      <3>2. h # g /\ setup[h] = "ready"
        BY <1>1, <1>4, <3>1 DEF GenerationsFit, GenerationFits
      <3>3. kept[h] \in Listeners
        BY <1>1, <3>2 DEF TransportFits
      <3>4. QED
        BY <1>3, <3>1, <3>2, <3>3
    <2>2. Strayed => Strayed'
      BY <2>1, StrayedStays
    <2>3. ASSUME NEW h \in Listeners, current' = h, setup'[h] \in Unsettled \cup {"ready"}
          PROVE  channel' = kept'[h] \/ Strayed'
      <3>1. CASE h # g
        BY <1>1, <1>3, <2>2, <2>3, <3>1 DEF ReachFits
      <3>2. CASE h = g /\ setup[g] = "queued"
        BY <1>3, <3>2
      <3>3. CASE h = g /\ setup[g] = "sent"
        <4>1. channel = kept[g] \/ Strayed
          BY <1>1, <2>3, <3>3 DEF ReachFits, Unsettled
        <4>2. kept[g] = s
          BY <1>1, <3>3 DEF TransportFits, Unsettled
        <4>3. QED
          BY <1>3, <2>2, <3>3, <4>1, <4>2
      <3>4. QED
        BY <3>1, <3>2, <3>3
    <2>4. ASSUME channel' # Absent, setup'[channel'] \in {"sent", "ready"} PROVE listening'
      <3>1. channel \in Listeners /\ channel' = channel
        BY <1>1, <2>4 DEF FanoutTyped
      <3>2. setup[channel] # "queued"
        BY <1>1, <3>1 DEF TransportFits
      <3>3. setup[channel] \in {"sent", "ready"}
        BY <1>3, <2>4, <3>1, <3>2
      <3>4. QED
        BY <1>1, <2>4, <3>1, <3>3 DEF ReachFits
    <2>5. Unharmed => Unharmed'
      <3>1. SUFFICES ASSUME Unharmed PROVE Unharmed'
        OBVIOUS
      <3>2. ASSUME NEW h \in Listeners, Lost(h) PROVE Lost(h)'
        <4>1. CASE h # g
          BY <1>3, <3>2, <4>1 DEF Lost
        <4>2. CASE h = g
          <5>1. setup[g] = "sent"
            BY <1>1, <3>2, <4>2 DEF Lost, Unsettled, TransportFits
          <5>2. kept[g] = g /\ s = g
            BY <1>1, <5>1 DEF TransportFits, Unsettled
          <5>3. QED
            BY <1>3, <3>2, <4>2, <5>2 DEF Lost
        <4>3. QED
          BY <4>1, <4>2
      <3>3. channel # Absent => transport'[channel] # {} \/ setup'[channel] \in {"connecting", "sent"}
        <4>1. SUFFICES ASSUME channel # Absent
                       PROVE  transport'[channel] # {} \/ setup'[channel] \in {"connecting", "sent"}
          OBVIOUS
        <4>2. channel \in Listeners
          BY <1>1, <4>1 DEF FanoutTyped
        <4>3. CASE channel = s
          BY <1>3, <4>3
        <4>4. CASE channel # s
          <5>1. channel # g
            BY <1>1, <4>2, <4>4 DEF TransportFits
          <5>2. QED
            BY <1>3, <3>1, <4>1, <4>2, <4>4, <5>1 DEF Unharmed
        <4>5. QED
          BY <4>3, <4>4
      <3>4. \A h \in Listeners : setup'[h] # "unanswered"
        BY <1>3, <3>1 DEF Unharmed
      <3>5. QED
        BY <3>1, <3>2, <3>3, <3>4 DEF Unharmed
    <2>6. QED
      BY <1>1, <2>3, <2>4, <2>5 DEF ReachFits
  <1>12. QED
    BY <1>5, <1>6, <1>7, <1>8, <1>9, <1>10, <1>11, FanoutParts DEF FInv

\* The head of the queue waits; a set-up at the head that is the open
\* generation's is the only one.
LEMMA HeadWaits ==
  ASSUME FanoutAssumption, FInv, NEW g \in Listeners
  PROVE  /\ Runs("setup", g) => /\ setup[g] = "queued"
                                /\ current = g => \A h \in Listeners : setup[h] = "queued" => h = g
         /\ Runs("teardown", g) => teardown[g] = "queued"
  <1>1. FanoutTyped /\ MicroFits /\ OrderFits
    BY FanoutParts DEF FInv
  <1>2. SUFFICES ASSUME NEW k \in {"setup", "teardown"}, Runs(k, g)
                 PROVE  /\ k = "setup" =>
                             /\ setup[g] = "queued"
                             /\ current = g => \A h \in Listeners : setup[h] = "queued" => h = g
                        /\ k = "teardown" => teardown[g] = "queued"
    OBVIOUS
  <1>3. /\ micro \in Seq(Entry) /\ Len(micro) \in Nat /\ Len(micro) > 0 /\ micro[1] = <<k, g>>
    BY <1>1, <1>2, HeadTailProperties, LenProperties, EmptySeq DEF FanoutTyped, Runs
  <1>4. 1 \in 1..Len(micro) /\ micro[1][1] = k /\ micro[1][2] = g
    BY <1>3
  <1>5. (k = "setup" => setup[g] = "queued") /\ (k = "teardown" => teardown[g] = "queued")
    BY <1>1, <1>4 DEF MicroFits, Waits
  <1>6. ASSUME k = "setup", current = g, NEW h \in Listeners, setup[h] = "queued" PROVE h = g
    <2>1. PICK i \in 1..Len(micro) : micro[i] = <<"setup", h>>
      BY <1>1, <1>6 DEF OrderFits, Lined
    <2>2. micro[1] = <<"setup", g>> /\ micro[i][1] = "setup" /\ g # Absent
      BY <1>3, <1>6, <2>1 DEF FanoutAssumption
    <2>3. i <= 1
      BY <1>1, <1>4, <1>6, <2>1, <2>2 DEF OrderFits, Lined
    <2>4. i = 1
      BY <1>3, <2>3
    <2>5. <<"setup", h>> = <<"setup", g>>
      BY <2>1, <2>2, <2>4
    <2>6. QED
      BY <2>5
  <1>7. QED
    BY <1>5, <1>6

LEMMA StartKeeps ==
  ASSUME FanoutAssumption, FInv, NEW g \in Listeners, StartSetup(g)
  PROVE  FInv'
  <1>1. FanoutTyped /\ GenerationsFit /\ ListenersFit /\ TransportFits /\ MicroFits /\ OrderFits /\ ReachFits
    BY FanoutParts DEF FInv
  <1>2. /\ setup[g] = "queued" /\ micro # <<>> /\ Head(micro) = <<"setup", g>>
        /\ current = g => \A h \in Listeners : setup[h] = "queued" => h = g
    BY HeadWaits DEF StartSetup, Runs
  <1>3. UNCHANGED <<call, joined, current, closed, members, listening, faults>>
    BY DEF StartSetup
  <1>4. PICK u \in {"connecting", "ready"} : setup' = [setup EXCEPT ![g] = u]
    BY DEF StartSetup, SetUp
  <1>5. \A h \in Listeners : setup'[h] = IF h = g THEN u ELSE setup[h]
    BY <1>1, <1>4 DEF FanoutTyped
  <1>6. Tail(micro) \in Seq(Entry) /\ Waits(Tail(micro), setup', teardown)
    <2>1. \A h \in Listeners : /\ setup[h] = "queued" /\ <<"setup", h>> # Head(micro) => setup'[h] = "queued"
                               /\ teardown[h] = "queued" /\ <<"teardown", h>> # Head(micro) => teardown[h] = "queued"
      BY <1>2, <1>5
    <2>2. micro \in Seq(Entry) /\ Waits(micro, setup, teardown)
      BY <1>1 DEF FanoutTyped, MicroFits
    <2>3. QED
      BY <1>2, <2>1, <2>2, WaitsServed
  <1>7. PICK rest \in Seq(Entry) : rest = Tail(micro) /\ Lined(rest, setup', current)
    <2>1. \A h \in Listeners : setup'[h] = "queued" => setup[h] = "queued" /\ <<"setup", h>> # Head(micro)
      BY <1>2, <1>5
    <2>2. micro \in Seq(Entry) /\ Lined(micro, setup, current)
      BY <1>1 DEF FanoutTyped, OrderFits
    <2>3. Lined(Tail(micro), setup', current)
      BY <1>2, <2>1, <2>2, LinedServed
    <2>4. QED
      BY <1>6, <2>3
  <1>8. CASE channel # Absent
    <2>1. PICK s \in Listeners : s = channel
      BY <1>1, <1>8 DEF FanoutTyped
    <2>2. setup[s] \notin {"unused", "queued"}
      BY <1>1, <2>1 DEF TransportFits
    <2>3. SetUp(g, s, rest) /\ kept' = [kept EXCEPT ![g] = s] /\ UNCHANGED channel
      BY <1>7, <1>8, <2>1 DEF StartSetup
    <2>4. QED
      BY <1>2, <1>3, <1>6, <1>7, <2>1, <2>2, <2>3, SetUpKeeps
  <1>9. CASE channel = Absent
    <2>1. /\ channel' = g /\ kept' = [kept EXCEPT ![g] = g] /\ setup' = [setup EXCEPT ![g] = "connecting"]
          /\ micro' = Tail(micro) /\ UNCHANGED <<transport, teardown>>
      BY <1>9 DEF StartSetup
    <2>2. /\ \A h \in Listeners : setup'[h] = IF h = g THEN "connecting" ELSE setup[h]
          /\ \A h \in Listeners : kept'[h] = IF h = g THEN g ELSE kept[h]
      BY <1>1, <2>1 DEF FanoutTyped
    <2>3. FanoutTyped'
      BY <1>1, <1>3, <1>6, <2>1 DEF FanoutTyped, SetupStates
    <2>4. GenerationsFit'
      BY <1>1, <1>2, <1>3, <2>1, <2>2 DEF GenerationsFit, GenerationFits
    <2>5. ListenersFit'
      <3>1. SUFFICES ASSUME NEW k \in Listeners PROVE ListenerFits(k)'
        BY DEF ListenersFit
      <3>2. ListenerFits(k)
        BY <1>1 DEF ListenersFit
      <3>3. QED
        BY <1>2, <1>3, <2>2, <3>2 DEF ListenerFits
    <2>6. TransportFits'
      BY <1>1, <1>2, <2>1, <2>2 DEF TransportFits, Unsettled
    <2>7. MicroFits'
      BY <1>6, <2>1 DEF MicroFits
    <2>8. OrderFits'
      <3>1. ASSUME NEW h \in Listeners, current' = h PROVE Alone(h)'
        <4>1. Alone(h)
          BY <1>1, <1>3, <3>1 DEF OrderFits
        <4>2. CASE h = g
          <5>1. \A k \in Listeners : setup'[k] # "queued"
            BY <1>2, <1>3, <2>2, <3>1, <4>2
          <5>2. \A k \in Listeners : kept'[k] = g => k = g
            BY <1>1, <1>2, <2>2 DEF TransportFits
          <5>3. QED
            BY <4>2, <5>1, <5>2 DEF Alone
        <4>3. CASE h # g
          BY <1>2, <2>2, <4>1, <4>3 DEF Alone, Unsettled
        <4>4. QED
          BY <4>2, <4>3
      <3>2. QED
        BY <1>3, <1>7, <2>1, <3>1 DEF OrderFits
    <2>9. ReachFits'
      <3>1. \A h \in Listeners : h # g => kept'[h] = kept[h] /\ setup'[h] = setup[h]
        BY <2>2
      <3>2. Strayed => Strayed'
        <4>1. \A h \in Listeners : teardown[h] = "done" => h # g
          BY <1>1, <1>2 DEF GenerationsFit, GenerationFits
        <4>2. QED
          BY <2>1, <3>1, <4>1, StrayedStays
      <3>3. ASSUME NEW h \in Listeners, current' = h, setup'[h] \in Unsettled \cup {"ready"}
            PROVE  channel' = kept'[h] \/ Strayed'
        <4>1. CASE h = g
          BY <2>1, <2>2, <4>1
        <4>2. CASE h # g
          <5>1. setup[h] \in Unsettled \cup {"ready"} /\ current = h
            BY <1>3, <3>1, <3>3, <4>2
          <5>2. setup[h] # "queued" /\ Alone(h)
            BY <1>1, <5>1 DEF OrderFits, Unsettled
          <5>3. FALSE
            BY <1>2, <5>2 DEF Alone
          <5>4. QED
            BY <5>3
        <4>3. QED
          BY <4>1, <4>2
      <3>4. Unharmed => Unharmed'
        <4>1. g # Absent
          BY DEF FanoutAssumption
        <4>2. QED
          BY <1>3, <2>1, <2>2, <4>1 DEF Unharmed
      <3>5. QED
        BY <1>1, <1>3, <2>1, <2>2, <3>3, <3>4 DEF ReachFits
    <2>10. QED
      BY <2>3, <2>4, <2>5, <2>6, <2>7, <2>8, <2>9, FanoutParts DEF FInv
  <1>10. QED
    BY <1>8, <1>9

LEMMA SendKeeps ==
  ASSUME FanoutAssumption, FInv, NEW g \in Listeners, SendSubscribe(g)
  PROVE  FInv'
  <1>1. FanoutTyped /\ GenerationsFit /\ ListenersFit /\ TransportFits /\ MicroFits /\ OrderFits /\ ReachFits
    BY FanoutParts DEF FInv
  <1>2. /\ setup[g] = "connecting" /\ micro = <<>>
        /\ UNCHANGED <<call, joined, current, teardown, closed, members, channel, transport, kept, micro>>
    BY DEF SendSubscribe, service
  <1>3. PICK u \in {"sent", "unanswered"} : /\ setup' = [setup EXCEPT ![g] = u]
                                         /\ \/ u = "sent" /\ faults' = faults /\ listening' = TRUE
                                            \/ /\ u = "unanswered" /\ faults' = faults + 1 /\ faults < MaxFaults
                                               /\ listening' \in {listening, TRUE}
    BY DEF SendSubscribe, Fault
  <1>4. \A h \in Listeners : setup'[h] = IF h = g THEN u ELSE setup[h]
    BY <1>1, <1>3 DEF FanoutTyped
  <1>5. listening' \in BOOLEAN /\ faults' \in 0..MaxFaults
    <2>1. listening \in BOOLEAN /\ faults \in 0..MaxFaults /\ MaxFaults \in Nat
      BY <1>1 DEF FanoutTyped, FanoutAssumption
    <2>2. faults' = faults \/ (faults' = faults + 1 /\ faults < MaxFaults)
      BY <1>3
    <2>3. faults' \in 0..MaxFaults
      BY <2>1, <2>2
    <2>4. listening' \in BOOLEAN
      BY <1>3, <2>1
    <2>5. QED
      BY <2>3, <2>4
  <1>6. FanoutTyped'
    BY <1>1, <1>2, <1>3, <1>5 DEF FanoutTyped, SetupStates
  <1>7. GenerationsFit'
    BY <1>1, <1>2, <1>4 DEF GenerationsFit, GenerationFits
  <1>8. ListenersFit'
    <2>1. SUFFICES ASSUME NEW k \in Listeners PROVE ListenerFits(k)'
      BY DEF ListenersFit
    <2>2. ListenerFits(k)
      BY <1>1 DEF ListenersFit
    <2>3. QED
      BY <1>2, <1>4, <2>2 DEF ListenerFits
  <1>9. TransportFits'
    BY <1>1, <1>2, <1>4 DEF TransportFits, Unsettled
  <1>10. MicroFits'
    BY <1>1, <1>2, <1>4 DEF MicroFits, Waits
  <1>11. OrderFits'
    <2>1. Lined(micro', setup', current')
      <3>1. \A h \in Listeners : setup'[h] = "queued" => setup[h] = "queued"
        BY <1>3, <1>4
      <3>2. QED
        BY <1>1, <1>2, <3>1 DEF OrderFits, Lined
    <2>2. ASSUME NEW h \in Listeners, current' = h PROVE Alone(h)'
      <3>1. Alone(h)
        BY <1>1, <1>2, <2>2 DEF OrderFits
      <3>2. \A k \in Listeners : /\ setup'[k] = "queued" <=> setup[k] = "queued"
                                 /\ setup'[k] \in Unsettled => setup[k] \in Unsettled
        BY <1>2, <1>3, <1>4 DEF Unsettled
      <3>3. QED
        BY <1>2, <3>1, <3>2 DEF Alone
    <2>3. QED
      BY <2>1, <2>2 DEF OrderFits
  <1>12. ReachFits'
    <2>1. ASSUME NEW h \in Listeners, current' = h, setup'[h] \in Unsettled \cup {"ready"}
          PROVE  channel' = kept'[h] \/ Strayed'
      <3>1. setup[h] \in Unsettled \cup {"ready"} /\ current = h
        BY <1>2, <1>4, <2>1 DEF Unsettled
      <3>2. channel = kept[h] \/ Strayed
        BY <1>1, <3>1 DEF ReachFits
      <3>3. Strayed => Strayed'
        BY <1>2, StrayedStays
      <3>4. QED
        BY <1>2, <3>2, <3>3
    <2>2. ASSUME channel' # Absent, setup'[channel'] \in {"sent", "ready"} PROVE listening'
      <3>1. channel' = channel /\ channel \in Listeners
        BY <1>1, <1>2, <2>2 DEF FanoutTyped
      <3>2. CASE channel = g
        BY <1>3, <1>4, <2>2, <3>1, <3>2
      <3>3. CASE channel # g
        <4>1. listening
          BY <1>1, <1>4, <2>2, <3>1, <3>3 DEF ReachFits
        <4>2. QED
          BY <1>3, <4>1
      <3>4. QED
        BY <3>2, <3>3
    <2>3. ASSUME faults' = 0 PROVE Unharmed'
      <3>1. faults' # faults + 1
        <4>1. faults \in 0..MaxFaults
          BY <1>1 DEF FanoutTyped
        <4>2. QED
          BY <2>3, <4>1
      <3>2. u = "sent" /\ Unharmed
        BY <1>1, <1>3, <2>3, <3>1 DEF ReachFits
      <3>3. channel' # Absent \/ Lost(g)'
        <4>1. kept[g] = g
          BY <1>1, <1>2 DEF TransportFits, Unsettled
        <4>2. QED
          BY <1>2, <1>4, <3>2, <4>1 DEF Lost, Unsettled, FanoutAssumption
      <3>4. channel # Absent => transport[channel] # {} \/ setup'[channel] \in {"connecting", "sent"}
        <4>1. channel # Absent => channel \in Listeners
          BY <1>1 DEF FanoutTyped
        <4>2. QED
          BY <1>4, <3>2, <4>1 DEF Unharmed
      <3>5. QED
        BY <1>2, <1>4, <3>2, <3>3, <3>4 DEF Unharmed
    <2>4. QED
      BY <2>1, <2>2, <2>3 DEF ReachFits
  <1>13. QED
    BY <1>6, <1>7, <1>8, <1>9, <1>10, <1>11, <1>12, FanoutParts DEF FInv

LEMMA SubscribedKeeps ==
  ASSUME FanoutAssumption, FInv, NEW g \in Listeners, Subscribed(g)
  PROVE  FInv'
  <1>1. FanoutTyped /\ TransportFits /\ MicroFits /\ OrderFits
    BY FanoutParts DEF FInv
  <1>2. /\ setup[g] = "sent" /\ kept[g] = g
        /\ UNCHANGED <<call, joined, current, closed, members, channel, listening, faults>>
        /\ SetUp(g, g, micro) /\ kept' = kept
    BY <1>1 DEF Subscribed, TransportFits, Unsettled
  <1>3. PICK rest \in Seq(Entry) : rest = micro
    BY <1>1 DEF FanoutTyped
  <1>4. setup' = [setup EXCEPT ![g] = "ready"]
    BY <1>2 DEF SetUp
  <1>5. Waits(rest, setup', teardown)
    <2>1. \A h \in Listeners : setup[h] = "queued" => setup'[h] = "queued"
      BY <1>1, <1>2, <1>4 DEF FanoutTyped
    <2>2. \A i \in 1..Len(micro) : micro[i] \in Entry
      BY <1>1, ElementOfSeq DEF FanoutTyped
    <2>3. \A f \in Entry : f[2] \in Listeners
      BY DEF Entry
    <2>4. QED
      BY <1>1, <1>3, <2>1, <2>2, <2>3 DEF MicroFits, Waits
  <1>6. kept' = [kept EXCEPT ![g] = g]
    BY <1>1, <1>2 DEF FanoutTyped
  <1>7. Lined(rest, setup', current)
    <2>1. \A h \in Listeners : setup'[h] = "queued" => setup[h] = "queued"
      BY <1>1, <1>4 DEF FanoutTyped
    <2>2. QED
      BY <1>1, <1>3, <2>1 DEF OrderFits, Lined
  <1>8. setup[g] \notin {"unused", "queued"}
    BY <1>2
  <1>9. QED
    BY <1>2, <1>3, <1>5, <1>6, <1>7, <1>8, SetUpKeeps

LEMMA FailKeeps ==
  ASSUME FanoutAssumption, FInv, NEW g \in Listeners, SetupFails(g)
  PROVE  FInv'
  <1>1. FanoutTyped /\ GenerationsFit /\ ListenersFit /\ TransportFits /\ MicroFits /\ OrderFits /\ ReachFits
    BY FanoutParts DEF FInv
  <1>2. /\ setup[g] = "unanswered" /\ setup' = [setup EXCEPT ![g] = "failed"] /\ closed' = closed \cup {g}
        /\ members' = [members EXCEPT ![g] = {}] /\ current' = IF current = g THEN Absent ELSE current
        /\ UNCHANGED <<call, joined, teardown, channel, transport, kept, listening, micro, faults>>
    BY DEF SetupFails, Emptied, Unlisted, redis
  <1>3. /\ \A h \in Listeners : setup'[h] = IF h = g THEN "failed" ELSE setup[h]
        /\ \A h \in Listeners : members'[h] = IF h = g THEN {} ELSE members[h]
        /\ g # Absent
    BY <1>1, <1>2 DEF FanoutTyped, FanoutAssumption
  <1>4. FanoutTyped'
    BY <1>1, <1>2, <1>3 DEF FanoutTyped, SetupStates
  <1>5. GenerationsFit'
    <2>1. SUFFICES ASSUME NEW h \in Listeners PROVE GenerationFits(h)'
      BY DEF GenerationsFit
    <2>2. GenerationFits(h)
      BY <1>1 DEF GenerationsFit
    <2>3. h # Absent
      BY DEF FanoutAssumption
    <2>4. CASE h = g
      BY <1>2, <1>3, <2>2, <2>4 DEF GenerationFits
    <2>5. CASE h # g
      BY <1>2, <1>3, <2>2, <2>3, <2>5 DEF GenerationFits
    <2>6. QED
      BY <2>4, <2>5
  <1>6. ListenersFit'
    <2>1. SUFFICES ASSUME NEW k \in Listeners PROVE ListenerFits(k)'
      BY DEF ListenersFit
    <2>2. ListenerFits(k)
      BY <1>1 DEF ListenersFit
    <2>3. call[k] = "active" => joined[k] # g
      BY <1>2, <2>2 DEF ListenerFits
    <2>4. QED
      BY <1>2, <1>3, <2>2, <2>3 DEF ListenerFits
  <1>7. TransportFits'
    BY <1>1, <1>2, <1>3 DEF TransportFits, Unsettled
  <1>8. MicroFits'
    <2>1. \A i \in 1..Len(micro) : micro[i] \in Entry
      BY <1>1, ElementOfSeq DEF FanoutTyped
    <2>2. \A f \in Entry : f[2] \in Listeners
      BY DEF Entry
    <2>3. \A h \in Listeners : setup[h] = "queued" => setup'[h] = "queued"
      BY <1>2, <1>3
    <2>4. QED
      BY <1>1, <1>2, <2>1, <2>2, <2>3 DEF MicroFits, Waits
  <1>9. OrderFits'
    <2>1. current' \in {current, Absent}
      BY <1>2
    <2>2. \A h \in Listeners : /\ setup'[h] = "queued" <=> setup[h] = "queued"
                               /\ setup'[h] \in Unsettled => setup[h] \in Unsettled
      BY <1>2, <1>3 DEF Unsettled
    <2>3. Lined(micro', setup', current')
      BY <1>1, <1>2, <2>1, <2>2 DEF OrderFits, Lined
    <2>4. ASSUME NEW h \in Listeners, current' = h PROVE Alone(h)'
      BY <1>1, <1>2, <2>1, <2>2, <2>4 DEF OrderFits, Alone, FanoutAssumption
    <2>5. QED
      BY <2>3, <2>4 DEF OrderFits
  <1>10. ReachFits'
    <2>1. ASSUME NEW h \in Listeners, current' = h, setup'[h] \in Unsettled \cup {"ready"}
          PROVE  channel' = kept'[h] \/ Strayed'
      <3>1. current = h /\ setup[h] \in Unsettled \cup {"ready"}
        BY <1>2, <1>3, <2>1 DEF Unsettled, FanoutAssumption
      <3>2. channel = kept[h] \/ Strayed
        BY <1>1, <3>1 DEF ReachFits
      <3>3. Strayed => Strayed'
        BY <1>2, StrayedStays
      <3>4. QED
        BY <1>2, <3>2, <3>3
    <2>2. ASSUME channel' # Absent, setup'[channel'] \in {"sent", "ready"} PROVE listening'
      BY <1>1, <1>2, <1>3, <2>2 DEF ReachFits, FanoutTyped
    <2>3. faults' # 0
      BY <1>1, <1>2 DEF ReachFits, Unharmed
    <2>4. QED
      BY <2>1, <2>2, <2>3 DEF ReachFits
  <1>11. QED
    BY <1>4, <1>5, <1>6, <1>7, <1>8, <1>9, <1>10, FanoutParts DEF FInv

LEMMA UnsubscribeKeeps ==
  ASSUME FanoutAssumption, FInv, NEW g \in Listeners, Unsubscribe(g)
  PROVE  FInv'
  <1>1. FanoutTyped /\ GenerationsFit /\ ListenersFit /\ TransportFits /\ MicroFits /\ OrderFits /\ ReachFits
    BY FanoutParts DEF FInv
  <1>2. /\ micro # <<>> /\ Head(micro) = <<"teardown", g>> /\ micro' = Tail(micro)
        /\ teardown' = [teardown EXCEPT ![g] = "done"]
        /\ UNCHANGED <<call, joined, current, setup, closed, members, kept>>
    BY DEF Unsubscribe, Runs
  <1>3. teardown[g] = "queued" /\ setup[g] = "ready" /\ g \in closed
    BY <1>1, HeadWaits DEF Unsubscribe, GenerationsFit, GenerationFits
  <1>4. \A h \in Listeners : teardown'[h] = IF h = g THEN "done" ELSE teardown[h]
    BY <1>1, <1>2 DEF FanoutTyped
  <1>5. micro' \in Seq(Entry) /\ MicroFits'
    <2>1. PICK down : down = teardown'
      OBVIOUS
    <2>2. \A h \in Listeners : /\ setup[h] = "queued" /\ <<"setup", h>> # Head(micro) => setup[h] = "queued"
                               /\ teardown[h] = "queued" /\ <<"teardown", h>> # Head(micro) => down[h] = "queued"
      BY <1>2, <1>4, <2>1
    <2>3. micro \in Seq(Entry) /\ Waits(micro, setup, teardown)
      BY <1>1 DEF FanoutTyped, MicroFits
    <2>4. Tail(micro) \in Seq(Entry) /\ Waits(Tail(micro), setup, down)
      BY <1>2, <2>2, <2>3, WaitsServed
    <2>5. QED
      BY <1>2, <2>1, <2>4 DEF MicroFits
  <1>6. /\ channel = Absent => UNCHANGED <<channel, transport, listening, faults>>
        /\ channel # Absent =>
             /\ transport' = [transport EXCEPT ![channel] = transport[channel] \ {g}]
             /\ channel' = IF transport[channel] \ {g} = {} THEN Absent ELSE channel
             /\ \/ listening' = (listening /\ transport[channel] \ {g} # {}) /\ faults' = faults
                \/ faults < MaxFaults /\ faults' = faults + 1
                   /\ transport[channel] \ {g} = {} /\ listening' \in {listening, FALSE}
    BY DEF Unsubscribe, StillListening, Fault
  <1>7. /\ channel # Absent => \A h \in Listeners : transport'[h] = IF h = channel THEN transport[h] \ {g} ELSE transport[h]
        /\ channel' \in {channel, Absent}
        /\ \A h \in Listeners : transport'[h] \subseteq transport[h] /\ transport[h] \subseteq transport'[h] \cup {g}
    <2>1. CASE channel = Absent
      BY <1>6, <2>1
    <2>2. CASE channel # Absent
      BY <1>1, <1>6, <2>2 DEF FanoutTyped
    <2>3. QED
      BY <2>1, <2>2
  <1>8. faults' \in 0..MaxFaults /\ listening' \in BOOLEAN
    <2>1. listening \in BOOLEAN /\ faults \in 0..MaxFaults /\ MaxFaults \in Nat
      BY <1>1 DEF FanoutTyped, FanoutAssumption
    <2>2. faults' \in {faults, faults + 1} /\ (faults' = faults \/ faults < MaxFaults)
      BY <1>6
    <2>3. faults' \in 0..MaxFaults
      BY <2>1, <2>2
    <2>4. listening' \in BOOLEAN
      BY <1>6, <2>1
    <2>5. QED
      BY <2>3, <2>4
  <1>9. FanoutTyped'
    <2>1. transport' \in [Listeners -> SUBSET Listeners]
      <3>1. CASE channel = Absent
        BY <1>1, <1>6, <3>1 DEF FanoutTyped
      <3>2. CASE channel # Absent
        <4>1. transport' = [transport EXCEPT ![channel] = transport[channel] \ {g}]
          BY <1>6, <3>2
        <4>2. QED
          BY <1>1, <3>2, <4>1 DEF FanoutTyped
      <3>3. QED
        BY <3>1, <3>2
    <2>2. teardown' \in [Listeners -> {"none", "queued", "done"}]
      BY <1>1, <1>2 DEF FanoutTyped
    <2>3. channel' \in Listeners \cup {Absent}
      BY <1>1, <1>7 DEF FanoutTyped
    <2>4. QED
      BY <1>1, <1>2, <1>5, <1>8, <2>1, <2>2, <2>3 DEF FanoutTyped
  <1>10. GenerationsFit'
    BY <1>1, <1>2, <1>3, <1>4 DEF GenerationsFit, GenerationFits
  <1>11. ListenersFit'
    BY <1>1, <1>2 DEF ListenersFit, ListenerFits
  <1>12. TransportFits'
    <2>1. ASSUME NEW h \in Listeners
          PROVE  /\ setup'[h] \in {"unused", "queued"} =>
                      transport'[h] = {} /\ channel' # h /\ \A k \in Listeners : kept'[k] # h
                 /\ setup'[h] \in Unsettled => kept'[h] = h
                 /\ setup'[h] = "ready" => kept'[h] \in Listeners
      BY <1>1, <1>2, <1>7 DEF TransportFits, FanoutAssumption
    <2>4. ASSUME NEW h \in Listeners, setup'[h] = "ready", teardown'[h] # "done" PROVE h \in transport'[kept'[h]]
      <3>1. h # g /\ teardown[h] # "done"
        BY <1>4, <2>4
      <3>2. kept[h] \in Listeners /\ h \in transport[kept[h]]
        BY <1>1, <1>2, <2>4, <3>1 DEF TransportFits
      <3>3. QED
        BY <1>2, <1>7, <3>1, <3>2
    <2>2. ASSUME NEW h \in Listeners, NEW c \in Listeners, h \in transport'[c] PROVE setup'[h] = "ready"
      BY <1>1, <1>2, <1>7, <2>2 DEF TransportFits
    <2>3. ASSUME NEW h \in Listeners, channel' # Absent, h \in transport'[channel'] PROVE teardown'[h] # "done"
      <3>1. channel # Absent /\ channel' = channel /\ channel \in Listeners
        BY <1>1, <1>7, <2>3 DEF FanoutTyped
      <3>2. h \in transport[channel] /\ h # g
        BY <1>7, <2>3, <3>1
      <3>3. QED
        BY <1>1, <1>4, <3>1, <3>2 DEF TransportFits
    <2>5. QED
      BY <2>1, <2>2, <2>3, <2>4 DEF TransportFits
  <1>13. OrderFits'
    <2>1. \A h \in Listeners : setup'[h] = "queued" => setup[h] = "queued" /\ <<"setup", h>> # Head(micro)
      BY <1>2
    <2>2. micro \in Seq(Entry) /\ Lined(micro, setup, current)
      BY <1>1 DEF FanoutTyped, OrderFits
    <2>3. Lined(Tail(micro), setup', current)
      BY <1>2, <2>1, <2>2, LinedServed
    <2>4. \A h \in Listeners : current' = h => Alone(h)'
      BY <1>1, <1>2 DEF OrderFits, Alone
    <2>5. QED
      BY <1>2, <2>3, <2>4 DEF OrderFits
  <1>14. ReachFits'
    <2>1. Strayed => Strayed'
      <3>1. \A h \in Listeners : teardown[h] = "done" /\ h \in transport[kept[h]] =>
              teardown'[h] = "done" /\ kept'[h] = kept[h] /\ h \in transport'[kept[h]]
        <4>1. SUFFICES ASSUME NEW h \in Listeners, teardown[h] = "done", h \in transport[kept[h]]
                       PROVE  teardown'[h] = "done" /\ kept'[h] = kept[h] /\ h \in transport'[kept[h]]
          OBVIOUS
        <4>2. h # g /\ setup[h] = "ready"
          BY <1>1, <1>3, <4>1 DEF GenerationsFit, GenerationFits
        <4>3. kept[h] \in Listeners
          BY <1>1, <4>2 DEF TransportFits
        <4>4. QED
          BY <1>2, <1>4, <1>7, <4>1, <4>2, <4>3
      <3>2. QED
        BY <3>1, StrayedStays
    <2>2. ASSUME NEW h \in Listeners, current' = h, setup'[h] \in Unsettled \cup {"ready"}
          PROVE  channel' = kept'[h] \/ Strayed'
      <3>1. current = h /\ setup[h] \in Unsettled \cup {"ready"} /\ (channel = kept[h] \/ Strayed)
        BY <1>1, <1>2, <2>2 DEF ReachFits
      <3>2. CASE Strayed \/ channel' = channel
        BY <1>2, <2>1, <3>1, <3>2
      <3>3. CASE channel' # channel /\ channel = kept[h]
        <4>1. /\ channel # Absent /\ transport[channel] \ {g} = {} /\ channel \in Listeners
          BY <1>1, <1>6, <3>3 DEF FanoutTyped
        <4>2. h \notin closed /\ h # g
          BY <1>1, <1>3, <3>1 DEF GenerationsFit, GenerationFits
        <4>3. CASE setup[h] = "ready"
          <5>1. teardown[h] # "done"
            BY <1>1, <4>2 DEF GenerationsFit, GenerationFits
          <5>2. h \in transport[channel]
            BY <1>1, <3>3, <4>3, <5>1 DEF TransportFits
          <5>3. QED
            BY <4>1, <4>2, <5>2
        <4>4. CASE setup[h] \in Unsettled
          <5>1. channel = h /\ kept[g] # h
            BY <1>1, <3>1, <3>3, <4>2, <4>4 DEF TransportFits, OrderFits, Alone
          <5>2. kept[g] \in Listeners /\ g \in transport[kept[g]]
            BY <1>1, <1>3 DEF TransportFits
          <5>3. transport'[kept[g]] = transport[kept[g]]
            BY <1>7, <4>1, <5>1, <5>2
          <5>4. teardown'[g] = "done" /\ g \in transport'[kept'[g]]
            BY <1>2, <1>4, <5>2, <5>3
          <5>5. QED
            BY <5>4 DEF Strayed
        <4>5. QED
          BY <3>1, <4>3, <4>4
      <3>4. QED
        BY <3>1, <3>2, <3>3
    <2>3. ASSUME channel' # Absent, setup'[channel'] \in {"sent", "ready"} PROVE listening'
      <3>1. channel' = channel /\ transport[channel] \ {g} # {} /\ channel # Absent
        BY <1>6, <1>7, <2>3
      <3>2. listening
        BY <1>1, <1>2, <2>3, <3>1 DEF ReachFits
      <3>3. QED
        BY <1>6, <3>1, <3>2
    <2>4. ASSUME faults' = 0 PROVE Unharmed'
      <3>1. faults = 0 /\ faults' = faults
        <4>1. faults \in 0..MaxFaults /\ (faults' = faults \/ faults' = faults + 1)
          BY <1>1, <1>6 DEF FanoutTyped
        <4>2. QED
          BY <2>4, <4>1
      <3>2. Unharmed
        BY <1>1, <3>1 DEF ReachFits
      <3>3. CASE channel = Absent
        BY <1>2, <1>6, <3>2, <3>3 DEF Unharmed, Lost
      <3>4. CASE channel # Absent
        <4>1. PICK c \in Listeners : c = channel
          BY <1>1, <3>4 DEF FanoutTyped
        <4>2. /\ listening' = (listening /\ transport[c] \ {g} # {})
              /\ channel' = IF transport[c] \ {g} = {} THEN Absent ELSE c
          BY <1>1, <1>6, <3>1, <3>4, <4>1 DEF FanoutTyped
        <4>3. transport'[c] = transport[c] \ {g} /\ c # Absent
          BY <1>7, <3>4, <4>1
        <4>4. QED
          BY <1>2, <3>2, <4>2, <4>3 DEF Unharmed
      <3>5. QED
        BY <3>3, <3>4
    <2>5. QED
      BY <2>2, <2>3, <2>4 DEF ReachFits
  <1>15. QED
    BY <1>5, <1>9, <1>10, <1>11, <1>12, <1>13, <1>14, FanoutParts DEF FInv

-----------------------------------------------------------------------------
LEMMA FanoutBegins ==
  ASSUME FanoutAssumption, FanoutInit
  PROVE  FInv
  <1>1. Len(micro) = 0 /\ micro \in Seq(Entry)
    BY DEF FanoutInit
  <1>2. FanoutTyped
    <2>1. faults \in 0..MaxFaults
      BY DEF FanoutInit, FanoutAssumption
    <2>2. setup \in [Listeners -> SetupStates]
      BY DEF FanoutInit, SetupStates
    <2>3. QED
      BY <1>1, <2>1, <2>2 DEF FanoutInit, FanoutTyped
  <1>3. GenerationsFit /\ ListenersFit /\ TransportFits
    BY DEF FanoutInit, FanoutAssumption, GenerationsFit, GenerationFits, ListenersFit, ListenerFits,
           TransportFits, Unsettled
  <1>4. MicroFits
    BY <1>1 DEF MicroFits, Waits
  <1>5. OrderFits
    BY DEF FanoutInit, FanoutAssumption, OrderFits, Lined
  <1>6. Unharmed
    BY DEF FanoutInit, Unharmed
  <1>7. ReachFits
    BY <1>6 DEF FanoutInit, FanoutAssumption, ReachFits
  <1>8. QED
    BY <1>2, <1>3, <1>4, <1>5, <1>7, FanoutParts DEF FInv

LEMMA FanoutSteps ==
  ASSUME FanoutAssumption, FInv, [FanoutNext]_fanoutVars
  PROVE  FInv'
  <1>1. CASE FanoutNext
    <2>1. PICK l \in Listeners : SubscribeBoard(l) \/ Remove(l) \/ Confirm(l) \/ Run(l)
      BY <1>1 DEF FanoutNext
    <2>2. QED
      BY <2>1, SubscribeKeeps, RemoveKeeps, ConfirmKeeps, StartKeeps, SendKeeps, SubscribedKeeps,
         FailKeeps, UnsubscribeKeeps DEF Run
  <1>2. CASE UNCHANGED fanoutVars
    <2>1. FanoutTyped /\ GenerationsFit /\ ListenersFit /\ TransportFits /\ MicroFits /\ OrderFits /\ ReachFits
      BY FanoutParts DEF FInv
    <2>2. UNCHANGED <<call, joined, current, setup, teardown, closed, members, channel, transport,
                      kept, listening, micro, faults>>
      BY <1>2 DEF fanoutVars
    <2>3. FanoutTyped' /\ GenerationsFit'
      BY <2>1, <2>2 DEF FanoutTyped, GenerationsFit, GenerationFits
    <2>4. ListenersFit' /\ TransportFits' /\ MicroFits'
      BY <2>1, <2>2 DEF ListenersFit, ListenerFits, TransportFits, MicroFits
    <2>5. OrderFits' /\ ReachFits'
      BY <2>1, <2>2, OrderStays DEF OrderFits
    <2>6. QED
      BY <2>3, <2>4, <2>5, FanoutParts DEF FInv
  <1>3. QED
    BY <1>1, <1>2

LEMMA FanoutHolds ==
  ASSUME FanoutAssumption, FInv
  PROVE  SetupsKeepApart
  <1>1. FanoutTyped /\ GenerationsFit /\ ListenersFit /\ TransportFits /\ ReachFits
    BY FanoutParts DEF FInv
  <1>2. NobodyIsCutOff
    <2>1. SUFFICES ASSUME NEW l \in Listeners, call[l] = "active"
                   PROVE  /\ l \in members[joined[l]] /\ current = joined[l]
                          /\ Reached(l) \/ (Strayed /\ channel # kept[joined[l]])
      BY DEF NobodyIsCutOff
    <2>2. PICK g \in Listeners : g = joined[l] /\ l \in members[g] /\ setup[g] = "ready"
      BY <1>1, <2>1 DEF ListenersFit, ListenerFits
    <2>3. current = g
      BY <2>2, OpenIsCurrent
    <2>4. teardown[g] = "none"
      BY <1>1, <2>3 DEF GenerationsFit, GenerationFits
    <2>5. kept[g] \in Listeners /\ g \in transport[kept[g]]
      BY <1>1, <2>2, <2>4 DEF TransportFits
    <2>6. ASSUME channel = kept[g] PROVE Reached(l)
      <3>1. PICK s \in Listeners : s = kept[g]
        BY <2>5
      <3>2. s # Absent /\ setup[s] \notin {"unused", "queued"}
        BY <1>1, <2>6, <3>1 DEF TransportFits, FanoutAssumption
      <3>3. setup[s] \in {"sent", "ready"} => listening
        BY <1>1, <2>6, <3>1, <3>2 DEF ReachFits
      <3>4. listening \/ setup[s] \in {"connecting", "unanswered", "failed"}
        BY <1>1, <3>2, <3>3 DEF FanoutTyped, SetupStates
      <3>5. QED
        BY <2>2, <2>5, <2>6, <3>1, <3>4 DEF Reached
    <2>7. channel = kept[g] \/ Strayed
      BY <1>1, <2>2, <2>3 DEF ReachFits
    <2>8. QED
      BY <2>2, <2>3, <2>6, <2>7
  <1>3. NothingLeaks
    <2>1. SUFFICES ASSUME Quiet PROVE current = Absent /\ (channel # Absent => transport[channel] = {})
      BY DEF NothingLeaks
    <2>2. current = Absent
      <3>1. SUFFICES ASSUME current # Absent PROVE FALSE
        OBVIOUS
      <3>2. PICK g \in Listeners : g = current
        BY <1>1, <3>1 DEF FanoutTyped
      <3>3. PICK l \in Listeners : l \in members[g]
        BY <1>1, <3>2 DEF GenerationsFit, GenerationFits, FanoutTyped
      <3>4. call[l] \in {"waiting", "active"}
        BY <1>1, <3>3 DEF ListenersFit, ListenerFits
      <3>5. QED
        BY <2>1, <3>4 DEF Quiet
    <2>3. ASSUME channel # Absent PROVE transport[channel] = {}
      <3>1. SUFFICES ASSUME NEW h \in transport[channel] PROVE FALSE
        OBVIOUS
      <3>2. channel \in Listeners /\ h \in Listeners
        BY <1>1, <2>3, <3>1 DEF FanoutTyped
      <3>3. setup[h] = "ready" /\ teardown[h] \notin {"done", "queued"}
        BY <1>1, <2>1, <2>3, <3>1, <3>2 DEF TransportFits, Quiet
      <3>4. teardown[h] = "none"
        BY <1>1, <3>2, <3>3 DEF FanoutTyped
      <3>5. current = h
        BY <1>1, <3>2, <3>3, <3>4 DEF GenerationsFit, GenerationFits
      <3>6. QED
        BY <2>2, <3>2, <3>5 DEF FanoutAssumption
    <2>4. QED
      BY <2>2, <2>3
  <1>4. ServerForgets
    <2>1. SUFFICES ASSUME Quiet, faults = 0, ~Strayed PROVE channel = Absent /\ ~listening
      BY DEF ServerForgets
    <2>2. Unharmed
      BY <1>1, <2>1 DEF ReachFits
    <2>3. current = Absent /\ (channel # Absent => channel \in Listeners /\ transport[channel] = {})
      BY <1>1, <1>3, <2>1 DEF NothingLeaks, FanoutTyped
    <2>4. \A h \in Listeners : setup[h] \notin Unsettled
      BY <2>1 DEF Quiet, Unsettled
    <2>5. channel = Absent
      BY <2>2, <2>3, <2>4 DEF Unharmed, Unsettled
    <2>6. ASSUME NEW h \in Listeners, Lost(h) PROVE FALSE
      <3>1. kept[h] \in Listeners /\ h \in transport[kept[h]] /\ setup[h] = "ready"
        BY <1>1, <2>4, <2>6 DEF Lost, TransportFits
      <3>2. h \in closed
        BY <1>1, <2>3, <3>1 DEF GenerationsFit, GenerationFits, FanoutAssumption
      <3>3. teardown[h] = "done"
        BY <1>1, <2>1, <3>1, <3>2 DEF GenerationsFit, GenerationFits, FanoutTyped, Quiet
      <3>4. QED
        BY <2>1, <3>1, <3>3 DEF Strayed
    <2>7. QED
      BY <2>2, <2>5, <2>6 DEF Unharmed
  <1>5. QED
    BY <1>1, <1>2, <1>3, <1>4, FanoutParts DEF SetupsKeepApart

(***************************************************************************)
(* For any number of subscribers of a board, whoever leaves or is aborted  *)
(* and however many commands fail: nobody who is subscribed is cut off by  *)
(* somebody else, with the two exceptions the code has (a SUBSCRIBE that   *)
(* was rejected, a tear-down that went astray), and nothing stays behind.  *)
(***************************************************************************)
THEOREM SetupsAlwaysKeepApart ==
  ASSUME FanoutAssumption
  PROVE  FanoutSpec => []SetupsKeepApart
  <1>1. FanoutInit => FInv
    BY FanoutBegins
  <1>2. FInv /\ [FanoutNext]_fanoutVars => FInv'
    BY FanoutSteps
  <1>3. FInv => SetupsKeepApart
    BY FanoutHolds
  <1>4. QED
    BY <1>1, <1>2, <1>3, PTL DEF FanoutSpec

=============================================================================
