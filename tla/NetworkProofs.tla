---------------------------- MODULE NetworkProofs ----------------------------
(***************************************************************************)
(* Lemmas about the operators the nodes are built from.  What the queries  *)
(* of PersistenceFile return, and what its updates leave, on a file whose  *)
(* entries are numbered from 1 without a gap.  The operators of Network    *)
(* add no message but those they are given and the ends of connections: if *)
(* all that is in flight belongs to a set of messages, so does all that is *)
(* in flight afterwards.                                                   *)
(***************************************************************************)
EXTENDS Network, TLAPS

DenseFile == {file \in Seq(Entry) : Dense(file)}

LEMMA NullEntryType == NullEntry \in Entry
BY DEF NullEntry, Entry

(* findEntry() finds exactly the indices from 1 to the length of the file. *)
LEMMA HasEntryDense ==
  ASSUME NEW file \in DenseFile, NEW index \in Nat
  PROVE  HasEntry(file, index) <=> index \in 1 .. Len(file)
BY DEF HasEntry, DenseFile, Dense

(* findEntry() stops at the position that is the index. *)
LEMMA FirstPositionDense ==
  ASSUME NEW file \in DenseFile, NEW index \in 1 .. Len(file)
  PROVE  FirstPosition(file, index) = index
<1> DEFINE First(p) == /\ file[p].index = index
                       /\ \A q \in 1 .. p - 1 : file[q].index # index
<1>1. DOMAIN file = 1 .. Len(file) /\ Len(file) \in Nat
  BY DEF DenseFile
<1>2. \A p \in DOMAIN file : file[p].index = p
  BY DEF DenseFile, Dense
<1>3. index \in DOMAIN file /\ First(index)
  BY <1>1, <1>2
<1>4. \A p \in DOMAIN file : First(p) => p = index
  BY <1>2
<1>5. QED
  BY <1>3, <1>4 DEF FirstPosition

LEMMA FindEntryDense ==
  ASSUME NEW file \in DenseFile, NEW index \in Nat
  PROVE  /\ FindEntry(file, index) \in Entry
         /\ HasEntry(file, index) => FindEntry(file, index) = file[index]
         /\ HasEntry(file, index) => FindEntry(file, index).index = index
         /\ ~HasEntry(file, index) => FindEntry(file, index) = NullEntry
<1>1. CASE HasEntry(file, index)
  <2>1. index \in 1 .. Len(file)
    BY <1>1, HasEntryDense
  <2>2. FindEntry(file, index) = file[index]
    BY <1>1, <2>1, FirstPositionDense DEF FindEntry
  <2>3. file[index] \in Entry /\ file[index].index = index
    BY <2>1 DEF DenseFile, Dense
  <2>4. QED
    BY <1>1, <2>2, <2>3
<1>2. CASE ~HasEntry(file, index)
  BY <1>2, NullEntryType DEF FindEntry
<1>3. QED
  BY <1>1, <1>2

(* The index of the last entry is the number of entries. *)
LEMMA FindLastEntryDense ==
  ASSUME NEW file \in DenseFile
  PROVE  /\ FindLastEntry(file) \in Entry
         /\ FindLastEntry(file).index = Len(file)
         /\ file # << >> => FindLastEntry(file) = file[Len(file)]
<1>1. CASE file = << >>
  BY <1>1, NullEntryType DEF FindLastEntry, NullEntry
<1>2. CASE file # << >>
  <2>1. Len(file) \in DOMAIN file
    BY <1>2 DEF DenseFile
  <2>2. QED
    BY <1>2, <2>1 DEF FindLastEntry, DenseFile, Dense
<1>3. QED
  BY <1>1, <1>2

(* deleteEntryAfter() leaves the entries below the index. *)
LEMMA DeleteEntryAfterDense ==
  ASSUME NEW file \in DenseFile, NEW index \in Nat
  PROVE  /\ DeleteEntryAfter(file, index) \in DenseFile
         /\ HasEntry(file, index) => Len(DeleteEntryAfter(file, index)) = index - 1
         /\ Len(DeleteEntryAfter(file, index)) <= Len(file)
         /\ \A p \in 1 .. Len(DeleteEntryAfter(file, index)) :
              DeleteEntryAfter(file, index)[p] = file[p]
<1>1. CASE HasEntry(file, index)
  <2>1. index \in 1 .. Len(file)
    BY <1>1, HasEntryDense
  <2>2. DeleteEntryAfter(file, index) = SubSeq(file, 1, index - 1)
    BY <1>1, <2>1, FirstPositionDense DEF DeleteEntryAfter
  <2> DEFINE rest == SubSeq(file, 1, index - 1)
  <2>3. file \in Seq(Entry) /\ Dense(file)
    BY DEF DenseFile
  <2>4. /\ rest \in Seq(Entry)
        /\ Len(rest) = index - 1
        /\ \A p \in 1 .. Len(rest) : rest[p] = file[p]
    BY <2>1, <2>3
  <2>5. Dense(rest)
    BY <2>1, <2>3, <2>4 DEF Dense
  <2>6. QED
    BY <2>1, <2>2, <2>4, <2>5 DEF DenseFile
<1>2. CASE ~HasEntry(file, index)
  BY <1>2 DEF DeleteEntryAfter, DenseFile
<1>3. QED
  BY <1>1, <1>2

(* appendToPF() of the entry with the next index. *)
LEMMA AppendDense ==
  ASSUME NEW file \in DenseFile, NEW entry \in Entry,
         entry.index = Len(file) + 1
  PROVE  /\ Append(file, entry) \in DenseFile
         /\ Len(Append(file, entry)) = Len(file) + 1
<1>1. file \in Seq(Entry) /\ Dense(file)
  BY DEF DenseFile
<1>2. /\ Append(file, entry) \in Seq(Entry)
      /\ Len(Append(file, entry)) = Len(file) + 1
      /\ \A p \in 1 .. Len(file) : Append(file, entry)[p] = file[p]
      /\ Append(file, entry)[Len(file) + 1] = entry
  BY <1>1
<1>3. Dense(Append(file, entry))
  BY <1>1, <1>2 DEF Dense
<1>4. QED
  BY <1>2, <1>3 DEF DenseFile

LEMMA EmptyDense == << >> \in DenseFile
BY DEF DenseFile, Dense

-----------------------------------------------------------------------------
(* Channels. *)

LEMMA PostType ==
  ASSUME NEW M, NEW chan \in Channels(M), NEW i \in Node, NEW j \in Node,
         NEW m \in M
  PROVE  Post(chan, i, j, m) \in Seq(M)
BY DEF Post, Channels

LEMMA ConsumeType ==
  ASSUME NEW M, NEW chan \in Channels(M), NEW i \in Node, NEW j \in Node,
         chan[j][i] # << >>
  PROVE  Consume(chan, i, j) \in Channels(M)
<1>1. Tail(chan[j][i]) \in Seq(M)
  BY DEF Channels
<1>2. QED
  BY <1>1 DEF Consume, Channels

LEMMA AnswerType ==
  ASSUME NEW M, NEW chan \in Channels(M), NEW i \in Node, NEW j \in Node,
         chan[j][i] # << >>, NEW m \in M
  PROVE  Answer(chan, i, j, m) \in Channels(M)
<1> DEFINE rest == Consume(chan, i, j)
<1>1. rest \in Channels(M)
  BY ConsumeType
<1>2. Post(rest, i, j, m) \in Seq(M)
  BY <1>1, PostType
<1>3. [rest EXCEPT ![i][j] = Post(rest, i, j, m)] \in Channels(M)
  <2> HIDE DEF rest
  <2>1. QED
    BY <1>1, <1>2 DEF Channels
<1>4. QED
  BY <1>3 DEF Answer

LEMMA BroadcastType ==
  ASSUME NEW M, NEW chan \in Channels(M), NEW i \in Node, NEW targets,
         NEW message, \A j \in targets : message[j] \in M
  PROVE  Broadcast(chan, i, targets, message) \in Channels(M)
<1>1. \A j \in Node : (IF j \in targets THEN Post(chan, i, j, message[j])
                                        ELSE chan[i][j]) \in Seq(M)
  BY PostType DEF Channels
<1>2. QED
  BY <1>1 DEF Broadcast, Channels

LEMMA DialType ==
  ASSUME NEW M, ClusterNode \in M, Eof \in M, NEW chan \in Channels(M),
         NEW i \in Node, NEW targets, NEW alive
  PROVE  Dial(chan, i, targets, alive) \in Channels(M)
<1>1. \A a, b \in Node : /\ chan[a][b] \in Seq(M)
                         /\ Append(chan[a][b], ClusterNode) \in Seq(M)
                         /\ Append(chan[a][b], Eof) \in Seq(M)
  BY DEF Channels
<1>2. QED
  BY <1>1 DEF Dial, Channels

LEMMA HangupType ==
  ASSUME NEW M, Eof \in M, NEW chan \in Channels(M), NEW i \in Node,
         NEW connected, NEW received
  PROVE  Hangup(chan, i, connected, received) \in Channels(M)
<1> DEFINE Read(b) == CASE b \in received -> chan[i][b]
                        [] b \notin received /\ Ended(chan[i][b]) -> <<Eof>>
                        [] OTHER -> << >>
           End(b)  == IF b \in connected THEN <<Eof>> ELSE << >>
<1>1. \A a, b \in Node : chan[a][b] \in Seq(M)
  BY DEF Channels
<1>2. << >> \in Seq(M) /\ <<Eof>> \in Seq(M)
  OBVIOUS
<1>3. \A b \in Node : Read(b) \in Seq(M)
  BY <1>1, <1>2
<1>4. \A b \in Node : End(b) \in Seq(M)
  BY <1>2
<1>5. \A b \in Node : Read(b) \o End(b) \in Seq(M)
  <2> HIDE DEF Read, End
  <2>1. QED
    BY <1>3, <1>4
<1>6. \A a, b \in Node :
        (CASE b = i -> << >>
           [] a = i /\ b # i -> Read(b) \o End(b)
           [] OTHER -> chan[a][b]) \in Seq(M)
  <2> HIDE DEF Read, End
  <2>1. QED
    BY <1>1, <1>2, <1>5
<1>7. QED
  BY <1>6 DEF Hangup, Channels

LEMMA BreakType ==
  ASSUME NEW M, Eof \in M, NEW chan \in Channels(M), NEW i \in Node,
         NEW j \in Node
  PROVE  Break(chan, i, j) \in Channels(M)
<1>1. <<Eof>> \in Seq(M)
  OBVIOUS
<1>2. [chan EXCEPT ![i][j] = <<Eof>>] \in Channels(M)
  BY <1>1 DEF Channels
<1>3. QED
  BY <1>1, <1>2 DEF Break, Channels
==============================================================================
