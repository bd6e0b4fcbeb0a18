---------------------- MODULE MpscPollableQueueProofs ----------------------
(***************************************************************************)
(* The safety of MpscPollableQueue for any number of writers, any values   *)
(* and any bounds: its invariants, and that it implements FifoChannel.     *)
(* Then what ProccThread, which reads such a channel, does at its end.     *)
(***************************************************************************)
EXTENDS MpscPollableQueue, ProccThread, SequenceTheorems, TLAPS

(* While a writer is inside push_back the vector is what it read of it,    *)
(* and it still holds the value it was called with.                        *)
WriterView ==
    \A w \in Writers :
        /\ wpc[w] = "write" => wtmp[w] = writer_vector_
        /\ wpc[w] \in {"lock", "read", "write"} => wval[w] \in Values

(* receive has a poll left until it returns, and it asks the queue for     *)
(* more only when it has used up what it was told of.                      *)
ReaderView ==
    /\ rpc # "idle" => polls >= 1
    /\ rpc \in {"lock", "swap"} => ready_cnt_ = 0

(* The inductive invariant. *)
IInv == TypeOK /\ MutualExclusion /\ ReadyIsUnread /\ NoLostWakeup
               /\ WriterView /\ ReaderView

-----------------------------------------------------------------------------
(* The part of the reader's vector it has not taken yet is a sequence of   *)
(* values, as long as the difference that reader_wait_nonblock computes.   *)
LEMMA UnreadLength ==
    ASSUME TypeOK
    PROVE  /\ Unread \in Seq(Values)
           /\ Len(Unread) = Len(reader_vector_) - reader_pos_
  <1>1. Len(reader_vector_) \in Nat /\ reader_pos_ \in Nat /\ reader_pos_ <= Len(reader_vector_)
    BY LenProperties DEF TypeOK
  <1>2. \A i \in reader_pos_ + 1 .. Len(reader_vector_) : reader_vector_[i] \in Values
    BY <1>1, ElementOfSeq DEF TypeOK
  <1> QED
    BY <1>1, <1>2, SubSeqProperties DEF Unread

(* The initial state of the queue, as MpscPollableQueue::init leaves it. *)
LEMMA InitIInv == Init => IInv
  <1> SUFFICES ASSUME Init PROVE IInv
    OBVIOUS
  <1> USE DEF Init
  <1>1. <<>> \in Seq(Values) /\ Len(<<>>) = 0
    BY EmptySeq
  <1>2. TypeOK
    <2>1. /\ wpc \in [Writers -> WriterPC] /\ rpc \in ReaderPC
          /\ wval \in [Writers -> Values \cup {None}]
      BY DEF WriterPC, ReaderPC
    <2>2. wtmp \in [Writers -> Seq(Values)]
      BY <1>1
    <2>3. /\ polls \in 0..MaxPolls /\ ready_cnt_ \in Nat
          /\ reader_pos_ \in Nat /\ reader_pos_ <= Len(reader_vector_)
      BY <1>1, QueueAssumption
    <2>4. wait_event_fd_ \in BOOLEAN
      OBVIOUS
    <2> QED
      BY <1>1, <2>1, <2>2, <2>3, <2>4, Zenon DEF TypeOK
  <1>3. MutualExclusion
    BY QueueAssumption DEF MutualExclusion
  <1>4. ReadyIsUnread /\ NoLostWakeup /\ WriterView /\ ReaderView
    BY <1>1 DEF ReadyIsUnread, NoLostWakeup, WriterView, ReaderView
  <1> QED
    BY <1>2, <1>3, <1>4 DEF IInv

(* Every step of a writer or of the reader keeps the invariant. *)
LEMMA NextIInv == IInv /\ [Next]_vars => IInv'
  <1> SUFFICES ASSUME IInv, [Next]_vars PROVE IInv'
    OBVIOUS
  <1> USE DEF IInv
  <1>0. /\ Len(reader_vector_) \in Nat /\ Len(writer_vector_) \in Nat
        /\ Len(Unread) = Len(reader_vector_) - reader_pos_
        /\ Len(Unread) \in Nat
    BY UnreadLength, LenProperties DEF TypeOK
  <1>1. ASSUME NEW w \in Writers, NEW v \in Values, writer_put(w, v) PROVE IInv'
    <2>1. TypeOK'
      BY <1>1 DEF writer_put, TypeOK, WriterPC, ReaderPC, WriterView, qvars, rvars
    <2>2. MutualExclusion'
      BY <1>1, QueueAssumption DEF writer_put, TypeOK, MutualExclusion, WriterPC, qvars, rvars
    <2>3. ReadyIsUnread' /\ NoLostWakeup' /\ ReaderView'
      BY <1>1 DEF writer_put, ReadyIsUnread, NoLostWakeup, ReaderView, qvars, rvars
    <2>4. WriterView'
      BY <1>1 DEF writer_put, TypeOK, WriterView, MutualExclusion, WriterPC, qvars, rvars
    <2> QED
      BY <2>1, <2>2, <2>3, <2>4
  <1>2. ASSUME NEW w \in Writers, WriterLock(w) PROVE IInv'
    <2>1. TypeOK'
      BY <1>2 DEF WriterLock, TypeOK, WriterPC, ReaderPC, WriterView, qvars, rvars, TryLock
    <2>2. MutualExclusion'
      BY <1>2, QueueAssumption DEF WriterLock, TypeOK, MutualExclusion, WriterPC, qvars, rvars, TryLock
    <2>3. ReadyIsUnread' /\ NoLostWakeup' /\ ReaderView'
      BY <1>2 DEF WriterLock, ReadyIsUnread, NoLostWakeup, ReaderView, qvars, rvars
    <2>4. WriterView'
      BY <1>2 DEF WriterLock, TypeOK, WriterView, MutualExclusion, WriterPC, qvars, rvars
    <2> QED
      BY <2>1, <2>2, <2>3, <2>4
  <1>3. ASSUME NEW w \in Writers, PushBackRead(w) PROVE IInv'
    <2>1. TypeOK'
      BY <1>3 DEF PushBackRead, TypeOK, WriterPC, ReaderPC, WriterView, qvars, rvars
    <2>2. MutualExclusion'
      BY <1>3, QueueAssumption DEF PushBackRead, TypeOK, MutualExclusion, WriterPC, qvars, rvars
    <2>3. ReadyIsUnread' /\ NoLostWakeup' /\ ReaderView'
      BY <1>3 DEF PushBackRead, ReadyIsUnread, NoLostWakeup, ReaderView, qvars, rvars
    <2>4. WriterView'
      BY <1>3 DEF PushBackRead, TypeOK, WriterView, MutualExclusion, WriterPC, qvars, rvars
    <2> QED
      BY <2>1, <2>2, <2>3, <2>4
  <1>4. ASSUME NEW w \in Writers, PushBackWrite(w) PROVE IInv'
    <2>0. writer_vector_' \in Seq(Values)
      BY <1>4, AppendProperties DEF PushBackWrite, TypeOK, WriterView
    <2>1. TypeOK'
      BY <1>4, <2>0 DEF PushBackWrite, TypeOK, WriterPC, rvars
    <2>2. MutualExclusion'
      BY <1>4, QueueAssumption DEF PushBackWrite, TypeOK, MutualExclusion, WriterPC, qvars, rvars
    <2>3. ReadyIsUnread' /\ NoLostWakeup' /\ ReaderView'
      BY <1>4 DEF PushBackWrite, ReadyIsUnread, NoLostWakeup, ReaderView, qvars, rvars
    <2>4. WriterView'
      BY <1>4 DEF PushBackWrite, TypeOK, WriterView, MutualExclusion, WriterPC, qvars, rvars
    <2> QED
      BY <2>1, <2>2, <2>3, <2>4
  <1>5. ASSUME NEW w \in Writers, WriterUnlock(w) PROVE IInv'
    <2>1. TypeOK'
      BY <1>5 DEF WriterUnlock, TypeOK, WriterPC, ReaderPC, WriterView, qvars, rvars
    <2>2. MutualExclusion'
      BY <1>5, QueueAssumption DEF WriterUnlock, TypeOK, MutualExclusion, WriterPC, qvars, rvars
    <2>3. ReadyIsUnread' /\ NoLostWakeup' /\ ReaderView'
      BY <1>5 DEF WriterUnlock, ReadyIsUnread, NoLostWakeup, ReaderView, qvars, rvars
    <2>4. WriterView'
      BY <1>5 DEF WriterUnlock, TypeOK, WriterView, MutualExclusion, WriterPC, qvars, rvars
    <2> QED
      BY <2>1, <2>2, <2>3, <2>4
  <1>6. CASE receive
    <2>1. TypeOK'
      BY <1>6, <1>0 DEF receive, TypeOK, ReaderPC, ReadyIsUnread, ReaderView, qvars, wvars
    <2>2. MutualExclusion'
      BY <1>6, QueueAssumption DEF receive, TypeOK, MutualExclusion, qvars, wvars
    <2>3. ReadyIsUnread' /\ NoLostWakeup' /\ ReaderView'
      BY <1>6, <1>0 DEF receive, TypeOK, ReadyIsUnread, NoLostWakeup, ReaderView, qvars
    <2>4. WriterView'
      BY <1>6 DEF receive, WriterView, MutualExclusion, qvars, wvars
    <2> QED
      BY <2>1, <2>2, <2>3, <2>4
  <1>7. CASE PollUnlocked
    <2>1. TypeOK'
      BY <1>7, <1>0 DEF PollUnlocked, TypeOK, ReaderPC, ReadyIsUnread, ReaderView, qvars, wvars
    <2>2. MutualExclusion'
      BY <1>7, QueueAssumption DEF PollUnlocked, TypeOK, MutualExclusion, qvars, wvars
    <2>3. ReadyIsUnread' /\ NoLostWakeup' /\ ReaderView'
      BY <1>7, <1>0 DEF PollUnlocked, TypeOK, ReadyIsUnread, NoLostWakeup, ReaderView, qvars
    <2>4. WriterView'
      BY <1>7 DEF PollUnlocked, WriterView, MutualExclusion, qvars, wvars
    <2> QED
      BY <2>1, <2>2, <2>3, <2>4
  <1>8. CASE ReaderLock
    <2>1. TypeOK'
      BY <1>8, <1>0 DEF ReaderLock, TypeOK, ReaderPC, ReadyIsUnread, ReaderView, qvars, wvars, TryLock
    <2>2. MutualExclusion'
      BY <1>8, QueueAssumption DEF ReaderLock, TypeOK, MutualExclusion, qvars, wvars, TryLock
    <2>3. ReadyIsUnread' /\ NoLostWakeup' /\ ReaderView'
      BY <1>8, <1>0 DEF ReaderLock, TypeOK, ReadyIsUnread, NoLostWakeup, ReaderView, qvars
    <2>4. WriterView'
      BY <1>8 DEF ReaderLock, WriterView, MutualExclusion, qvars, wvars
    <2> QED
      BY <2>1, <2>2, <2>3, <2>4
  <1>9. CASE SwapEmpty
    <2>1. TypeOK'
      BY <1>9, <1>0 DEF SwapEmpty, TypeOK, ReaderPC, ReadyIsUnread, ReaderView, qvars, wvars
    <2>2. MutualExclusion'
      BY <1>9, QueueAssumption DEF SwapEmpty, TypeOK, MutualExclusion, qvars, wvars
    <2>3. ReadyIsUnread' /\ NoLostWakeup' /\ ReaderView'
      BY <1>9, <1>0 DEF SwapEmpty, TypeOK, ReadyIsUnread, NoLostWakeup, ReaderView, qvars
    <2>4. WriterView'
      BY <1>9 DEF SwapEmpty, WriterView, MutualExclusion, qvars, wvars
    <2> QED
      BY <2>1, <2>2, <2>3, <2>4
  <1>10. CASE SwapFull
    <2>1. TypeOK'
      BY <1>10, <1>0 DEF SwapFull, TypeOK, ReaderPC, ReadyIsUnread, ReaderView, qvars, wvars
    <2>2. MutualExclusion'
      BY <1>10, QueueAssumption DEF SwapFull, TypeOK, MutualExclusion, qvars, wvars
    <2>3. ReadyIsUnread' /\ NoLostWakeup' /\ ReaderView'
      BY <1>10, <1>0 DEF SwapFull, TypeOK, ReadyIsUnread, NoLostWakeup, ReaderView, qvars
    <2>4. WriterView'
      <3>1. \A w \in Writers : wpc[w] # "write"
        BY <1>10, QueueAssumption DEF SwapFull, MutualExclusion
      <3> QED
        BY <1>10, <3>1 DEF SwapFull, WriterView, wvars
    <2> QED
      BY <2>1, <2>2, <2>3, <2>4
  <1>11. CASE ReaderUnlock
    <2>1. TypeOK'
      BY <1>11, <1>0 DEF ReaderUnlock, TypeOK, ReaderPC, ReadyIsUnread, ReaderView, qvars, wvars
    <2>2. MutualExclusion'
      BY <1>11, QueueAssumption DEF ReaderUnlock, TypeOK, MutualExclusion, qvars, wvars
    <2>3. ReadyIsUnread' /\ NoLostWakeup' /\ ReaderView'
      BY <1>11, <1>0 DEF ReaderUnlock, TypeOK, ReadyIsUnread, NoLostWakeup, ReaderView, qvars
    <2>4. WriterView'
      BY <1>11 DEF ReaderUnlock, WriterView, MutualExclusion, qvars, wvars
    <2> QED
      BY <2>1, <2>2, <2>3, <2>4
  <1>12. CASE reader_get_unsafe
    <2>0. /\ reader_pos_ + 1 \in 1..Len(reader_vector_)
          /\ ready_cnt_ - 1 \in Nat
      BY <1>12, <1>0 DEF reader_get_unsafe, TypeOK, ReadyIsUnread
    <2>1. TypeOK'
      <3>1. last' \in Values
        BY <1>12, <2>0, ElementOfSeq DEF reader_get_unsafe, TypeOK
      <3>2. reader_pos_' \in Nat /\ reader_pos_' <= Len(reader_vector_') /\ ready_cnt_' \in Nat
        BY <1>12, <1>0, <2>0 DEF reader_get_unsafe, TypeOK
      <3>3. rpc' \in ReaderPC
        BY <1>12 DEF reader_get_unsafe, ReaderPC
      <3> QED
        BY <1>12, <3>1, <3>2, <3>3, Zenon DEF reader_get_unsafe, TypeOK, wvars
    <2>2. MutualExclusion'
      BY <1>12, QueueAssumption DEF reader_get_unsafe, TypeOK, MutualExclusion, qvars, wvars
    <2>3. ReadyIsUnread' /\ NoLostWakeup' /\ ReaderView'
      BY <1>12, <1>0 DEF reader_get_unsafe, TypeOK, ReadyIsUnread, NoLostWakeup, ReaderView, qvars
    <2>4. WriterView'
      BY <1>12 DEF reader_get_unsafe, WriterView, MutualExclusion, qvars, wvars
    <2> QED
      BY <2>1, <2>2, <2>3, <2>4
  <1>13. CASE SleepTen
    <2>1. TypeOK'
      <3>1. polls' \in 0..MaxPolls
        BY <1>13, QueueAssumption DEF SleepTen, TypeOK, ReaderView
      <3>2. rpc' \in ReaderPC
        BY <1>13 DEF SleepTen, ReaderPC
      <3> QED
        BY <1>13, <3>1, <3>2, Zenon DEF SleepTen, TypeOK, qvars, wvars
    <2>2. MutualExclusion'
      BY <1>13, QueueAssumption DEF SleepTen, TypeOK, MutualExclusion, qvars, wvars
    <2>3. ReadyIsUnread' /\ NoLostWakeup' /\ ReaderView'
      BY <1>13, <1>0 DEF SleepTen, TypeOK, ReadyIsUnread, NoLostWakeup, ReaderView, qvars
    <2>4. WriterView'
      BY <1>13 DEF SleepTen, WriterView, MutualExclusion, qvars, wvars
    <2> QED
      BY <2>1, <2>2, <2>3, <2>4
  <1>14. CASE UNCHANGED vars
    BY <1>14 DEF vars, qvars, wvars, rvars, TypeOK, MutualExclusion, ReadyIsUnread, NoLostWakeup, WriterView, ReaderView
  <1> QED
    BY <1>1, <1>2, <1>3, <1>4, <1>5, <1>6, <1>7, <1>8, <1>9, <1>10, <1>11, <1>12, <1>13, <1>14
    DEF Next, Write, Read

(* The invariant holds in every state of the queue. *)
THEOREM Invariance == Spec => []IInv
  <1> QED
    BY InitIInv, NextIInv, PTL DEF Spec

(* Every variable of the queue and of its users keeps its type; the        *)
(* position of the reader never runs past its vector.                      *)
THEOREM TypeCorrect == Spec => []TypeOK
  <1>1. IInv => TypeOK
    BY DEF IInv
  <1> QED
    BY Invariance, <1>1, PTL

(* The spin lock excludes: the thread that is inside writer_put or inside  *)
(* the locked part of reader_wait_nonblock is the one the lock names.      *)
THEOREM Exclusion == Spec => []MutualExclusion
  <1>1. IInv => MutualExclusion
    BY DEF IInv
  <1> QED
    BY Invariance, <1>1, PTL

(* reader_get_unsafe is called only when there is something to get, and a  *)
(* swap never drops a value that has not been taken.                       *)
THEOREM GetIsSafe == Spec => []ReadyIsUnread
  <1>1. IInv => ReadyIsUnread
    BY DEF IInv
  <1> QED
    BY Invariance, <1>1, PTL

(* wait_event_fd_ is never up while a value waits in writer_vector_. *)
THEOREM WakeupIsKept == Spec => []NoLostWakeup
  <1>1. IInv => NoLostWakeup
    BY DEF IInv
  <1> QED
    BY Invariance, <1>1, PTL

-----------------------------------------------------------------------------
(* What the steps do to the channel Unread \o writer_vector_ *)

(* A value in front of a sequence is its head, and the rest its tail. *)
LEMMA HeadTailCons ==
    ASSUME NEW S, NEW x \in S, NEW s \in Seq(S)
    PROVE  /\ <<x>> \o s # <<>>
           /\ Head(<<x>> \o s) = x
           /\ Tail(<<x>> \o s) = s
  <1> DEFINE c == <<x>> \o s
  <1>1. <<x>> \in Seq(S) /\ Len(<<x>>) = 1 /\ <<x>>[1] = x /\ Len(s) \in Nat
    BY LenProperties
  <1>2. /\ c \in Seq(S) /\ Len(c) = 1 + Len(s)
        /\ \A i \in 1..1 + Len(s) : c[i] = IF i <= 1 THEN <<x>>[i] ELSE s[i - 1]
    BY <1>1, ConcatProperties
  <1> HIDE DEF c
  <1>3. c # <<>>
    BY <1>1, <1>2, EmptySeq
  <1>4. c[1] = x
    BY <1>1, <1>2
  <1>5. Head(c) = x
    BY <1>2, <1>3, <1>4
  <1>6. Tail(c) \in Seq(S) /\ Len(Tail(c)) = Len(s)
    BY <1>1, <1>2, <1>3, HeadTailProperties
  <1>7. \A i \in 1..Len(Tail(c)) : Tail(c)[i] = s[i]
    <2> TAKE i \in 1..Len(Tail(c))
    <2>1. Tail(c)[i] = c[i + 1]
      BY <1>2, <1>3, HeadTailProperties
    <2>2. i + 1 \in 1..1 + Len(s) /\ ~(i + 1 <= 1) /\ (i + 1) - 1 = i
      BY <1>1, <1>6
    <2>3. c[i + 1] = s[(i + 1) - 1]
      BY <1>2, <2>2
    <2> QED
      BY <2>1, <2>2, <2>3
  <1>8. Tail(c) = s
    BY <1>6, <1>7, SeqEqual
  <1> QED
    BY <1>3, <1>5, <1>8 DEF c

(* Taking the next value of the reader's vector takes the head off what is *)
(* unread, and so off the channel.                                         *)
LEMMA TakeHead ==
    ASSUME NEW S, NEW r \in Seq(S), NEW w \in Seq(S), NEW p \in Nat, p < Len(r)
    PROVE  LET u == SubSeq(r, p + 1, Len(r))
           IN  /\ u \o w # <<>>
               /\ Head(u \o w) = r[p + 1]
               /\ Tail(u \o w) = SubSeq(r, p + 2, Len(r)) \o w
  <1> DEFINE u == SubSeq(r, p + 1, Len(r))
             t == SubSeq(r, p + 2, Len(r))
             x == r[p + 1]
  <1>1. /\ Len(r) \in Nat /\ p + 1 \in 1..Len(r) /\ Len(r) \in p + 1 .. Len(r)
        /\ (p + 1) + 1 = p + 2
    BY LenProperties
  <1>2. u = <<x>> \o t
    BY <1>1, SubSeqRecursiveFirst
  <1>3. t \in Seq(S) /\ x \in S
    <2>1. \A i \in p + 2 .. Len(r) : r[i] \in S
      BY <1>1, ElementOfSeq
    <2>2. t \in Seq(S)
      BY <1>1, <2>1, SubSeqProperties
    <2> QED
      BY <1>1, <2>2, ElementOfSeq
  <1> HIDE DEF u, t, x
  <1>4. <<x>> \in Seq(S) /\ t \o w \in Seq(S)
    BY <1>3, ConcatProperties
  <1>5. u \o w = <<x>> \o (t \o w)
    BY <1>2, <1>3, <1>4, ConcatAssociative
  <1>6. u \o w # <<>> /\ Head(u \o w) = x /\ Tail(u \o w) = t \o w
    BY <1>3, <1>4, <1>5, HeadTailCons
  <1> QED
    BY <1>6 DEF u, t, x

(* A put under the lock appends to the channel. *)
LEMMA PushIsPut ==
    ASSUME NEW w \in Writers, IInv, PushBackWrite(w)
    PROVE  Fifo!Put(wval[w])
  <1>1. /\ Unread \in Seq(Values) /\ writer_vector_ \in Seq(Values) /\ wval[w] \in Values
        /\ writer_vector_' = Append(writer_vector_, wval[w])
    BY UnreadLength DEF IInv, TypeOK, WriterView, PushBackWrite
  <1>2. Unread' = Unread /\ last' = last
    BY DEF PushBackWrite, Unread, rvars
  <1>3. Unread \o Append(writer_vector_, wval[w]) = Append(Unread \o writer_vector_, wval[w])
    <2>1. <<wval[w]>> \in Seq(Values)
      BY <1>1
    <2>2. /\ Append(writer_vector_, wval[w]) = writer_vector_ \o <<wval[w]>>
          /\ Append(Unread \o writer_vector_, wval[w]) = (Unread \o writer_vector_) \o <<wval[w]>>
      BY <1>1, AppendIsConcat, ConcatProperties
    <2> QED
      BY <1>1, <2>1, <2>2, ConcatAssociative
  <1> QED
    BY <1>1, <1>2, <1>3 DEF Fifo!Put

(* reader_get_unsafe is the channel's get. *)
LEMMA TakeIsGet ==
    ASSUME IInv, reader_get_unsafe
    PROVE  Fifo!Get
  <1>1. /\ reader_vector_ \in Seq(Values) /\ writer_vector_ \in Seq(Values)
        /\ reader_pos_ \in Nat /\ reader_pos_ < Len(reader_vector_)
    BY LenProperties DEF IInv, TypeOK, ReadyIsUnread, reader_get_unsafe
  <1>2. /\ Unread \o writer_vector_ # <<>>
        /\ Head(Unread \o writer_vector_) = reader_vector_[reader_pos_ + 1]
        /\ Tail(Unread \o writer_vector_)
              = SubSeq(reader_vector_, reader_pos_ + 2, Len(reader_vector_)) \o writer_vector_
    BY <1>1, TakeHead DEF Unread
  <1>3. (Unread \o writer_vector_)'
            = SubSeq(reader_vector_, reader_pos_ + 2, Len(reader_vector_)) \o writer_vector_
    <2>1. (reader_pos_ + 1) + 1 = reader_pos_ + 2
      BY <1>1
    <2> QED
      BY <2>1 DEF reader_get_unsafe, Unread
  <1> QED
    BY <1>2, <1>3 DEF Fifo!Get, reader_get_unsafe

(* Swapping the vectors moves values, and changes nothing of the channel. *)
LEMMA SwapIsHidden ==
    ASSUME IInv, SwapFull
    PROVE  UNCHANGED Fifo!vars
  <1>1. /\ reader_vector_ \in Seq(Values) /\ writer_vector_ \in Seq(Values)
        /\ Len(reader_vector_) \in Nat /\ reader_pos_ = Len(reader_vector_)
    BY LenProperties DEF IInv, TypeOK, ReadyIsUnread, SwapFull
  <1>2. Unread = <<>>
    BY <1>1, SubSeqEmpty DEF Unread
  <1>3. Unread' = writer_vector_
    <2>1. 0 + 1 = 1
      OBVIOUS
    <2> QED
      BY <1>1, <2>1, SubSeqFull DEF Unread, SwapFull
  <1>4. (Unread \o writer_vector_)' = Unread \o writer_vector_
    BY <1>1, <1>2, <1>3, ConcatEmptySeq DEF SwapFull
  <1> QED
    BY <1>4 DEF SwapFull, Fifo!vars

(* A poll that reports nothing under the lock is an honest one. *)
LEMMA EmptyIsMiss ==
    ASSUME IInv, SwapEmpty
    PROVE  Fifo!Miss
  <1>1. /\ Len(reader_vector_) \in Nat /\ reader_pos_ = Len(reader_vector_)
        /\ reader_vector_ \in Seq(Values)
    BY LenProperties DEF IInv, TypeOK, ReadyIsUnread, SwapEmpty
  <1>2. Unread = <<>> /\ writer_vector_ = <<>>
    BY <1>1, SubSeqEmpty DEF Unread, SwapEmpty
  <1>3. Unread \o writer_vector_ = <<>>
    BY <1>2, ConcatEmptySeq, EmptySeq
  <1>4. (Unread \o writer_vector_)' = Unread \o writer_vector_
    BY DEF SwapEmpty, Unread
  <1> QED
    BY <1>3, <1>4 DEF Fifo!Miss, SwapEmpty

(* Every step of the threads is a step of the FIFO channel or hides in it. *)
LEMMA NextRefines == IInv /\ [Next]_vars => [Fifo!Next]_Fifo!vars
  <1> SUFFICES ASSUME IInv, [Next]_vars PROVE [Fifo!Next]_Fifo!vars
    OBVIOUS
  <1> USE DEF Fifo!Next
  <1>1. ASSUME NEW w \in Writers, PushBackWrite(w) PROVE Fifo!Next
    <2>1. wval[w] \in Values
      BY <1>1 DEF IInv, WriterView, PushBackWrite
    <2> QED
      BY <1>1, <2>1, PushIsPut
  <1>2. CASE reader_get_unsafe
    BY <1>2, TakeIsGet
  <1>3. CASE SwapEmpty
    BY <1>3, EmptyIsMiss
  <1>4. CASE SwapFull
    BY <1>4, SwapIsHidden
  <1>5. CASE UNCHANGED <<writer_vector_, reader_vector_, reader_pos_, last>>
    BY <1>5 DEF Fifo!vars, Unread
  <1>6. ASSUME NEW w \in Writers,
               \/ \E v \in Values : writer_put(w, v)
               \/ WriterLock(w) \/ PushBackRead(w) \/ WriterUnlock(w)
        PROVE  UNCHANGED <<writer_vector_, reader_vector_, reader_pos_, last>>
    BY <1>6 DEF writer_put, WriterLock, PushBackRead, WriterUnlock, qvars, rvars
  <1>7. ASSUME receive \/ PollUnlocked \/ ReaderLock \/ ReaderUnlock \/ SleepTen
        PROVE  UNCHANGED <<writer_vector_, reader_vector_, reader_pos_, last>>
    BY <1>7 DEF receive, PollUnlocked, ReaderLock, ReaderUnlock, SleepTen, qvars
  <1>8. ASSUME UNCHANGED vars
        PROVE  UNCHANGED <<writer_vector_, reader_vector_, reader_pos_, last>>
    BY <1>8 DEF vars, qvars, rvars
  <1> QED
    BY <1>1, <1>2, <1>3, <1>4, <1>5, <1>6, <1>7, <1>8 DEF Next, Write, Read

(* MpscPollableQueue and its users implement a FIFO channel: nothing put   *)
(* is lost, repeated or overtaken, and an empty poll means an empty queue. *)
THEOREM Refinement == Spec => RefinesFifo
  <1>1. Init => Fifo!Init
    <2> SUFFICES ASSUME Init PROVE Fifo!Init
      OBVIOUS
    <2>1. Len(<<>>) = 0
      BY EmptySeq
    <2>2. Unread = <<>>
      BY <2>1, SubSeqEmpty DEF Init, Unread
    <2> QED
      BY <2>2, ConcatEmptySeq, EmptySeq DEF Init, Fifo!Init
  <1> QED
    BY <1>1, Invariance, NextRefines, PTL DEF Spec, RefinesFifo, Fifo!Spec

-----------------------------------------------------------------------------
(* The thread at the end of the queue of requests, Procc, in a queue of    *)
(* any length.                                                             *)
(* The null request is in the queue of Procc. *)
NullQueued == \E k \in DOMAIN input : input[k] = "null"

(* Procc has the null request before it until it has taken it, and takes   *)
(* none before the destructor has put it.                                  *)
NullAhead ==
    /\ input \in Seq({"request", "null"})
    /\ dead \in BOOLEAN
    /\ life = "up" => ~NullQueued /\ pc # "gone"
    /\ life # "up" /\ pc # "gone" => NullQueued

LEMMA InitNullAhead == ProccInit => NullAhead
  <1> SUFFICES ASSUME ProccInit PROVE NullAhead
    OBVIOUS
  <1>1. input \in Seq({"request", "null"}) /\ DOMAIN input = {}
    BY EmptySeq DEF ProccInit
  <1> QED
    BY <1>1 DEF ProccInit, NullAhead, NullQueued

(* What is appended comes behind what is in the queue. *)
LEMMA NullAfterAppend ==
    ASSUME input \in Seq({"request", "null"}), NEW r \in {"request", "null"},
           input' = Append(input, r)
    PROVE  /\ input' \in Seq({"request", "null"})
           /\ NullQueued' <=> NullQueued \/ r = "null"
  <1>1. /\ input' \in Seq({"request", "null"})
        /\ Len(input') = Len(input) + 1
        /\ \A i \in 1..Len(input) : input'[i] = input[i]
        /\ input'[Len(input) + 1] = r
    BY AppendProperties
  <1>2. Len(input) \in Nat /\ DOMAIN input = 1..Len(input) /\ DOMAIN input' = 1..Len(input')
    BY <1>1, LenProperties
  <1>3. DOMAIN input' = DOMAIN input \cup {Len(input) + 1}
    BY <1>1, <1>2
  <1> QED
    BY <1>1, <1>2, <1>3 DEF NullQueued

(* A request taken from the head leaves a null request where it is. *)
LEMMA NullAfterTail ==
    ASSUME input \in Seq({"request", "null"}), input # <<>>,
           Head(input) = "request", input' = Tail(input)
    PROVE  /\ input' \in Seq({"request", "null"})
           /\ NullQueued' <=> NullQueued
  <1>1. /\ input' \in Seq({"request", "null"})
        /\ Len(input') = Len(input) - 1
        /\ \A i \in 1..Len(input') : input'[i] = input[i + 1]
    BY HeadTailProperties
  <1>2. Len(input) \in Nat /\ DOMAIN input = 1..Len(input) /\ DOMAIN input' = 1..Len(input')
    BY <1>1, LenProperties
  <1>3. input[1] = "request" /\ "request" # "null"
    BY <1>2 
  <1>4. NullQueued => NullQueued'
    <2> SUFFICES ASSUME NEW k \in 1..Len(input), input[k] = "null" PROVE NullQueued'
      BY <1>2 DEF NullQueued
    <2>1. k - 1 \in 1..Len(input') /\ input'[k - 1] = input[k]
      BY <1>1, <1>2, <1>3
    <2> QED
      BY <1>2, <2>1 DEF NullQueued
  <1>5. NullQueued' => NullQueued
    <2> SUFFICES ASSUME NEW k \in 1..Len(input'), input'[k] = "null" PROVE NullQueued
      BY <1>2 DEF NullQueued
    <2>1. k + 1 \in 1..Len(input) /\ input[k + 1] = "null"
      BY <1>1, <1>2
    <2> QED
      BY <1>2, <2>1 DEF NullQueued
  <1> QED
    BY <1>1, <1>4, <1>5

(* The null request at the head is taken only after the destructor put it. *)
LEMMA NullAfterGet ==
    ASSUME NullAhead, GetNull, dead' \in BOOLEAN PROVE NullAhead'
  <1> USE DEF GetNull
  <1>1. input' \in Seq({"request", "null"})
    BY HeadTailProperties DEF NullAhead
  <1>2. NullQueued
    <2>1. 1 \in DOMAIN input /\ input[1] = "null"
      BY EmptySeq, LenProperties DEF NullAhead
    <2> QED
      BY <2>1 DEF NullQueued
  <1> QED
    BY <1>1, <1>2 DEF NullAhead

(* Every step keeps the null request ahead of Procc. *)
LEMMA NextNullAhead == NullAhead /\ [ProccNext]_pvars => NullAhead'
  <1> SUFFICES ASSUME NullAhead, [ProccNext]_pvars PROVE NullAhead'
    OBVIOUS
  <1>i. input \in Seq({"request", "null"})
    BY DEF NullAhead
  <1>d. dead' \in BOOLEAN
    <2>1. dead \in BOOLEAN /\ (dead \/ life = "destroyed") \in BOOLEAN
      BY DEF NullAhead
    <2>2. dead' = dead \/ dead' = (dead \/ life = "destroyed")
      BY DEF ProccNext, ProccStep, pvars, Send, Destructor,
             DestroyTimers, DestroyProcc, Get, GetNull,
             OnRequest, LoopEnds, TestTimers, Rest, TouchTimers
    <2> QED
      BY <2>1, <2>2, Zenon
  <1>0. ASSUME input' = input, life' = life, pc' = pc PROVE NullAhead'
    BY <1>d, <1>0 DEF NullAhead, NullQueued
  <1>1. CASE Send
    <2>1. input' = Append(input, "request") /\ life = "up" /\ life' = life /\ pc' = pc
      BY <1>1 DEF Send
    <2>2. input' \in Seq({"request", "null"}) /\ (NullQueued' <=> NullQueued)
      BY <1>i, <2>1, NullAfterAppend
    <2> QED
      BY <1>d, <2>1, <2>2 DEF NullAhead
  <1>2. CASE Destructor
    <2>1. input' = Append(input, "null") /\ life' = "asked" /\ pc' = pc
      BY <1>2 DEF Destructor
    <2>2. input' \in Seq({"request", "null"}) /\ NullQueued'
      BY <1>i, <2>1, NullAfterAppend
    <2> QED
      BY <1>d, <2>1, <2>2 DEF NullAhead
  <1>3. CASE DestroyTimers \/ DestroyProcc
    <2>1. input' = input /\ pc' = pc /\ life # "up" /\ life' # "up"
      BY <1>3 DEF DestroyTimers, DestroyProcc
    <2>2. NullQueued' <=> NullQueued
      BY <2>1 DEF NullQueued
    <2> QED
      BY <1>i, <1>d, <2>1, <2>2 DEF NullAhead
  <1>4. CASE Get
    <2>1. /\ input # <<>> /\ Head(input) = "request" /\ input' = Tail(input)
          /\ pc = "loop" /\ pc' = "handle" /\ life' = life
      BY <1>4 DEF Get
    <2>2. input' \in Seq({"request", "null"}) /\ (NullQueued' <=> NullQueued)
      BY <1>i, <2>1, NullAfterTail
    <2> QED
      BY <1>d, <2>1, <2>2 DEF NullAhead
  <1>5. CASE GetNull
    BY <1>5, <1>d, NullAfterGet
  <1>6. CASE OnRequest \/ LoopEnds \/ TestTimers \/ Rest
    <2>1. input' = input /\ life' = life /\ pc # "gone" /\ pc' # "gone"
      BY <1>6 DEF OnRequest, LoopEnds, TestTimers, Rest
    <2>2. NullQueued' <=> NullQueued
      BY <2>1 DEF NullQueued
    <2> QED
      BY <1>i, <1>d, <2>1, <2>2 DEF NullAhead
  <1>7. CASE UNCHANGED pvars
    BY <1>0, <1>7 DEF pvars
  <1> QED
    BY <1>1, <1>2, <1>3, <1>4, <1>5, <1>6, <1>7 DEF ProccNext, ProccStep

(* Only a step of Procc on destroyed members sets dead, and Procc has not  *)
(* left.                                                                   *)
LEMMA DeadStep ==
    NullAhead /\ [ProccNext]_pvars => (dead' # dead => NullQueued)
  <1> SUFFICES ASSUME NullAhead, [ProccNext]_pvars, dead' # dead PROVE NullQueued
    OBVIOUS
  <1>1. OnRequest \/ LoopEnds \/ TestTimers
    BY DEF ProccNext, ProccStep, pvars, Send, Destructor,
           DestroyTimers, DestroyProcc, Get, GetNull, Rest
  <1>2. pc # "gone"
    BY <1>1 DEF OnRequest, LoopEnds, TestTimers
  <1>3. dead' = (dead \/ life = "destroyed") /\ dead \in BOOLEAN
    BY <1>1, Zenon DEF OnRequest, LoopEnds, TestTimers,
                       TouchTimers, NullAhead
  <1>4. life = "destroyed"
    BY <1>3, Zenon
  <1> QED
    BY <1>2, <1>4 DEF NullAhead

(* However many requests are queued, Procc uses a destroyed member only    *)
(* while the destructor's null request is still in the queue (~Impl,       *)
(* ClientImpl.cpp).                                                        *)
THEOREM NullIsAhead == ProccSpec => DeadOnlyBeforeNull
  <1>1. ProccSpec => []NullAhead
    BY InitNullAhead, NextNullAhead, PTL DEF ProccSpec
  <1>2. NullAhead /\ [ProccNext]_pvars
            => [dead' # dead => \E k \in DOMAIN input : input[k] = "null"]_pvars
    BY DeadStep DEF NullQueued
  <1> QED
    BY <1>1, <1>2, PTL DEF ProccSpec, DeadOnlyBeforeNull

=============================================================================
