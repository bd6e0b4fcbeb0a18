------------------------- MODULE MpscPollableQueue -------------------------
(***************************************************************************)
(* The queue of utils/MpscPollableQueue.h with the spin lock of            *)
(* utils/SpinLock.h, any number of writer threads, and the reader loop of  *)
(* Client::Impl::receive.                                                  *)
(*                                                                         *)
(* lock_ guards writer_vector_ and wait_event_fd_.  reader_vector_,        *)
(* reader_pos_ and the count of ready values belong to the reader, which   *)
(* uses them without the lock.  push_back is two steps, reading the vector *)
(* and writing it back, because a thread that entered without the lock     *)
(* would see it half done.                                                 *)
(***************************************************************************)
EXTENDS Integers, Sequences, FiniteSets

CONSTANTS Writers,      \* threads that call writer_put
          Values,       \* what they put
          None,         \* the Indicator {false, 0, nullptr} of an empty poll
          Free, Reader, \* lock_ is clear; the reader holds it
          MaxInFlight,  \* bound: values accepted and not yet received
          MaxPolls      \* bound: polls of one receive (its timeout / 10 ms)

ASSUME QueueAssumption ==
    /\ None \notin Values
    /\ Free # Reader
    /\ {Free, Reader} \cap Writers = {}
    /\ MaxInFlight \in Nat
    /\ MaxPolls \in Nat \ {0}

VARIABLES
    lock_,                  \* who holds the spin lock
    writer_vector_, reader_vector_, reader_pos_, wait_event_fd_,
    ready_cnt_,             \* output_queue_ready_cnt_
    wpc, wval, wtmp,        \* per writer: where it is, its value, push_back's view
    rpc, polls, last        \* the reader: where it is, polls left, latest outcome

qvars == <<writer_vector_, reader_vector_, reader_pos_, wait_event_fd_, ready_cnt_>>
wvars == <<wpc, wval, wtmp>>
rvars == <<rpc, polls, last>>
vars  == <<lock_, qvars, wvars, rvars>>

WriterPC == {"idle", "lock", "read", "write", "unlock"}
ReaderPC == {"idle", "poll", "lock", "swap", "unlock", "get", "sleep"}

(* reader_vector_.size() - reader_pos_: what the reader has still to take. *)
Unread == SubSeq(reader_vector_, reader_pos_ + 1, Len(reader_vector_))

Busy == {w \in Writers : wpc[w] # "idle"}

Init ==
    /\ lock_ = Free
    /\ writer_vector_ = <<>> /\ reader_vector_ = <<>>
    /\ reader_pos_ = 0 /\ ready_cnt_ = 0
    /\ wait_event_fd_ = FALSE
    /\ wpc = [w \in Writers |-> "idle"]
    /\ wval = [w \in Writers |-> None]
    /\ wtmp = [w \in Writers |-> <<>>]
    /\ rpc = "idle" /\ polls = 0 /\ last = None

-----------------------------------------------------------------------------
(* writer_put *)

writer_put(w, v) ==
    /\ wpc[w] = "idle"
    /\ Len(Unread) + Len(writer_vector_) + Cardinality(Busy) < MaxInFlight
    /\ wpc' = [wpc EXCEPT ![w] = "lock"]
    /\ wval' = [wval EXCEPT ![w] = v]
    /\ UNCHANGED <<lock_, qvars, wtmp, rvars>>

(* Mutant: the flag is set whatever it was. *)
TryLock_Untested(p) == lock_' = p

(* SpinLock::lock: the test_and_set that finds the flag clear.  A failed   *)
(* try_lock changes nothing and is a stuttering step.                      *)
TryLock(p) == lock_ = Free /\ lock_' = p

WriterLock(w) ==
    /\ wpc[w] = "lock"
    /\ TryLock(w)
    /\ wpc' = [wpc EXCEPT ![w] = "read"]
    /\ UNCHANGED <<qvars, wval, wtmp, rvars>>

PushBackRead(w) ==
    /\ wpc[w] = "read"
    /\ wtmp' = [wtmp EXCEPT ![w] = writer_vector_]
    /\ wpc' = [wpc EXCEPT ![w] = "write"]
    /\ UNCHANGED <<lock_, qvars, wval, rvars>>

PushBackWrite(w) ==
    /\ wpc[w] = "write"
    /\ writer_vector_' = Append(wtmp[w], wval[w])
    /\ wait_event_fd_' = FALSE
    /\ wpc' = [wpc EXCEPT ![w] = "unlock"]
    /\ UNCHANGED <<lock_, reader_vector_, reader_pos_, ready_cnt_, wval, wtmp, rvars>>

(* ~Lock: flag_.clear() at the end of writer_put. *)
WriterUnlock(w) ==
    /\ wpc[w] = "unlock"
    /\ lock_' = Free
    /\ wpc' = [wpc EXCEPT ![w] = "idle"]
    /\ wval' = [wval EXCEPT ![w] = None]
    /\ wtmp' = [wtmp EXCEPT ![w] = <<>>]
    /\ UNCHANGED <<qvars, rvars>>

-----------------------------------------------------------------------------
(* receive and reader_wait_nonblock *)

(* receive(timeout): a timeout of 0 means 10, so there is at least a poll. *)
receive ==
    /\ rpc = "idle"
    /\ \E n \in 1..MaxPolls : polls' = n
    /\ rpc' = "poll"
    /\ UNCHANGED <<lock_, qvars, wvars, last>>

(* Mutant: with nothing of its own the reader looks no further. *)
PollUnlocked_Only ==
    /\ rpc = "poll"
    /\ ready_cnt_' = IF ready_cnt_ = 0 THEN Len(Unread) ELSE ready_cnt_
    /\ rpc' = IF ready_cnt_' = 0 THEN "sleep" ELSE "get"
    /\ UNCHANGED <<lock_, writer_vector_, reader_vector_, reader_pos_,
                   wait_event_fd_, wvars, polls, last>>

(* Values already counted, or already in the reader's vector, need no lock. *)
PollUnlocked ==
    /\ rpc = "poll"
    /\ ready_cnt_' = IF ready_cnt_ = 0 THEN Len(Unread) ELSE ready_cnt_
    /\ rpc' = IF ready_cnt_' = 0 THEN "lock" ELSE "get"
    /\ UNCHANGED <<lock_, writer_vector_, reader_vector_, reader_pos_,
                   wait_event_fd_, wvars, polls, last>>

ReaderLock ==
    /\ rpc = "lock"
    /\ TryLock(Reader)
    /\ rpc' = "swap"
    /\ UNCHANGED <<qvars, wvars, polls, last>>

SwapEmpty ==
    /\ rpc = "swap"
    /\ writer_vector_ = <<>>
    /\ wait_event_fd_' = TRUE
    /\ last' = None
    /\ rpc' = "unlock"
    /\ UNCHANGED <<lock_, writer_vector_, reader_vector_, reader_pos_,
                   ready_cnt_, wvars, polls>>

(* Mutant: reader_pos_ is not reset. *)
SwapFull_KeepsPos ==
    /\ rpc = "swap"
    /\ writer_vector_ # <<>>
    /\ reader_vector_' = writer_vector_
    /\ writer_vector_' = <<>>
    /\ ready_cnt_' = Len(writer_vector_)
    /\ rpc' = "unlock"
    /\ UNCHANGED <<lock_, reader_pos_, wait_event_fd_, wvars, polls, last>>

SwapFull ==
    /\ rpc = "swap"
    /\ writer_vector_ # <<>>
    /\ reader_vector_' = writer_vector_
    /\ writer_vector_' = <<>>
    /\ reader_pos_' = 0
    /\ ready_cnt_' = Len(writer_vector_)
    /\ rpc' = "unlock"
    /\ UNCHANGED <<lock_, wait_event_fd_, wvars, polls, last>>

ReaderUnlock ==
    /\ rpc = "unlock"
    /\ lock_' = Free
    /\ rpc' = IF ready_cnt_ = 0 THEN "sleep" ELSE "get"
    /\ UNCHANGED <<qvars, wvars, polls, last>>

reader_get_unsafe ==
    /\ rpc = "get"
    /\ last' = reader_vector_[reader_pos_ + 1]
    /\ reader_pos_' = reader_pos_ + 1
    /\ ready_cnt_' = ready_cnt_ - 1
    /\ rpc' = "idle"
    /\ UNCHANGED <<lock_, writer_vector_, reader_vector_, wait_event_fd_, wvars, polls>>

(* Sleep(10) after a poll that found nothing; the last one ends receive. *)
SleepTen ==
    /\ rpc = "sleep"
    /\ polls' = polls - 1
    /\ rpc' = IF polls = 1 THEN "idle" ELSE "poll"
    /\ UNCHANGED <<lock_, qvars, wvars, last>>

-----------------------------------------------------------------------------
Write(w) == WriterLock(w) \/ PushBackRead(w) \/ PushBackWrite(w) \/ WriterUnlock(w)

Read == \/ receive \/ PollUnlocked \/ ReaderLock \/ SwapEmpty \/ SwapFull
        \/ ReaderUnlock \/ reader_get_unsafe \/ SleepTen

Next ==
    \/ \E w \in Writers : (\E v \in Values : writer_put(w, v)) \/ Write(w)
    \/ Read

Spec == Init /\ [][Next]_vars

(* Threads are scheduled; the application keeps calling receive.  The spin *)
(* lock is not a queue, so getting it needs strong fairness: a contender   *)
(* meets the lock free again and again and one of its test_and_sets wins.  *)
Fairness ==
    /\ \A w \in Writers : WF_vars(Write(w)) /\ SF_vars(WriterLock(w))
    /\ WF_vars(Read) /\ SF_vars(ReaderLock)

FairSpec == Spec /\ Fairness

-----------------------------------------------------------------------------
(* Type invariant; the reader's place stays within its vector. *)
TypeOK ==
    /\ lock_ \in Writers \cup {Free, Reader}
    /\ writer_vector_ \in Seq(Values)
    /\ reader_vector_ \in Seq(Values)
    /\ reader_pos_ \in Nat /\ reader_pos_ <= Len(reader_vector_)
    /\ ready_cnt_ \in Nat
    /\ wait_event_fd_ \in BOOLEAN
    /\ wpc \in [Writers -> WriterPC]
    /\ wval \in [Writers -> Values \cup {None}]
    /\ wtmp \in [Writers -> Seq(Values)]
    /\ rpc \in ReaderPC
    /\ polls \in 0..MaxPolls
    /\ last \in Values \cup {None}

(* Between the acquiring test_and_set and the clear of flag_ (SpinLock.h)  *)
(* a thread is the only one inside: the lock names it.                     *)
MutualExclusion ==
    /\ \A w \in Writers : wpc[w] \in {"read", "write", "unlock"} <=> lock_ = w
    /\ rpc \in {"swap", "unlock"} <=> lock_ = Reader

(* reader_get_unsafe indexes reader_vector_ with no check of its own: the  *)
(* count that receive keeps across calls never runs past the vector, and   *)
(* swapping in a new vector drops nothing that was still counted.          *)
ReadyIsUnread ==
    /\ ready_cnt_ <= Len(reader_vector_) - reader_pos_
    /\ rpc = "get" => ready_cnt_ > 0
    /\ rpc \in {"lock", "swap"} => Len(reader_vector_) = reader_pos_

(* wait_event_fd_, the reader's note that it found nothing, never outlives *)
(* the put that makes it wrong: writer_put lowers it under the same lock.  *)
NoLostWakeup == wait_event_fd_ => writer_vector_ = <<>>

(* Seen from outside, the two vectors are one channel. *)
Fifo == INSTANCE FifoChannel WITH chan <- Unread \o writer_vector_, last <- last

(* Every step of the threads is a put, a get or an honest miss of the FIFO *)
(* channel, or changes nothing of it: no value is lost, repeated or passed *)
(* by another.                                                             *)
RefinesFifo == Fifo!Spec

(* What is put is eventually received, whatever the writers do meanwhile.  *)
DeliversAll == Fifo!FairSpec

=============================================================================
