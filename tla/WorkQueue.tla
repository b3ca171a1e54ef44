------------------------------- MODULE WorkQueue -------------------------------
(***************************************************************************)
(* The work queue of client-go as the controllers' one worker drives it:   *)
(* an order of keys, the set of keys that need processing and the set of   *)
(* keys being processed, with a timer for every key to be retried.  Every  *)
(* operation holds the queue's lock and is one step.                       *)
(*                                                                         *)
(* AddRateLimited comes before Done.  Here both are one step: a retry due  *)
(* in between would find its key in processing and leave the enqueueing to *)
(* Done, which is what a retry due right after Done does itself.           *)
(***************************************************************************)
EXTENDS Naturals, Sequences, Functions

CONSTANT Keys  \* the keys ever added

VARIABLES
  queue,       \* the order in which keys are handed out
  dirty,       \* the keys that need processing
  processing,  \* the keys handed out and not yet done
  delayed      \* the keys whose retry is on its timer

queueVars == <<queue, dirty, processing, delayed>>

QueueInit == queue = <<>> /\ dirty = {} /\ processing = {} /\ delayed = {}

\* Mutant: a key being processed is enqueued at once.
AddRegardless(k) ==
  /\ dirty' = dirty \cup {k}
  /\ queue' = IF k \in dirty THEN queue ELSE Append(queue, k)
  /\ UNCHANGED processing

\* A key that is dirty already is not added again; one being processed is
\* enqueued when that is done.
Add(k) ==
  /\ dirty' = dirty \cup {k}
  /\ queue' = IF k \in dirty \cup processing THEN queue ELSE Append(queue, k)
  /\ UNCHANGED processing

\* Get, by the controller's one worker.
Get(k) ==
  /\ processing = {} /\ queue # <<>> /\ k = Head(queue)
  /\ queue' = Tail(queue)
  /\ processing' = processing \cup {k}
  /\ dirty' = dirty \ {k}
  /\ UNCHANGED delayed

\* Mutant: what was added during the pass is forgotten.
DoneForgets(k, failed) ==
  /\ k \in processing
  /\ processing' = processing \ {k}
  /\ queue' = queue
  /\ delayed' = IF failed THEN delayed \cup {k} ELSE delayed
  /\ UNCHANGED dirty

\* The end of processNextWorkItem: AddRateLimited after an error, then Done.
Done(k, failed) ==
  /\ k \in processing
  /\ processing' = processing \ {k}
  /\ queue' = IF k \in dirty THEN Append(queue, k) ELSE queue
  /\ delayed' = IF failed THEN delayed \cup {k} ELSE delayed
  /\ UNCHANGED dirty

\* The timer of a retry runs out.
Retry(k) == k \in delayed /\ delayed' = delayed \ {k} /\ Add(k)

QueueReset == queue' = <<>> /\ dirty' = {} /\ processing' = {} /\ delayed' = {}
-------------------------------------------------------------------------------
QueueTypeOK ==
  /\ queue \in Seq(Keys)
  /\ dirty \in SUBSET Keys /\ processing \in SUBSET Keys /\ delayed \in SUBSET Keys

\* Add and Done keep three structures in step: a key is in the order exactly
\* when it is dirty and not being processed, and no key is in it twice.
QueueConsistent ==
  /\ Range(queue) = dirty \ processing
  /\ \A i, j \in DOMAIN queue : queue[i] = queue[j] => i = j

\* The set of keys that the queue implements.
Abstract == INSTANCE KeySet WITH pending <- dirty \cup delayed, busy <- processing

\* First in, first out, with retries on timers: every key that waits gets its
\* turn even if it keeps on failing while others are added all the time.
EveryKeyGetsItsTurn == Abstract!Spec
===============================================================================
