--------------------------- MODULE RequestManager ---------------------------
(***************************************************************************)
(* CRequestManager and the part of HTTPRequest it drives: the vector of    *)
(* requests, the two passes of Think, the completions read from the curl   *)
(* multi handle between them, and Init, which first shuts the previous     *)
(* map's manager down: drain for a while, abort what is left.              *)
(*                                                                         *)
(* Everything runs on the game thread.  Think is opened up into its loop   *)
(* iterations (pc, i) because its correctness is about erasing from the    *)
(* vector while walking it and about what curl still holds; no other       *)
(* operation runs in between.                                              *)
(***************************************************************************)
EXTENDS Integers, Sequences

CONSTANTS
  Requests,     \* the request objects the game ever makes
  AddCanFail,   \* curl_easy_init or curl_multi_add_handle may fail
  InitCanFail,  \* curl_multi_init may fail
  DrainSteps    \* kDrainTimeoutMs / kStepMs

ASSUME RMSwitchAssumption == {AddCanFail, InitCanFail} \subseteq BOOLEAN
ASSUME DrainAssumption == DrainSteps \in Nat

VARIABLES
  m_bLoaded,
  m_vRequests,  \* the vector
  state,        \* m_iRequestState, "NEW" before construction, "DELETED" after delete
  handle,       \* requests with m_Handle # nullptr
  multi,        \* requests whose easy handle is in the multi handle
  done,         \* ... and whose CURLMSG_DONE has not been read yet
  calls,        \* how often ResponseCallback ran for a request
  mode,         \* "frame", "drain" (the loop in Shutdown), "abort" (Think(true)), "aborted"
  waited,       \* iterations of the drain loop
  pc, i         \* position in Think: "out", "start", "perform", "complete", "reap"

vars == <<m_bLoaded, m_vRequests, state, handle, multi, done, calls, mode, waited, pc, i>>

States == {"NEW", "QUEUED", "EXECUTED", "FINISHED", "DELETED"}
Modes  == {"frame", "drain", "abort", "aborted"}
Places == {"out", "start", "perform", "complete", "reap"}

Alive == {r \in Requests : state[r] \in {"QUEUED", "EXECUTED", "FINISHED"}}

(* m_vRequests.erase(begin + n), with the rest moving up.                  *)
Without(s, n) == [k \in 1 .. Len(s) - 1 |-> IF k < n THEN s[k] ELSE s[k + 1]]

Elements(s) == {s[k] : k \in 1 .. Len(s)}

bForceDiscard == mode = "abort"

-----------------------------------------------------------------------------
(* QueueRequest: the manager owns the request from here on; without a      *)
(* loaded manager it is deleted at once.                                   *)
QueueRequest(r) ==
  /\ pc = "out" /\ mode = "frame"
  /\ state[r] = "NEW"
  /\ IF m_bLoaded
     THEN /\ state' = [state EXCEPT ![r] = "QUEUED"]
          /\ m_vRequests' = Append(m_vRequests, r)
     ELSE /\ state' = [state EXCEPT ![r] = "DELETED"]
          /\ UNCHANGED m_vRequests
  /\ UNCHANGED <<m_bLoaded, handle, multi, done, calls, mode, waited, pc, i>>

-----------------------------------------------------------------------------
(* Think.                                                                  *)

(* Mutant of ThinkBegin: the walk starts before the first element.         *)
ThinkBegin_ZeroBased ==
  /\ pc' = "start" /\ i' = 0
  /\ UNCHANGED <<m_bLoaded, m_vRequests, state, handle, multi, done, calls>>

ThinkBegin ==
  /\ pc' = "start" /\ i' = 1
  /\ UNCHANGED <<m_bLoaded, m_vRequests, state, handle, multi, done, calls>>

(* Once per frame, from MSGameThink.                                       *)
FrameThink ==
  /\ pc = "out" /\ mode = "frame" /\ m_bLoaded
  /\ ThinkBegin
  /\ UNCHANGED <<mode, waited>>

Here == m_vRequests[i]

Walking(place) == pc = place /\ i =< Len(m_vRequests)

Skip == i' = i + 1 /\ UNCHANGED m_vRequests

(* Mutants of DeleteHere: the pointer stays in the vector; the index moves *)
(* on over the element that moved up.                                      *)
DeleteHere_NoErase ==
  /\ state' = [state EXCEPT ![Here] = "DELETED"]
  /\ Skip

DeleteHere_NextIndex ==
  /\ state' = [state EXCEPT ![Here] = "DELETED"]
  /\ m_vRequests' = Without(m_vRequests, i)
  /\ i' = i + 1

(* delete req; m_vRequests.erase(begin + i): the index stays.              *)
DeleteHere ==
  /\ state' = [state EXCEPT ![Here] = "DELETED"]
  /\ m_vRequests' = Without(m_vRequests, i)
  /\ UNCHANGED i

StartSkip ==
  /\ Walking("start") /\ state[Here] # "QUEUED"
  /\ Skip
  /\ UNCHANGED <<m_bLoaded, state, handle, multi, done, calls, mode, waited, pc>>

(* Torn down before it was handed to curl, or refused by curl.             *)
StartDiscard ==
  /\ Walking("start") /\ state[Here] = "QUEUED"
  /\ bForceDiscard \/ AddCanFail
  /\ DeleteHere
  /\ UNCHANGED <<m_bLoaded, handle, multi, done, calls, mode, waited, pc>>

(* Mutant of StartTransfer: the handle never reaches curl.                 *)
StartTransfer_NotAdded ==
  /\ Walking("start") /\ state[Here] = "QUEUED" /\ ~bForceDiscard
  /\ state' = [state EXCEPT ![Here] = "EXECUTED"]
  /\ handle' = handle \cup {Here}
  /\ Skip
  /\ UNCHANGED <<m_bLoaded, multi, done, calls, mode, waited, pc>>

(* PrepareForMulti and curl_multi_add_handle.                              *)
StartTransfer ==
  /\ Walking("start") /\ state[Here] = "QUEUED" /\ ~bForceDiscard
  /\ state' = [state EXCEPT ![Here] = "EXECUTED"]
  /\ handle' = handle \cup {Here}
  /\ multi' = multi \cup {Here}
  /\ Skip
  /\ UNCHANGED <<m_bLoaded, done, calls, mode, waited, pc>>

StartEnd ==
  /\ pc = "start" /\ i > Len(m_vRequests)
  /\ pc' = "perform"
  /\ UNCHANGED <<m_bLoaded, m_vRequests, state, handle, multi, done, calls, mode, waited, i>>

(* curl_multi_perform: any transfers may finish, well or badly.            *)
Perform(finished) ==
  /\ pc = "perform"
  /\ done' = done \cup finished
  /\ pc' = "complete"
  /\ UNCHANGED <<m_bLoaded, m_vRequests, state, handle, multi, calls, mode, waited, i>>

(* Mutant of Complete: the handle stays in the multi stack, and its        *)
(* message in the queue.                                                   *)
Complete_NotRemoved(r) ==
  /\ pc = "complete" /\ r \in done
  /\ calls' = [calls EXCEPT ![r] = @ + 1]
  /\ state' = [state EXCEPT ![r] = "FINISHED"]
  /\ handle' = handle \ {r}
  /\ UNCHANGED <<m_bLoaded, m_vRequests, multi, done, mode, waited, pc, i>>

(* ProcessMultiCompleted, one message: remove the handle, OnMultiComplete  *)
(* with ResponseCallback, easy cleanup.                                    *)
Complete(r) ==
  /\ pc = "complete" /\ r \in done
  /\ done' = done \ {r}
  /\ multi' = multi \ {r}
  /\ calls' = [calls EXCEPT ![r] = @ + 1]
  /\ state' = [state EXCEPT ![r] = "FINISHED"]
  /\ handle' = handle \ {r}
  /\ UNCHANGED <<m_bLoaded, m_vRequests, mode, waited, pc, i>>

CompleteEnd ==
  /\ pc = "complete" /\ done = {}
  /\ pc' = "reap" /\ i' = 1
  /\ UNCHANGED <<m_bLoaded, m_vRequests, state, handle, multi, done, calls, mode, waited>>

(* Mutant of ReapSkip: a running transfer is left alone even in a teardown. *)
ReapSkip_NoAbort ==
  /\ Walking("reap")
  /\ state[Here] # "FINISHED"
  /\ Skip
  /\ UNCHANGED <<m_bLoaded, state, handle, multi, done, calls, mode, waited, pc>>

ReapSkip ==
  /\ Walking("reap")
  /\ state[Here] # "FINISHED"
  /\ ~(bForceDiscard /\ state[Here] = "EXECUTED")
  /\ Skip
  /\ UNCHANGED <<m_bLoaded, state, handle, multi, done, calls, mode, waited, pc>>

ReapFinished ==
  /\ Walking("reap") /\ state[Here] = "FINISHED"
  /\ DeleteHere
  /\ UNCHANGED <<m_bLoaded, handle, multi, done, calls, mode, waited, pc>>

(* Mutant of ReapAborted: cleaned up without leaving the multi handle.      *)
ReapAborted_NoRemove ==
  /\ Walking("reap") /\ bForceDiscard /\ state[Here] = "EXECUTED"
  /\ handle' = handle \ {Here}
  /\ DeleteHere
  /\ UNCHANGED <<m_bLoaded, multi, done, calls, mode, waited, pc>>

(* AbortTransfer: out of the multi handle first, then cleaned up.          *)
ReapAborted ==
  /\ Walking("reap") /\ bForceDiscard /\ state[Here] = "EXECUTED"
  /\ multi' = multi \ {Here}
  /\ done' = done \ {Here}
  /\ handle' = handle \ {Here}
  /\ DeleteHere
  /\ UNCHANGED <<m_bLoaded, calls, mode, waited, pc>>

(* Mutant of ReapEnd: the drain loop does not count its iterations.        *)
ReapEnd_NoCount ==
  /\ pc = "reap" /\ i > Len(m_vRequests)
  /\ pc' = "out"
  /\ mode' = IF mode = "abort" THEN "aborted" ELSE mode
  /\ UNCHANGED <<m_bLoaded, m_vRequests, state, handle, multi, done, calls, waited, i>>

(* Think returns to the frame, to the drain loop's next test (which leaves *)
(* at once when the vector is empty), or to the end of Shutdown.           *)
ReapEnd ==
  /\ pc = "reap" /\ i > Len(m_vRequests)
  /\ pc' = "out"
  /\ waited' = IF mode = "drain" THEN waited + 1 ELSE waited
  /\ mode' = IF mode = "abort" THEN "aborted" ELSE mode
  /\ UNCHANGED <<m_bLoaded, m_vRequests, state, handle, multi, done, calls, i>>

-----------------------------------------------------------------------------
(* Init, at the start of every map: Shutdown, which returns at once when   *)
(* nothing is loaded, then a new multi handle.                             *)

Fresh == m_bLoaded' \in (IF InitCanFail THEN BOOLEAN ELSE {TRUE})

InitFirst ==
  /\ pc = "out" /\ mode = "frame" /\ ~m_bLoaded
  /\ Fresh
  /\ UNCHANGED <<m_vRequests, state, handle, multi, done, calls, mode, waited, pc, i>>

ShutdownBegin ==
  /\ pc = "out" /\ mode = "frame" /\ m_bLoaded
  /\ mode' = "drain" /\ waited' = 0
  /\ UNCHANGED <<m_bLoaded, m_vRequests, state, handle, multi, done, calls, pc, i>>

DrainMore == m_vRequests # << >> /\ waited < DrainSteps

DrainThink ==
  /\ pc = "out" /\ mode = "drain" /\ DrainMore
  /\ ThinkBegin
  /\ UNCHANGED <<mode, waited>>

AbortThink ==
  /\ pc = "out" /\ mode = "drain" /\ ~DrainMore
  /\ ThinkBegin
  /\ mode' = "abort"
  /\ UNCHANGED waited

(* curl_multi_cleanup, the survivors deleted, the vector cleared; back in  *)
(* Init a new multi handle.                                                *)
ShutdownEnd ==
  /\ pc = "out" /\ mode = "aborted"
  /\ state' = [r \in Requests |->
                 IF r \in Elements(m_vRequests) THEN "DELETED" ELSE state[r]]
  /\ m_vRequests' = << >>
  /\ Fresh
  /\ mode' = "frame"
  /\ UNCHANGED <<handle, multi, done, calls, waited, pc, i>>

-----------------------------------------------------------------------------
Init ==
  /\ m_bLoaded = FALSE
  /\ m_vRequests = << >>
  /\ state = [r \in Requests |-> "NEW"]
  /\ handle = {} /\ multi = {} /\ done = {}
  /\ calls = [r \in Requests |-> 0]
  /\ mode = "frame" /\ waited = 0
  /\ pc = "out" /\ i = 1

(* The steps inside a Think or a Shutdown, which the thread does not stop. *)
Inside ==
  \/ StartSkip \/ StartDiscard \/ StartTransfer \/ StartEnd
  \/ \E finished \in SUBSET multi : Perform(finished)
  \/ \E r \in Requests : Complete(r)
  \/ CompleteEnd
  \/ ReapSkip \/ ReapFinished \/ ReapAborted \/ ReapEnd
  \/ DrainThink \/ AbortThink \/ ShutdownEnd

Next ==
  \/ \E r \in Requests : QueueRequest(r)
  \/ FrameThink
  \/ Inside
  \/ InitFirst
  \/ ShutdownBegin

Spec == Init /\ [][Next]_vars

(* A Think or a Shutdown that has begun goes on, however slow the backend. *)
ThreadSpec == Spec /\ WF_vars(Inside)

(* r is among the transfers curl finishes.                                 *)
Finishes(r) == \E finished \in SUBSET multi : r \in finished /\ Perform(finished)

(* Frames go on, since the engine calls StartFrame while the map runs, and *)
(* transfers end: CURLOPT_TIMEOUT_MS bounds every transfer, so a           *)
(* curl_multi_perform that keeps being called finishes it (SF).            *)
BackendAnswers == WF_vars(FrameThink) /\ \A r \in Requests : SF_vars(Finishes(r))

-----------------------------------------------------------------------------
(* Properties.                                                             *)

(* Every variable keeps its type.                                          *)
TypeOK ==
  /\ m_bLoaded \in BOOLEAN
  /\ m_vRequests \in Seq(Requests)
  /\ state \in [Requests -> States]
  /\ handle \subseteq Requests /\ multi \subseteq Requests /\ done \subseteq Requests
  /\ calls \in [Requests -> Nat]
  /\ mode \in Modes /\ waited \in Nat
  /\ pc \in Places /\ i \in Nat \ {0}

(* The vector holds every live request exactly once and nothing else: an   *)
(* accepted request is never leaked, and the passes never touch a deleted  *)
(* one.                                                                    *)
OwnedOnce ==
  /\ Elements(m_vRequests) = Alive
  /\ \A j, k \in 1 .. Len(m_vRequests) : m_vRequests[j] = m_vRequests[k] => j = k

(* curl holds exactly the executing requests, each with an easy handle of  *)
(* its own: no destructor cleans up a handle the multi stack still has, no *)
(* completion is delivered to a deleted request, no handle is left behind. *)
CurlHoldsExecuting ==
  /\ multi = {r \in Requests : state[r] = "EXECUTED"}
  /\ handle = multi
  /\ done \subseteq multi

(* Erasing while walking skips nobody: when pass 1 is over no request is   *)
(* still queued, and when Think returns none is finished and undeleted.    *)
NothingSkipped ==
  /\ pc \in {"perform", "complete", "reap"} =>
       \A r \in Requests : state[r] # "QUEUED"
  /\ pc = "out" => \A r \in Requests : state[r] # "FINISHED"

(* "Think(true) leaves this empty": after the abort, and whenever the      *)
(* manager is not loaded, no request is left.                              *)
NothingSurvivesShutdown == mode = "aborted" \/ ~m_bLoaded => m_vRequests = << >>

(* Shutdown, and with it the map change, comes to an end, even if no       *)
(* transfer ever does: the drain loop is bounded (ThreadSpec).             *)
ShutdownReturns == mode # "frame" ~> mode = "frame"

(* The manager implements RequestLifecycle: at most one ResponseCallback   *)
(* per request, none after the request was dropped.  If transfers end,     *)
(* every accepted request is answered or dropped.                          *)
Fate(r) ==
  CASE calls[r] > 1                         -> "answered again"
    [] calls[r] = 1                         -> "answered"
    [] calls[r] = 0 /\ state[r] = "NEW"     -> "new"
    [] calls[r] = 0 /\ state[r] = "DELETED" -> "dropped"
    [] OTHER                                -> "pending"

Lifecycle == INSTANCE RequestLifecycle WITH fate <- [r \in Requests |-> Fate(r)]

AnsweredOrDroppedOnce == Lifecycle!Spec

EventuallyResolved == BackendAnswers => Lifecycle!Resolution
=============================================================================
