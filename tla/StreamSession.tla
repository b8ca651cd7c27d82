---------------------------- MODULE StreamSession ----------------------------
(***************************************************************************)
(* What the frame-processing service promises the backend that starts and  *)
(* stops it, one session per video stream:                                 *)
(*                                                                         *)
(*   idle      nothing processes the stream;                               *)
(*   active    frames are processed one after another;                     *)
(*   last      stop was called, one frame may still begin;                 *)
(*   draining  stop was called, no further frame begins.                   *)
(*                                                                         *)
(* The locks, the deadlines and the hand-over from one pipeline task to    *)
(* the next are not visible here.  LprsWorkflow is shown to implement it.  *)
(***************************************************************************)

CONSTANTS Streams,   \* keys of the video streams
          Workers    \* whoever processes a frame

VARIABLES session,   \* session[s]: the state of the stream's session
          capturing  \* the pairs <<s, w>>: w is processing a frame of s

vars == <<session, capturing>>

SessionStates == {"idle", "active", "last", "draining"}

TypeOK ==
  /\ session \in [Streams -> SessionStates]
  /\ capturing \subseteq Streams \X Workers

Init ==
  /\ session = [s \in Streams |-> "idle"]
  /\ capturing = {}

Busy(s) == \E w \in Workers : <<s, w>> \in capturing

\* A start is honoured in every state, during a stop too.
Start(s) ==
  /\ session[s] # "active"
  /\ session' = [session EXCEPT ![s] = "active"]
  /\ UNCHANGED capturing

\* A stop lets the frame in progress finish, and at most one more begin.
Stop(s) ==
  /\ session[s] = "active"
  /\ \E to \in {"last", "draining"} : session' = [session EXCEPT ![s] = to]
  /\ UNCHANGED capturing

\* One frame of a stream at a time; the one after a stop is the last.
BeginFrame(s, w) ==
  /\ session[s] \in {"active", "last"}
  /\ ~Busy(s)
  /\ capturing' = capturing \union {<<s, w>>}
  /\ session' = [session EXCEPT ![s] = IF @ = "last" THEN "draining" ELSE @]

EndFrame(s, w) ==
  /\ <<s, w>> \in capturing
  /\ capturing' = capturing \ {<<s, w>>}
  /\ UNCHANGED session

\* The stream is gone or has no screenshot url: the last frame never begins.
GiveUp(s) ==
  /\ session[s] = "last"
  /\ session' = [session EXCEPT ![s] = "draining"]
  /\ UNCHANGED capturing

\* The session ends between two frames: stopped, timed out, or failed.
Finish(s) ==
  /\ session[s] \in {"active", "draining"}
  /\ ~Busy(s)
  /\ session' = [session EXCEPT ![s] = "idle"]
  /\ UNCHANGED capturing

Next ==
  \E s \in Streams :
    \/ Start(s) \/ Stop(s) \/ GiveUp(s) \/ Finish(s)
    \/ \E w \in Workers : BeginFrame(s, w) \/ EndFrame(s, w)

Spec == Init /\ [][Next]_vars
=============================================================================
