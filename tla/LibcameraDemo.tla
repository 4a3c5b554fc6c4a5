---------------------------- MODULE LibcameraDemo ----------------------------
(***************************************************************************)
(* The libcamera demo (libcamera/main.cpp): main() sets a camera up, queues*)
(* one request per buffer, waits until enough frames are complete and      *)
(* tears everything down, while the camera's thread calls bufferComplete   *)
(* and requestComplete for every request that comes back; requestComplete  *)
(* queues it again.  The camera (external) may fail any call and complete  *)
(* a request with a bad frame or cancelled.                                *)
(***************************************************************************)
EXTENDS Integers, Sequences, FiniteSets

CONSTANTS
  Request,       \* one per buffer of the allocator
  Frames,        \* bound: the frames waited for, 100 in the code
  BadFrames      \* bound: frames whose status is not FrameSuccess

ASSUME CameraAssumption ==
  IsFiniteSet(Request) /\ Frames \in Nat /\ BadFrames \in Nat

VARIABLES
  cmMain,        \* where main() is
  cmFlight,      \* per request: "out" of the camera, "queued", or what its
                 \* buffer came back with, before requestComplete
  cmGiven,       \* the requests main() has queued
  cmFrames,      \* completeBuffersCount, up to Frames
  cmBad,         \* bad frames so far
  cmLost,        \* history: requests cancelled, or refused when queued again
  cmFreed        \* main() returned: the requests are destroyed
cmVars == <<cmMain, cmFlight, cmGiven, cmFrames, cmBad, cmLost, cmFreed>>

\* What main() does until it waits, in order.
SetUp == <<"start manager", "get", "acquire", "streams", "generate", "configure",
           "allocate", "create requests", "start", "queue">>
InFlight == {r \in Request : cmFlight[r] # "out"}

CmInit ==
  /\ cmMain = SetUp[1]
  /\ cmFlight = [r \in Request |-> "out"]
  /\ cmGiven = {}
  /\ cmFrames = 0
  /\ cmBad = 0
  /\ cmLost = {}
  /\ cmFreed = FALSE

-----------------------------------------------------------------------------
(* main()                                                                  *)

Returns(how) == cmMain' = how /\ cmFreed' = TRUE

CmSetUp ==
  /\ \E i \in 1..(Len(SetUp) - 1) :
       /\ cmMain = SetUp[i]
       /\ \/ cmMain' = SetUp[i + 1] /\ UNCHANGED cmFreed
          \/ Returns("failed")
  /\ UNCHANGED <<cmFlight, cmGiven, cmFrames, cmBad, cmLost>>

\* for (request : requests): a request that is refused ends the program with
\* the others queued and the camera running.
CmQueue ==
  /\ cmMain = "queue"
  /\ \/ \E r \in Request \ cmGiven :
          /\ cmGiven' = cmGiven \cup {r}
          /\ cmFlight' = [cmFlight EXCEPT ![r] = "queued"]
          /\ UNCHANGED <<cmMain, cmFreed>>
     \/ cmGiven # Request /\ Returns("queue failed") /\ UNCHANGED <<cmFlight, cmGiven>>
     \/ cmGiven = Request /\ cmMain' = "wait" /\ UNCHANGED <<cmFlight, cmGiven, cmFreed>>
  /\ UNCHANGED <<cmFrames, cmBad, cmLost>>

fault_wait ==                \* fault: camera->stop() is forgotten
  /\ cmMain = "wait" /\ cmFrames = Frames
  /\ cmMain' = "release"
  /\ UNCHANGED <<cmFlight, cmGiven, cmFrames, cmBad, cmLost, cmFreed>>

\* The loop ends, and camera->stop() is called.
CmWait ==
  /\ cmMain = "wait" /\ cmFrames = Frames
  /\ cmMain' = "stop"
  /\ UNCHANGED <<cmFlight, cmGiven, cmFrames, cmBad, cmLost, cmFreed>>

\* camera->stop() returns when every request has come back.
CmStopped ==
  /\ cmMain = "stop" /\ InFlight = {}
  /\ cmMain' = "release"
  /\ UNCHANGED <<cmFlight, cmGiven, cmFrames, cmBad, cmLost, cmFreed>>

\* release(), cm->stop(), delete cm, delete allocator, return
CmEnd ==
  /\ cmMain = "release"
  /\ Returns("ended")
  /\ UNCHANGED <<cmFlight, cmGiven, cmFrames, cmBad, cmLost>>

-----------------------------------------------------------------------------
(* The camera's thread                                                     *)

\* bufferComplete counts the good frames.  A camera that is being stopped
\* cancels.
bufferComplete(r) ==
  /\ cmFlight[r] = "queued"
  /\ \E status \in {"success", "bad", "cancelled"} :
       /\ cmFlight' = [cmFlight EXCEPT ![r] = status]
       /\ cmMain = "stop" => status = "cancelled"
       /\ status = "bad" => cmBad < BadFrames
       /\ cmBad' = cmBad + (IF status = "bad" THEN 1 ELSE 0)
       /\ cmFrames' = cmFrames + (IF status = "success" /\ cmFrames < Frames THEN 1 ELSE 0)
  /\ UNCHANGED <<cmMain, cmGiven, cmLost, cmFreed>>

fault_requestComplete(r) ==   \* fault: a request with a bad frame is not queued again
  /\ cmFlight[r] \notin {"out", "queued"}
  /\ \/ /\ cmFlight[r] = "success" /\ cmMain # "stop"
        /\ cmFlight' = [cmFlight EXCEPT ![r] = "queued"]
        /\ UNCHANGED cmLost
     \/ /\ cmFlight' = [cmFlight EXCEPT ![r] = "out"]
        /\ cmLost' = IF cmFlight[r] = "bad" THEN cmLost ELSE cmLost \cup {r}
  /\ UNCHANGED <<cmMain, cmGiven, cmFrames, cmBad, cmFreed>>

\* requestComplete queues a request that was not cancelled again.  Whether the
\* camera takes it, which it never does while it is being stopped, is not
\* looked at.
requestComplete(r) ==
  /\ cmFlight[r] \notin {"out", "queued"}
  /\ \/ /\ cmFlight[r] # "cancelled" /\ cmMain # "stop"
        /\ cmFlight' = [cmFlight EXCEPT ![r] = "queued"]
        /\ UNCHANGED cmLost
     \/ /\ cmFlight' = [cmFlight EXCEPT ![r] = "out"]
        /\ cmLost' = cmLost \cup {r}
  /\ UNCHANGED <<cmMain, cmGiven, cmFrames, cmBad, cmFreed>>

CmNext ==
  \/ CmSetUp \/ CmQueue \/ CmWait \/ CmStopped \/ CmEnd
  \/ \E r \in Request : bufferComplete(r) \/ requestComplete(r)

\* main() runs on, and the camera gives every request back.
CmFairness ==
  /\ WF_cmVars(CmSetUp \/ CmQueue \/ CmWait \/ CmStopped \/ CmEnd)
  /\ \A r \in Request : WF_cmVars(bufferComplete(r)) /\ WF_cmVars(requestComplete(r))

CmSpec == CmInit /\ [][CmNext]_cmVars /\ CmFairness

-----------------------------------------------------------------------------
\* Once main() has returned no request it destroyed comes back from the
\* camera, except when it returned because a request could not be queued.
NothingFreedInFlight == cmFreed /\ cmMain # "queue failed" => InFlight = {}

\* The wait for the frames ends, with bad frames among them, unless the camera
\* has cancelled or refused every request: those are not queued again, and
\* main() waits for ever.
WaitEnds == cmMain = "wait" ~> (cmMain = "ended" \/ cmLost = Request)
=============================================================================
