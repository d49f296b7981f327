-------------------------- MODULE ProcessIsolation --------------------------
(***************************************************************************)
(* `nsl run --isolate`: ProcessIsolatedRuntime.execute in the parent,       *)
(* _isolated_entry in the spawned child, the pipe between them, and what    *)
(* run_isolated_cli makes of the result.  The child may hang, die at any    *)
(* time, or send its frame at any time, also around the end of the poll.    *)
(***************************************************************************)
EXTENDS Integers

CONSTANTS
  Responses,    \* what the target can return: [valid, size], valid for run_isolated_cli
  MaxPayload,   \* max_payload_bytes
  Nothing       \* no frame, no exit code, no payload

(* What _isolated_entry can put into a frame, as it is tagged. *)
Frames == [tag : {"COMPLETED", "PROTOCOL_ERROR", "TARGET_ERROR", "PART"},
           payload : Responses \cup {Nothing}]

ASSUME IsolationAssumption ==
  /\ MaxPayload \in Nat \ {0}
  /\ Responses \subseteq [valid : BOOLEAN, size : Nat]
  /\ Nothing \notin Frames

VARIABLES
  parent,       \* where execute is
  child,        \* where the child is
  pipe,         \* what the child has written: nothing, part of a frame, a frame
  open,         \* whether the child's end of the pipe is open
  returned,     \* what the target has returned in the child
  exitcode,     \* the exit code of the child, once it is gone
  result,       \* IsolatedProcessResult
  answer        \* what run_isolated_cli returns or raises

isolationVars == <<parent, child, pipe, open, returned, exitcode, result, answer>>

IsolationInit ==
  /\ parent = "polling" /\ child = "target"
  /\ pipe = Nothing /\ open = TRUE
  /\ returned = Nothing /\ exitcode = Nothing
  /\ result = Nothing /\ answer = Nothing

----------------------------------------------------------------------------
(* The child: _isolated_entry *)

Frame(tag, payload) == [tag |-> tag, payload |-> payload]

(* execute_isolated_cli_request returns a response. *)
TargetReturns(r) ==
  /\ child = "target"
  /\ returned' = IF r.size <= MaxPayload THEN Frame("COMPLETED", r) ELSE Frame("PROTOCOL_ERROR", Nothing)
  /\ child' = "sending"
  /\ UNCHANGED <<parent, pipe, open, exitcode, result, answer>>

(* It raises: the request is malformed, or the execution failed. *)
TargetRaises ==
  /\ child = "target"
  /\ returned' = Frame("TARGET_ERROR", Nothing)
  /\ child' = "sending"
  /\ UNCHANGED <<parent, pipe, open, exitcode, result, answer>>

(* It leaves the interpreter: no frame is sent. *)
TargetExits ==
  /\ child = "target"
  /\ child' = "closing"
  /\ UNCHANGED <<parent, pipe, open, returned, exitcode, result, answer>>

(* send_bytes, of which the first part can be seen before the rest is in. *)
SendPart ==
  /\ child = "sending" /\ pipe = Nothing
  /\ pipe' = Frame("PART", Nothing)
  /\ UNCHANGED <<parent, child, open, returned, exitcode, result, answer>>

Send ==
  /\ child = "sending"
  /\ pipe' = returned
  /\ child' = "closing"
  /\ UNCHANGED <<parent, open, returned, exitcode, result, answer>>

(* finally: sender.close() *)
CloseSender ==
  /\ child = "closing" /\ open
  /\ open' = FALSE
  /\ UNCHANGED <<parent, child, pipe, returned, exitcode, result, answer>>

(* The process ends, with code 0 or, where the interpreter was left or its  *)
(* end fails, another one.                                                  *)
Exit(code) ==
  /\ child = "closing" /\ ~open
  /\ child' = "gone" /\ exitcode' = code
  /\ UNCHANGED <<parent, pipe, open, returned, result, answer>>

(* It dies, at any time. *)
Die ==
  /\ child # "gone"
  /\ child' = "gone" /\ open' = FALSE /\ exitcode' = 23
  /\ UNCHANGED <<parent, pipe, returned, result, answer>>

----------------------------------------------------------------------------
(* The parent: ProcessIsolatedRuntime.execute *)

Go(to) == parent' = to /\ UNCHANGED <<child, pipe, open, returned, exitcode, result, answer>>

(* receiver.poll: something to read, or the end of the stream. *)
PollReady == parent = "polling" /\ (pipe # Nothing \/ ~open) /\ Go("receiving")

(* Mutant: the parent waits for its child without a limit. *)
PollWaits == FALSE

PollTimesOut == parent = "polling" /\ pipe = Nothing /\ open /\ Go("timed out")

(* recv_bytes: the whole frame, or EOFError. *)
HasFrame == pipe # Nothing /\ pipe.tag # "PART"

ReceiveFrame ==
  parent = "receiving" /\ HasFrame /\ Go("joining frame")

ReceiveNothing ==
  parent = "receiving" /\ ~HasFrame /\ ~open /\ Go("joining")

(* process.is_alive(): a child that is gone by now is only joined. *)
FindGone == parent = "timed out" /\ child = "gone" /\ Go("joining")

Result(status, payload) == [status |-> status, payload |-> payload]

(* Mutant: the child is left to itself. *)
LeaveChild ==
  /\ parent = "timed out" /\ child # "gone"
  /\ result' = Result("TIMED_OUT", Nothing)
  /\ parent' = "done"
  /\ UNCHANGED <<child, pipe, open, returned, exitcode, answer>>

(* process.terminate() and join() *)
Terminate ==
  /\ parent = "timed out" /\ child # "gone"
  /\ child' = "gone" /\ open' = FALSE /\ exitcode' = -15
  /\ result' = Result("TIMED_OUT", Nothing)
  /\ parent' = "done"
  /\ UNCHANGED <<pipe, returned, answer>>

(* _without_frame *)
WithoutFrame == IF exitcode # 0 THEN Result("CRASHED", Nothing) ELSE Result("PROTOCOL_ERROR", Nothing)

(* _from_frame *)
FromFrame ==
  IF exitcode # 0 THEN WithoutFrame ELSE Result(pipe.tag, pipe.payload)

(* process.join(), without a limit, and the result *)
Join ==
  /\ parent \in {"joining", "joining frame"} /\ child = "gone"
  /\ result' = IF parent = "joining" THEN WithoutFrame ELSE FromFrame
  /\ parent' = "done"
  /\ UNCHANGED <<child, pipe, open, returned, exitcode, answer>>

(* run_isolated_cli *)
Report ==
  /\ parent = "done" /\ answer = Nothing
  /\ answer' = IF result.status # "COMPLETED" THEN [ok |-> FALSE, code |-> result.status]
               ELSE IF result.payload.valid THEN [ok |-> TRUE, code |-> "COMPLETED"]
               ELSE [ok |-> FALSE, code |-> "PROTOCOL_ERROR"]
  /\ UNCHANGED <<parent, child, pipe, open, returned, exitcode, result>>

Leaves == Send \/ CloseSender \/ \E code \in {0, 1} : Exit(code)

Parent == PollReady \/ PollTimesOut \/ ReceiveFrame \/ ReceiveNothing \/ FindGone \/ Terminate
            \/ Join \/ Report

IsolationNext ==
  \/ \E r \in Responses : TargetReturns(r)
  \/ TargetRaises \/ TargetExits \/ SendPart \/ Leaves \/ Die
  \/ Parent

(* The parent is scheduled, and so is a child on its way out: what it still *)
(* does is the code of _isolated_entry.  Nothing is assumed of the target.  *)
IsolationFairness == WF_isolationVars(Parent) /\ WF_isolationVars(Leaves)

IsolationSpec == IsolationInit /\ [][IsolationNext]_isolationVars

----------------------------------------------------------------------------
(* Properties *)

(* A result is reported only if the target has returned it, the child has   *)
(* ended with code 0, and the response is well formed; and when execute is  *)
(* over no child is left that could still act for it.                       *)
IsolatedAnswerIsTrue ==
  /\ parent = "done" => child = "gone"
  /\ answer # Nothing /\ answer.ok =>
       returned.tag = "COMPLETED" /\ returned.payload.valid /\ exitcode = 0

(* Whatever the target does - return, raise, exit, hang, die - the command  *)
(* gets an answer.                                                          *)
IsolationAnswers == <>(answer # Nothing)
=============================================================================
