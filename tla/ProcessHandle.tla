---------------------------- MODULE ProcessHandle ---------------------------
(***************************************************************************)
(* How emuMMC, injected into FS, gets a handle of the process it runs in   *)
(* (source/main.c): _init_process_handle sends CUR_PROCESS_HANDLE through  *)
(* a session to a helper thread, _receive_process_handle_thread, and the   *)
(* kernel turns it into a real handle on the way.                          *)
(*                                                                         *)
(* The helper's stack and the server handle it is given live in the frame  *)
(* of _init_process_handle; it never replies, and closes the session       *)
(* instead; and the result of svcSendSyncRequest is not looked at.         *)
(*                                                                         *)
(* External: the kernel.  A request is delivered to the server end; a      *)
(* thread in svcSendSyncRequest leaves it, with an error, once the server  *)
(* end is closed; a receive with the client end closed and nothing queued  *)
(* fails.  Any call whose result the code can see may also fail.           *)
(***************************************************************************)

VARIABLES
  caller,            (* Where _init_process_handle is.                     *)
  helper,            (* Where _receive_process_handle_thread is.           *)
  server, client,    (* The ends of the session: "none", "open", "closed". *)
  request,           (* The message: "none", "queued", "received".         *)
  thread_handle,     (* The helper's handle, likewise an end.              *)
  self_proc_handle   (* 0, or the handle of FS.                            *)

handleVars == <<caller, helper, server, client, request, thread_handle,
                self_proc_handle>>

NoHandle == "0"
FsHandle == "FS"

Ends      == {"none", "open", "closed"}
Inside    == {"createThread", "startThread", "send", "sending", "closeClient",
              "wait", "closeThread"}
CallerPcs == {"notCalled", "createSession", "returned", "fatal"} \cup Inside
HelperLive == {"copy", "receive", "set", "closeSession", "exit"}
HelperPcs == {"none", "created", "ended", "fatal"} \cup HelperLive

HandleInit ==
  /\ caller = "notCalled" /\ helper = "none"
  /\ server = "none" /\ client = "none" /\ thread_handle = "none"
  /\ request = "none"
  /\ self_proc_handle = NoHandle

-----------------------------------------------------------------------------
(* The caller                                                              *)

CallerGoes(from, to) == caller = from /\ caller' = to

\* if (rc != 0) fatal_abort(Fatal_BadResult)
CallerFails(from) ==
  /\ CallerGoes(from, "fatal")
  /\ UNCHANGED <<helper, server, client, request, thread_handle,
                 self_proc_handle>>

CreateSession ==
  /\ CallerGoes("createSession", "createThread")
  /\ server' = "open" /\ client' = "open"
  /\ UNCHANGED <<helper, request, thread_handle, self_proc_handle>>

CreateThread ==
  /\ CallerGoes("createThread", "startThread")
  /\ helper' = "created" /\ thread_handle' = "open"
  /\ UNCHANGED <<server, client, request, self_proc_handle>>

StartThread ==
  /\ CallerGoes("startThread", "send")
  /\ helper' = "copy"
  /\ UNCHANGED <<server, client, request, thread_handle, self_proc_handle>>

\* The message is written to the TLS and queued; the caller sleeps.
SendSyncRequest ==
  /\ CallerGoes("send", "sending")
  /\ server = "open"
  /\ request' = "queued"
  /\ UNCHANGED <<helper, server, client, thread_handle, self_proc_handle>>

\* svcSendSyncRequest fails at once; its result is ignored.
SendFails ==
  /\ CallerGoes("send", "closeClient")
  /\ UNCHANGED <<helper, server, client, request, thread_handle,
                 self_proc_handle>>

\* Nobody replies: the closing of the server end wakes the caller.
SendReturns ==
  /\ CallerGoes("sending", "closeClient")
  /\ server = "closed"
  /\ UNCHANGED <<helper, server, client, request, thread_handle,
                 self_proc_handle>>

CloseClient ==
  /\ CallerGoes("closeClient", "wait")
  /\ client' = "closed"
  /\ UNCHANGED <<helper, server, request, thread_handle, self_proc_handle>>

\* Mutant of WaitDone: the caller does not wait for the helper to end.
WaitSkipped == TRUE

\* When svcWaitSynchronizationSingle on a thread returns.
WaitDone == helper = "ended"

WaitSynchronization ==
  /\ CallerGoes("wait", "closeThread")
  /\ WaitDone
  /\ UNCHANGED <<helper, server, client, request, thread_handle,
                 self_proc_handle>>

CloseThread ==
  /\ CallerGoes("closeThread", "returned")
  /\ thread_handle' = "closed"
  /\ UNCHANGED <<helper, server, client, request, self_proc_handle>>

Caller ==
  \/ CreateSession \/ CreateThread \/ StartThread
  \/ SendSyncRequest \/ SendFails \/ SendReturns
  \/ CloseClient \/ WaitSynchronization \/ CloseThread
  \/ \E from \in {"createSession", "createThread", "startThread", "wait"} :
       CallerFails(from)

-----------------------------------------------------------------------------
(* The helper                                                              *)

HelperGoes(from, to) == helper = from /\ helper' = to

\* Reads *_session_handle, in the caller's frame.
CopyHandle ==
  /\ HelperGoes("copy", "receive")
  /\ UNCHANGED <<caller, server, client, request, thread_handle,
                 self_proc_handle>>

ReplyAndReceive ==
  /\ HelperGoes("receive", "set")
  /\ request = "queued" /\ request' = "received"
  /\ UNCHANGED <<caller, server, client, thread_handle, self_proc_handle>>

\* Mutant of ReceiveError: the result of svcReplyAndReceive is not looked at.
ReceiveErrorIgnored == "set"

\* if (rc != 0) fatal_abort(Fatal_BadResult)
ReceiveError == "fatal"

\* svcReplyAndReceive returns an error: the client end is closed with nothing
\* queued, or the kernel could not hand the message over.
ReceiveFails ==
  /\ HelperGoes("receive", ReceiveError)
  /\ client = "closed" \/ request = "queued"
  /\ UNCHANGED <<caller, server, client, request, thread_handle,
                 self_proc_handle>>

\* The TLS holds the handle, or, from the memset, 0.
SetHandle ==
  /\ HelperGoes("set", "closeSession")
  /\ self_proc_handle' = IF request = "received" THEN FsHandle ELSE NoHandle
  /\ UNCHANGED <<caller, server, client, request, thread_handle>>

\* Mutant of CloseSession: the helper ends without closing the session.
CloseSessionLeaked ==
  /\ HelperGoes("closeSession", "exit")
  /\ UNCHANGED <<caller, server, client, request, thread_handle,
                 self_proc_handle>>

CloseSession ==
  /\ HelperGoes("closeSession", "exit")
  /\ server' = "closed"
  /\ UNCHANGED <<caller, client, request, thread_handle, self_proc_handle>>

ExitThread ==
  /\ HelperGoes("exit", "ended")
  /\ UNCHANGED <<caller, server, client, request, thread_handle,
                 self_proc_handle>>

Helper ==
  \/ CopyHandle \/ ReplyAndReceive \/ ReceiveFails
  \/ SetHandle \/ CloseSession \/ ExitThread

-----------------------------------------------------------------------------
HandleTypeOK ==
  /\ caller \in CallerPcs /\ helper \in HelperPcs
  /\ server \in Ends /\ client \in Ends /\ thread_handle \in Ends
  /\ request \in {"none", "queued", "received"}
  /\ self_proc_handle \in {NoHandle, FsHandle}

\* While the helper can still run, _init_process_handle has not returned: the
\* stack the helper runs on and the handle it reads are still there (main.c,
\* 185, 197 and 219).
StackInUse == helper \in HelperLive => caller \in Inside \cup {"fatal"}

\* When _init_process_handle returns it has FS's handle, although it ignores
\* what svcSendSyncRequest says, and nothing of the exchange is left open
\* (main.c, 213 to 226).
HandleKnown ==
  caller = "returned" =>
    /\ self_proc_handle = FsHandle
    /\ server = "closed" /\ client = "closed" /\ thread_handle = "closed"
=============================================================================
