---------------------------- MODULE NotifierClient ----------------------------
(***************************************************************************)
(* The Notifier of the library: it reads the events of a pipe, one at a     *)
(* time, and hands them to the user's slots.  Its handlers run in a strand, *)
(* so one after the other and in the order they were queued; close() may be *)
(* called from a slot or from another thread at any moment.                 *)
(***************************************************************************)
EXTENDS Naturals, Sequences

VARIABLES
  pipe,       \* kernel: events written and not read
  writeEnd,   \* kernel: a write end of the pipe is open
  reading,    \* an async_read is outstanding
  open,       \* notifierFd_ is open
  inbound,    \* inboundEvent_
  strand,     \* handlers queued in strand_
  closed,     \* closed_
  closing,    \* another thread is in close(): "no", "queued", "yes"
  delivered,  \* events the slots were called with
  error       \* the error they were told, "none" before

clientVars == <<reading, open, inbound, strand, closed, closing, delivered, error>>

NoEvent == [type |-> "none"]

\* What can be queued: the handler of a read, with its error code, and the
\* function close() dispatches.
Handler == {"success", "eof", "operation_aborted", "bad_descriptor", "setClosed"}

ClientTypeOK ==
  /\ reading \in BOOLEAN /\ open \in BOOLEAN /\ closed \in BOOLEAN
  /\ closing \in {"no", "queued", "yes"}
  /\ strand \in Seq(Handler) /\ Len(strand) <= 2
  /\ error \in {"none", "eof", "operation_aborted", "bad_descriptor"}

\* Notifier::start.
ClientInit ==
  /\ pipe = <<>> /\ writeEnd = TRUE
  /\ reading = TRUE /\ open = TRUE /\ inbound = NoEvent
  /\ strand = <<>> /\ closed = FALSE /\ closing = "no"
  /\ delivered = <<>> /\ error = "none"

-----------------------------------------------------------------------------
\* Slip: the next read is started before the event is handed out.
ReadOn == TRUE

\* Only handle_read starts the next read, once the slots have been called.
ReadUntilHandled == FALSE

\* The outstanding read ends: an event is stored in inboundEvent_ and its
\* handler queued, or only the handler with an error.
ReadEvent ==
  /\ reading /\ open /\ pipe # <<>>
  /\ inbound' = Head(pipe) /\ pipe' = Tail(pipe)
  /\ reading' = ReadUntilHandled /\ strand' = Append(strand, "success")
  /\ UNCHANGED <<writeEnd, open, closed, closing, delivered, error>>

ReadFails ==
  /\ reading
  /\ \/ ~open /\ \E ec \in {"operation_aborted", "bad_descriptor"} : strand' = Append(strand, ec)
     \/ open /\ pipe = <<>> /\ ~writeEnd /\ strand' = Append(strand, "eof")
  /\ reading' = FALSE
  /\ UNCHANGED <<pipe, writeEnd, open, inbound, closed, closing, delivered, error>>

NextHandler(h) == strand # <<>> /\ Head(strand) = h /\ strand' = Tail(strand)

\* Slip: the error of the read is passed on.
ErrorOfRead(ec) == ec

\* What handle_read reports of an error.
ErrorCode(ec) == IF closed THEN "operation_aborted" ELSE ec

\* handle_read with an error: told once, and nothing is read after it.
HandleError ==
  \E ec \in Handler \ {"success", "setClosed"} :
    /\ NextHandler(ec)
    /\ error' = ErrorCode(ec)
    /\ UNCHANGED <<pipe, writeEnd, reading, open, inbound, closed, closing, delivered>>

\* handle_read with an event: onSpawn or onTermination and onEvent, run inside
\* dispatch(), then the next read.  A slot may call close(), whose function
\* then runs at once, or throw, and nothing is read any more.
HandleEvent ==
  /\ NextHandler("success")
  /\ delivered' = Append(delivered, inbound)
  /\ \/ reading' = TRUE /\ UNCHANGED <<open, closed, closing>>
     \/ /\ closing = "no" /\ closing' = "yes"
        /\ reading' = TRUE /\ open' = FALSE /\ closed' = TRUE
     \/ UNCHANGED <<reading, open, closed, closing>>
  /\ UNCHANGED <<pipe, writeEnd, inbound, error>>

\* close() from another thread: strand_.dispatch, then the descriptor.
DispatchClosed ==
  /\ closing = "no" /\ closing' = "queued"
  /\ strand' = Append(strand, "setClosed") /\ UNCHANGED open

CloseDescriptor == closing = "queued" /\ closing' = "yes" /\ open' = FALSE /\ UNCHANGED strand

Close ==
  /\ DispatchClosed \/ CloseDescriptor
  /\ UNCHANGED <<pipe, writeEnd, reading, inbound, closed, delivered, error>>

SetClosed ==
  /\ NextHandler("setClosed")
  /\ closed' = TRUE
  /\ UNCHANGED <<pipe, writeEnd, reading, open, inbound, closing, delivered, error>>

IoService == ReadEvent \/ ReadFails \/ HandleError \/ HandleEvent \/ SetClosed
Client == IoService \/ Close

-----------------------------------------------------------------------------
\* The error is the last thing the slots hear, they hear it once, and it says
\* what happened: operation_aborted only if close() was called, in whatever
\* way the read it interrupted failed, and eof only when every event that was
\* written has been handed out.
ErrorIsLastAndTrue ==
  /\ error # "none" => ~reading /\ \A i \in DOMAIN strand : strand[i] = "setClosed"
  /\ error \in {"none", "eof", "operation_aborted"}
  /\ error = "operation_aborted" => closed
  /\ error = "eof" => pipe = <<>> /\ ~writeEnd
=============================================================================
