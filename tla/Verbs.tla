--------------------------------- MODULE Verbs ---------------------------------
(***************************************************************************)
(* What the plugin does with a request that has passed the gate: the verb  *)
(* (plugin/wezsesh/verbs), the replies it sends (result.lua), each in a    *)
(* child process of its own that may never start, and the one slot that    *)
(* collects what resurrect emits instead of raising (resurrect_error.lua). *)
(* A verb that waits for resurrect lets other callbacks run, and           *)
(* resurrect's own periodic save.                                          *)
(***************************************************************************)
EXTENDS Sequences, Naturals

CONSTANTS
  Handlers,  \* callbacks whose request has passed the gate
  MaxErrors  \* bound on the errors that resurrect emits

ASSUME ErrorsAssumption == MaxErrors \in Nat

VARIABLES
  capture, \* current_capture: if there is one, and the errors in it
  verb,    \* verb[h]: the call it waits for, if one of its calls went wrong (history), and
           \* what has come of the step that follows its outcome, if there is one
  replies, \* replies[h]: what has come of its replies
  emitted

verbsVars == <<capture, verb, replies, emitted>>

Errors == {"utf8", "bytes"} \* an error's text, which the encoder takes or not
Called == {"load_state", "restore_workspace", "save_state"}
After == {"none", "due", "done", "failed"}
Final == {"completed", "partial", "error", "lost"}
NoCapture == [on |-> FALSE, errors |-> <<>>]
EmptyCapture == [on |-> TRUE, errors |-> <<>>]

VerbsInit ==
  /\ capture = NoCapture
  /\ verb = [h \in Handlers |-> [at |-> "idle", wrong |-> FALSE, after |-> "none"]]
  /\ replies = [h \in Handlers |-> <<>>]
  /\ emitted = 0

VerbsIdle ==
  /\ capture = NoCapture
  /\ verb = [h \in Handlers |-> [at |-> "off", wrong |-> FALSE, after |-> "none"]]
  /\ replies = [h \in Handlers |-> <<>>]
  /\ emitted = 0

-----------------------------------------------------------------------------
(* A reply is lost with the binary's path, the key or the child process.   *)
(* One that cannot be encoded, its details holding the text as it is, is   *)
(* replaced by REPLY_ENCODE_FAILED.                                        *)
spawn_reply(status, text) ==
  {"lost", IF text = "bytes" /\ status \in {"partial", "error"} THEN "error" ELSE status}

\* The text of errors put together.
Joined(errors) == IF \E i \in DOMAIN errors : errors[i] = "bytes" THEN "bytes" ELSE "utf8"

First(errors) == IF errors = <<>> THEN "utf8" ELSE errors[1]

(* h ends with a last reply, after those in said.                          *)
Ends(h, said, status, text, wrong, after) ==
  /\ verb' = [verb EXCEPT ![h] = [at |-> "ended", wrong |-> @.wrong \/ wrong, after |-> after]]
  /\ \E r \in spawn_reply(status, text) : replies' = [replies EXCEPT ![h] = Append(said, r)]
  /\ UNCHANGED emitted

(* MUTANT of with_capture: it does without the assertion.                  *)
with_captureNested(h, said, fn, after) ==
  /\ capture' = EmptyCapture
  /\ verb' = [verb EXCEPT ![h] = [@ EXCEPT !.at = fn, !.after = after]]
  /\ replies' = [replies EXCEPT ![h] = said]
  /\ UNCHANGED emitted

(* Under way already, it raises, which verbs.dispatch answers.             *)
with_capture(h, said, fn, after) ==
  \/ /\ capture.on
     /\ Ends(h, said, "error", "utf8", TRUE, after)
     /\ UNCHANGED capture
  \/ /\ ~capture.on
     /\ capture' = EmptyCapture
     /\ verb' = [verb EXCEPT ![h] = [@ EXCEPT !.at = fn, !.after = after]]
     /\ replies' = [replies EXCEPT ![h] = said]
     /\ UNCHANGED emitted

-----------------------------------------------------------------------------
(* The verbs.  Those that call the mux answer its failure.                 *)

Answers(h) == Ends(h, <<>>, "completed", "utf8", FALSE, "none")
AnswersError(h) == \E text \in Errors : Ends(h, <<>>, "error", text, TRUE, "none")

noop(h) == Answers(h) /\ UNCHANGED capture
bootstrap(h) == Answers(h) /\ UNCHANGED capture
new(h) == (Answers(h) \/ AnswersError(h)) /\ UNCHANGED capture

resurrectUnavailable(h) == Ends(h, <<>>, "error", "utf8", TRUE, "none") /\ UNCHANGED capture

load_and_restore(h, after) ==
  \/ resurrectUnavailable(h)
  \/ \E s \in spawn_reply("started", "utf8") : with_capture(h, <<s>>, "load_state", after)

load(h) == load_and_restore(h, "none")

(* There already or live; new, where the cd that is typed into the pane,   *)
(* if there is one, may fail unnoticed; saved only.                        *)
switch(h) ==
  \/ (Answers(h) \/ AnswersError(h)) /\ UNCHANGED capture
  \/ /\ \E after \in {"done", "failed"} : Ends(h, <<>>, "completed", "utf8", FALSE, after)
     /\ UNCHANGED capture
  \/ load_and_restore(h, "due")

\* get_workspace_state may raise, outside of any capture.
save(h) ==
  \/ resurrectUnavailable(h)
  \/ AnswersError(h) /\ UNCHANGED capture
  \/ with_capture(h, <<>>, "save_state", "none")

dispatch(h) ==
  /\ verb[h].at = "idle"
  /\ noop(h) \/ bootstrap(h) \/ new(h) \/ switch(h) \/ load(h) \/ save(h)

-----------------------------------------------------------------------------
(* A call of resurrect returns.                                            *)

loadReturns(h) ==
  LET after == verb[h].after IN
  /\ verb[h].at = "load_state"
  /\ \/ /\ \E text \in Errors : Ends(h, replies[h], "error", text, TRUE, after)
        /\ capture' = NoCapture
     \/ /\ capture.errors # <<>>
        /\ Ends(h, replies[h], "error", Joined(capture.errors), FALSE, after)
        /\ capture' = NoCapture
     \/ /\ capture.errors = <<>> \* the empty state
        /\ Ends(h, replies[h], "error", "utf8", TRUE, after)
        /\ capture' = NoCapture
     \/ /\ capture.errors = <<>>
        /\ verb' = [verb EXCEPT ![h].at = "restore_workspace"]
        /\ capture' = EmptyCapture
        /\ UNCHANGED <<replies, emitted>>

\* A switch makes the workspace the active one, and only logs that this failed.
after_restore(h) == IF verb[h].after = "due" THEN {"done", "failed"} ELSE {"none"}

(* What restore_workspace raises is not in the reply, but what it emitted  *)
(* first; then nothing follows, the workspace not being there for sure.    *)
restoreReturns(h) ==
  /\ verb[h].at = "restore_workspace"
  /\ capture' = NoCapture
  /\ \/ Ends(h, replies[h], "partial", First(capture.errors), TRUE, verb[h].after)
     \/ \E after \in after_restore(h) :
          \/ /\ capture.errors # <<>>
             /\ Ends(h, replies[h], "partial", Joined(capture.errors), FALSE, after)
          \/ /\ capture.errors = <<>>
             /\ Ends(h, replies[h], "completed", "utf8", FALSE, after)

(* MUTANT of saveReturns: what the call raises passes with_capture by, and *)
(* with it the line that frees the slot.                                   *)
saveReturnsKeepingSlot(h) ==
  /\ verb[h].at = "save_state"
  /\ \/ /\ \E text \in Errors : Ends(h, replies[h], "error", text, TRUE, "none")
        /\ UNCHANGED capture
     \/ /\ capture.errors = <<>> /\ capture' = NoCapture
        /\ Ends(h, replies[h], "completed", "utf8", FALSE, "none")

saveReturns(h) ==
  /\ verb[h].at = "save_state"
  /\ capture' = NoCapture
  /\ \/ \E text \in Errors : Ends(h, replies[h], "error", text, TRUE, "none")
     \/ /\ capture.errors # <<>>
        /\ Ends(h, replies[h], "error", Joined(capture.errors), FALSE, "none")
     \/ /\ capture.errors = <<>>
        /\ Ends(h, replies[h], "completed", "utf8", FALSE, "none")

-----------------------------------------------------------------------------
(* resurrect emits an error: into the capture if there is one, or else     *)
(* into the log only.                                                      *)
on_resurrect_error(text) ==
  /\ emitted < MaxErrors
  /\ emitted' = emitted + 1
  /\ capture' = IF capture.on THEN [capture EXCEPT !.errors = Append(@, text)] ELSE capture
  /\ UNCHANGED replies

Emit(h) ==
  /\ verb[h].at \in Called
  /\ \E text \in Errors : on_resurrect_error(text)
  /\ verb' = [verb EXCEPT ![h].wrong = TRUE]

PeriodicSave ==
  /\ \E h \in Handlers : verb[h].at # "off"
  /\ \E text \in Errors : on_resurrect_error(text)
  /\ UNCHANGED verb

VerbsStep(h) == loadReturns(h) \/ restoreReturns(h) \/ saveReturns(h)

VerbsNext == PeriodicSave \/ \E h \in Handlers : dispatch(h) \/ Emit(h) \/ VerbsStep(h)

VerbsSpec == VerbsInit /\ [][VerbsNext]_verbsVars

-----------------------------------------------------------------------------
(* Every request that reaches a verb is answered exactly once for good,    *)
(* with nothing after and at most a started before, whatever raises on the *)
(* way; and a completed reply means that what was loaded, restored, saved, *)
(* spawned, renamed or switched to did not raise, emit an error or come    *)
(* back empty - though verbs overlap and share the one slot for what is    *)
(* emitted - and that a restored workspace's activation was tried.  That   *)
(* it, or a new workspace's cd, succeeded a completed reply does not say.  *)
AnswersTellOutcome ==
  \A h \in Handlers :
    /\ verb[h].at = "ended" =>
         /\ Len(replies[h]) \in {1, 2}
         /\ replies[h][Len(replies[h])] \in Final
         /\ Len(replies[h]) = 2 => replies[h][1] \in {"started", "lost"}
         /\ replies[h][Len(replies[h])] = "completed" => ~verb[h].wrong /\ verb[h].after # "due"
    /\ verb[h].at # "ended" => \A i \in DOMAIN replies[h] : replies[h][i] \in {"started", "lost"}
=============================================================================
