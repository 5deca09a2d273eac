------------------------------- MODULE Dialog -------------------------------
(***************************************************************************)
(* The Dialog module (src/modules/dialog.c) with the parts of main()       *)
(* (src/main.c) that start it up and shut it down.  The script opens the   *)
(* message box or the on-screen keyboard, which then live a life of their  *)
(* own in the system: they are drawn by update(), answered by the user,    *)
(* and keep pointers into the module's static buffers.                     *)
(*                                                                         *)
(* A text of the keyboard is a sequence of characters or UTF-16 units, see *)
(* DialogText; titles and messages are left out.                           *)
(* Reading a property of an options object runs no script code.            *)
(***************************************************************************)
EXTENDS Integers, DialogText, Functions

CONSTANTS
  MaxDialogs,  \* bound on the dialogs opened
  MaxText,     \* SCE_IME_DIALOG_MAX_TEXT_LENGTH
  Preloads     \* the sets of system modules that may be loaded before the program

Modules  == {"APPUTIL", "IME"}

ASSUME DialogAssumption ==
  MaxDialogs \in Nat /\ MaxText \in Nat \ {0} /\ Preloads \subseteq SUBSET Modules

VARIABLES
  at,                         \* where main() is
  preloaded,                  \* system modules that were loaded before the program
  loaded,                     \* system modules loaded now
  loaded_by_us,               \* apputil_module_loaded_by_us, ime_module_loaded_by_us
  apputil,                    \* TRUE iff sceAppUtilInit is in effect
  common_dialog_initialized,
  current_dialog,             \* "NONE", "MESSAGE" or "IME"
  message_button_type,        \* layout of the message box
  ime_input,                  \* [of, text, meant]: the units in the keyboard's buffer, the
                              \* dialog they are for and the text they should stand for
  native,                     \* kind -> the system's dialog of that kind
  stranded,                   \* kinds of which a failed system call left a dialog behind
  number,                     \* dialogs opened so far
  collected,                  \* dialogs whose result the script has, with their outcome
  last                        \* the last result, until the next dialog is opened

results == <<collected, last>>
system == <<preloaded, loaded, loaded_by_us, apputil, common_dialog_initialized>>
dialogs == <<native, stranded>>
vars   == <<at, system, current_dialog, message_button_type, ime_input, dialogs,
            number, results>>

Kinds    == {"MESSAGE", "IME"}
Layouts  == {"ok", "yesNo", "okCancel", "cancel", "none"}
Outcomes == {"ok", "canceled", "aborted"}

\* button: 0 none, 1 and 2 the first and second button; ENTER is 1, CLOSE is 2.
NoResult == [type |-> "NONE"]
NoText == [of |-> 0, text |-> <<>>, meant |-> <<>>]
Closed == [status |-> "none", id |-> 0, drawn |-> FALSE, layout |-> "none",
           max |-> 0, aborting |-> FALSE, outcome |-> "none", button |-> 0]
Stray  == [Closed EXCEPT !.status = "finished"]

Init ==
  /\ at = "boot"
  /\ preloaded \in Preloads /\ loaded = preloaded
  /\ loaded_by_us = {} /\ apputil = FALSE /\ common_dialog_initialized = FALSE
  /\ current_dialog = "NONE" /\ message_button_type = "ok"
  /\ ime_input = NoText
  /\ native = [k \in Kinds |-> Closed] /\ stranded = {}
  /\ number = 0 /\ collected = {} /\ last = NoResult

-----------------------------------------------------------------------------
(* Start-up and shutdown *)

\* vitajs_dialog_system_init(): load AppUtil unless it is there, initialize it,
\* configure the common dialogs.  A failed init ends the program.
system_init ==
  /\ at = "boot"
  /\ \/ at' = "exited" /\ UNCHANGED system
     \/ /\ loaded' = loaded \cup {"APPUTIL"} /\ loaded_by_us' = {"APPUTIL"} \ loaded
        /\ \/ at' = "exited" /\ UNCHANGED <<apputil, common_dialog_initialized>>
           \/ at' = "graphics" /\ apputil' = TRUE /\ common_dialog_initialized' = TRUE
        /\ UNCHANGED preloaded
  /\ UNCHANGED <<current_dialog, message_button_type, ime_input, dialogs, number, results>>

GraphicsStarts ==
  /\ at = "graphics" /\ at' = "script"
  /\ UNCHANGED <<system, current_dialog, message_button_type, ime_input, dialogs, number, results>>

\* The system keeps a dialog that has ended.  Nobody can ask for its result any more.
LeftBehind(k) ==
  native' = [native EXCEPT ![k] = Stray] /\ stranded' = stranded \cup {k}

\* sceMsgDialogTerm or sceImeDialogTerm succeeds; when it fails the dialog is left behind.
NativeTerm(k) == native' = [native EXCEPT ![k] = Closed] /\ UNCHANGED stranded

\* The open dialog is terminated, and forgotten whether or not that succeeds.
Shut ==
  /\ \/ current_dialog = "NONE" /\ UNCHANGED dialogs
     \/ current_dialog # "NONE" /\ NativeTerm(current_dialog)
     \/ current_dialog # "NONE" /\ LeftBehind(current_dialog)
  /\ current_dialog' = "NONE"

\* Mutation: the keyboard's module is forgotten.
system_shutdownKeepsIme ==
  /\ at \in {"graphics", "script"} /\ at' = "exited"
  /\ Shut
  /\ loaded' = loaded \ (loaded_by_us \ {"IME"}) /\ loaded_by_us' = {}
  /\ apputil' = FALSE /\ common_dialog_initialized' = FALSE
  /\ UNCHANGED <<preloaded, message_button_type, ime_input, number, results>>

\* vita2d_init() fails, or the script has ended and START was pressed: abort and
\* terminate the open dialog, unload what was loaded, shut AppUtil down.
system_shutdown ==
  /\ at \in {"graphics", "script"} /\ at' = "exited"
  /\ Shut
  /\ loaded' = loaded \ loaded_by_us /\ loaded_by_us' = {}
  /\ apputil' = (apputil /\ ~common_dialog_initialized)
  /\ common_dialog_initialized' = FALSE
  /\ UNCHANGED <<preloaded, message_button_type, ime_input, number, results>>

-----------------------------------------------------------------------------
(* Dialog.message() and Dialog.keyboard() *)

\* A dialog can be opened: another open one, or a missing initialization, throws.
CanOpen == at = "script" /\ current_dialog = "NONE" /\ common_dialog_initialized

\* The system opens a dialog of kind k if it has none; one that was left behind makes
\* every later call fail.
NativeInit(k, layout, max) ==
  /\ native[k] = Closed /\ number < MaxDialogs
  /\ number' = number + 1 /\ last' = NoResult /\ UNCHANGED stranded
  /\ native' = [native EXCEPT ![k] = [Closed EXCEPT !.status = "running", !.id = number',
                                                    !.layout = layout, !.max = max]]

\* Mutation: the arguments are read before the check for an open dialog.
message_failsAnyTime(layout) ==
  /\ at = "script" /\ message_button_type' = layout
  /\ UNCHANGED <<at, system, current_dialog, ime_input, dialogs, number, results>>

\* The layout is stored; it is unknown, or sceMsgDialogInit fails, or no dialog is
\* running after it: there is none, or there is one that has finished already, and it
\* is left behind.
message_fails(layout) ==
  /\ CanOpen /\ message_button_type' = layout
  /\ \/ UNCHANGED dialogs
     \/ layout # "unknown" /\ native["MESSAGE"] = Closed /\ LeftBehind("MESSAGE")
  /\ UNCHANGED <<at, system, current_dialog, ime_input, number, results>>

\* Mutation: no check for an open dialog.
messageAnyTime(layout) ==
  /\ at = "script" /\ message_button_type' = layout
  /\ NativeInit("MESSAGE", layout, 0)
  /\ current_dialog' = "MESSAGE"
  /\ UNCHANGED <<at, system, ime_input, collected>>

message(layout) ==
  /\ CanOpen /\ message_button_type' = layout
  /\ NativeInit("MESSAGE", layout, 0)
  /\ current_dialog' = "MESSAGE"
  /\ UNCHANGED <<at, system, ime_input, collected>>

ensure_ime_module_loaded ==
  /\ loaded' = loaded \cup {"IME"}
  /\ loaded_by_us' = loaded_by_us \cup ({"IME"} \ loaded)
  /\ UNCHANGED <<preloaded, apputil, common_dialog_initialized>>

\* Mutation: maxLength is not checked.
LengthAllowedAny(max) == TRUE

LengthAllowed(max) == max \in 1 .. MaxText

\* The initial text as its buffer holds it, and then cut off at maxLength.
Initial(max, text) ==
  LET initial == utf8_to_utf16(text, MaxText + 1)
  IN IF Len(initial) > max THEN SubSeq(initial, 1, max) ELSE initial

\* What the user sees: the initial text, if it is one that fits.
Lost == <<"lost">>
Shown(max, text) ==
  IF Len(UnitsOf(text)) <= max /\ "s" \notin Range(text) THEN text ELSE Lost

\* The module cannot be loaded, and nothing happens; or the buffers are cleared and
\* an argument is invalid.
keyboard_fails ==
  /\ CanOpen
  /\ ensure_ime_module_loaded
  /\ ime_input' = NoText
  /\ UNCHANGED <<at, current_dialog, message_button_type, dialogs, number, results>>

\* The initial text was copied when an argument after it is found to be invalid, or
\* sceImeDialogInit fails.
keyboard_failsLate(max, text) ==
  /\ CanOpen /\ LengthAllowed(max)
  /\ ensure_ime_module_loaded
  /\ ime_input' = [of |-> 0, text |-> Initial(max, text), meant |-> Shown(max, text)]
  /\ UNCHANGED <<at, current_dialog, message_button_type, dialogs, number, results>>

keyboard(max, text) ==
  /\ CanOpen /\ LengthAllowed(max)
  /\ ensure_ime_module_loaded
  /\ NativeInit("IME", "none", max)
  /\ ime_input' = [of |-> number', text |-> Initial(max, text), meant |-> Shown(max, text)]
  /\ current_dialog' = "IME"
  /\ UNCHANGED <<at, message_button_type, collected>>

-----------------------------------------------------------------------------
(* The open dialog *)

\* status(): the native status of the open dialog.
get_native_status ==
  IF current_dialog = "NONE" THEN "none" ELSE native[current_dialog].status

\* update() draws the open dialog; without it the user sees nothing to answer.
update ==
  /\ at = "script" /\ get_native_status = "running"
  /\ native' = [native EXCEPT ![current_dialog].drawn = TRUE]
  /\ UNCHANGED <<at, system, current_dialog, message_button_type, ime_input, stranded, number, results>>

\* The buttons a user can press, by the ids message_button_name() knows.
ButtonIds(k) ==
  IF k = "IME" \/ native[k].layout \in {"yesNo", "okCancel", "cancel"} THEN {1, 2}
  ELSE IF native[k].layout = "none" THEN {} ELSE {1}

NativeFinishes(k, ending, button) ==
  /\ native[k].status = "running"
  /\ native' = [native EXCEPT ![k].status = "finished", ![k].outcome = ending,
                              ![k].button = button]
  /\ UNCHANGED <<at, system, current_dialog, message_button_type, stranded, number, results>>

\* Texts of at most n characters.
Texts(n, chars) == UNION {[1 .. k -> chars] : k \in 0 .. n}

\* The user writes or not, and presses a button, or cancels without one, perhaps while
\* abort() is under way.
UserAnswers(k) ==
  /\ at = "script" /\ native[k].drawn /\ ButtonIds(k) # {}
  /\ \/ \E button \in ButtonIds(k) : NativeFinishes(k, "ok", button)
     \/ \E button \in ButtonIds(k) \cup {0} : NativeFinishes(k, "canceled", button)
  /\ IF k = "IME"
     THEN \/ UNCHANGED ime_input
          \/ \E text \in Texts(native[k].max, {"b", "a"}) :
               /\ Len(UnitsOf(text)) <= native[k].max
               /\ ime_input' = [of |-> native[k].id, text |-> UnitsOf(text), meant |-> text]
     ELSE UNCHANGED ime_input

\* The dialog obeys abort().
NativeAborts(k) ==
  /\ at = "script" /\ native[k].aborting
  /\ NativeFinishes(k, "aborted", 0)
  /\ UNCHANGED ime_input

\* sceMsgDialogAbort / sceImeDialogAbort; on a finished dialog they fail.
abort ==
  /\ at = "script" /\ get_native_status = "running"
  /\ native' = [native EXCEPT ![current_dialog].aborting = TRUE]
  /\ UNCHANGED <<at, system, current_dialog, message_button_type, ime_input, stranded, number, results>>

\* The name of the button that was pressed.
message_button_name(button) ==
  CASE message_button_type = "yesNo" /\ button = 1 -> "yes"
    [] message_button_type = "yesNo" /\ button = 2 -> "no"
    [] message_button_type \in {"ok", "okCancel"} /\ button = 1 -> "ok"
    [] message_button_type = "okCancel" /\ button = 2 -> "cancel"
    [] message_button_type = "cancel" /\ button \in {1, 2} -> "cancel"
    [] OTHER -> "invalid"

\* What result() hands to the script.
Result ==
  [id |-> native[current_dialog].id, type |-> current_dialog,
   result |-> native[current_dialog].outcome,
   buttonId |-> native[current_dialog].button,
   button |-> IF current_dialog = "MESSAGE"
              THEN message_button_name(native[current_dialog].button)
              ELSE IF native[current_dialog].outcome = "ok" /\ native[current_dialog].button = 1
              THEN "confirmed" ELSE "not confirmed",
   text |-> IF current_dialog = "IME"
            THEN [ime_input EXCEPT !.text = utf16_to_utf8(@)] ELSE NoText]

Collect ==
  /\ collected' = collected \cup {<<Result.id, Result.result>>}
  /\ last' = Result

\* Mutation: the dialog is not terminated.
resultNoTerm ==
  /\ at = "script" /\ get_native_status = "finished"
  /\ Collect
  /\ current_dialog' = "NONE"
  /\ UNCHANGED <<at, system, message_button_type, ime_input, dialogs, number>>

\* Mutation: current_dialog is not reset.
resultStaysOpen ==
  /\ at = "script" /\ get_native_status = "finished"
  /\ Collect
  /\ UNCHANGED <<at, system, current_dialog, message_button_type, ime_input, dialogs, number>>

\* result(): null until the dialog has finished; then the dialog is terminated and its
\* result handed out.  When the result object cannot be made nothing changes, and the
\* script may ask again.  When the dialog cannot be terminated the module forgets it
\* all the same and throws: the result is lost, and the system keeps the dialog.
result ==
  /\ at = "script" /\ get_native_status = "finished"
  /\ \/ Collect /\ NativeTerm(current_dialog)
     \/ UNCHANGED results /\ LeftBehind(current_dialog)
  /\ current_dialog' = "NONE"
  /\ UNCHANGED <<at, system, message_button_type, ime_input, number>>

-----------------------------------------------------------------------------

Open ==
  \/ \E layout \in Layouts : message(layout)
  \/ \E layout \in Layouts \cup {"unknown"} : message_fails(layout)
  \/ \E max \in 0 .. MaxText + 1, text \in Texts(MaxText, {"b", "a", "s"}) :
       keyboard(max, text) \/ keyboard_failsLate(max, text)
  \/ keyboard_fails

Answer == \E k \in Kinds : UserAnswers(k) \/ NativeAborts(k)

Next ==
  \/ system_init \/ GraphicsStarts \/ system_shutdown
  \/ Open \/ update \/ abort \/ result \/ Answer

Spec == Init /\ [][Next]_vars

\* The script's game loop draws the dialog and asks for its result frame after
\* frame, as the documentation demands, and dialogs that can be answered, or were
\* told to abort, finish.
FairSpec == Spec /\ WF_vars(update) /\ WF_vars(result) /\ WF_vars(Answer)

-----------------------------------------------------------------------------
(* Properties *)

NativeType ==
  [status : {"none", "running", "finished"}, id : 0 .. MaxDialogs, drawn : BOOLEAN,
   layout : Layouts, max : 0 .. MaxText, aborting : BOOLEAN,
   outcome : Outcomes \cup {"none"}, button : 0 .. 2]

StateOK ==
  /\ at \in {"boot", "graphics", "script", "exited"}
  /\ preloaded \subseteq Modules /\ loaded \subseteq Modules /\ loaded_by_us \subseteq Modules
  /\ apputil \in BOOLEAN /\ common_dialog_initialized \in BOOLEAN
  /\ current_dialog \in Kinds \cup {"NONE"}
  /\ message_button_type \in Layouts \cup {"unknown"}
  /\ native \in [Kinds -> NativeType]
  /\ (native["IME"].status = "running" => native["IME"].max > 0)
  /\ stranded \subseteq Kinds
  /\ number \in 0 .. MaxDialogs

BufferOK == ime_input.of \in 0 .. MaxDialogs /\ ime_input.text \in Texts(MaxText, Units)

\* The types of the variables; the keyboard is never given a length outside
\* 1 .. SCE_IME_DIALOG_MAX_TEXT_LENGTH, nor a text longer than its buffer.
TypeOK == StateOK /\ BufferOK

\* Every native dialog has one owner.  It is the module, which waits for no dialog that
\* is gone, or it is one of those a failed system call left behind: result() could not
\* terminate it, system_shutdown() could not, or it was not running when
\* sceMsgDialogInit had opened it.  Nothing else orphans a dialog, and while one is
\* left behind the module never takes it for a new one of its kind.
NoOrphan ==
  \A k \in Kinds :
    /\ native[k].status # "none" <=> current_dialog = k \/ k \in stranded
    /\ ~(current_dialog = k /\ k \in stranded)

ResultsOwn ==
  /\ last.type = "MESSAGE" => (last.button = "invalid" <=> last.buttonId = 0)
  /\ last.type = "IME" => last.text.of = last.id

TextSurvives ==
  last.type = "IME" =>
    /\ last.text.meant # Lost => last.text.text = last.text.meant
    /\ Range(last.text.text) \subseteq {"b", "a", "r"}

\* The buffers an open dialog points to are not touched by calls that fail: every
\* message is reported with a button of its own layout ("invalid" is left for those
\* that ended without a button), and every keyboard with its own text.  That is the
\* text the user wrote or, unless it did not fit, the initial text, whatever the
\* conversions between UTF-8 and UTF-16 did to it, and it is well-formed always.
ResultsTruthful == ResultsOwn /\ TextSurvives

\* AppUtil is there as long as the script runs, so that System's read_language()
\* never starts it a second time; a keyboard needs its module; and the program leaves the
\* system's modules as it found them, unless it could not even start.
ModulesRestored ==
  /\ at = "script" => apputil
  /\ current_dialog = "IME" => "IME" \in loaded
  /\ at = "exited" /\ loaded_by_us = {} => loaded = preloaded /\ ~apputil

Status == get_native_status
Outcome == IF current_dialog = "NONE" THEN "none" ELSE native[current_dialog].outcome
Ended == at = "exited"
Abstract == INSTANCE DialogSpec WITH
  status <- Status, outcome <- Outcome, results <- collected, ended <- Ended

\* The Dialog module keeps the promises of DialogSpec: one dialog at a time, each
\* answered once, with its own outcome, even if abort() races the user; a result is
\* lost only when a finished dialog cannot be terminated.
OneAtATime == Abstract!Spec

\* A dialog that can be answered, or is aborted, is closed in the end: only a box
\* without buttons that was not told to abort may stay open for ever.
DialogCloses ==
  current_dialog # "NONE" ~>
    \/ current_dialog = "NONE"
    \/ /\ current_dialog = "MESSAGE" /\ native["MESSAGE"].layout = "none"
       /\ ~native["MESSAGE"].aborting

=============================================================================
