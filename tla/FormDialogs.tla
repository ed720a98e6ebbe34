------------------------------ MODULE FormDialogs ------------------------------
(***************************************************************************)
(* The forms of the staff pages.  A form is loaded into a dialog with a    *)
(* token, and sent in the background with it; the server takes the token   *)
(* out of the pool of the session before the handler runs, and gives a new *)
(* one with the errors of a form that was not accepted.  The page keeps    *)
(* its dialogs on a stack of its own, and the answer to a form that was    *)
(* saved closes the dialog on top of it.                                   *)
(*                                                                         *)
(* Answers arrive in any order, late, or not at all; a dialog takes its    *)
(* time to fade.  One page of one session; what forms hold is left out,    *)
(* and so are the messages shown, sessions that end, and what two threads  *)
(* make of the inside of the list of tokens.                               *)
(***************************************************************************)
EXTENDS Integers, FiniteSets, Sequences, SequencesExt

CONSTANTS
    NDialogs,   \* bound on the dialogs opened
    NRequests,  \* bound on the forms sent
    None

ASSUME FormsAssumption ==
    NDialogs \in Nat /\ NRequests \in Nat /\ None \notin Nat

Dialogs  == 1..NDialogs
Requests == 1..NRequests

VARIABLES
    stack,      \* Dialog.dialogStack
    open,       \* the dialogs that can be used, the topmost last
    hiding,     \* the dialogs that fade, the first to be gone first
    loads,      \* dialogs asked for and not there yet
    form,       \* form[d]: token, hidden token field and button of a dialog
    req,        \* the forms sent, in order
    pool,       \* TOKEN_POOL of the session
    issued,     \* tokens made so far
    saves,      \* history: saves[d]: how often the form of d was saved
    raced,      \* history: dialogs two of whose requests held one token
    hurt,       \* history: dialogs with an answer that failed or was lost
    turned,     \* history: requests awaited while a dialog came or went
    mixed       \* history: a dialog came while another faded

vars == <<stack, open, hiding, loads, form, req, pool, issued,
          saves, raced, hurt, turned, mixed>>

client == <<stack, open, hiding, loads, turned, mixed>>

Init ==
    /\ stack = <<>> /\ open = <<>> /\ hiding = <<>> /\ loads = 0
    /\ form = <<>> /\ req = <<>> /\ pool = {} /\ issued = 0
    /\ saves = <<>> /\ raced = {} /\ hurt = {} /\ turned = {} /\ mixed = FALSE

OnScreen == {open[i] : i \in DOMAIN open} \union {hiding[i] : i \in DOMAIN hiding}

Awaited == {r \in DOMAIN req : req[r].awaited}

\* What the form sends: the hidden field a request added, while it is there.
Sends(f) == IF f.field # None THEN f.field ELSE f.token

-----------------------------------------------------------------------------
(* Dialogs *)

\* A link is clicked; a fading dialog covers what is under it.
Create ==
    /\ hiding = <<>>
    /\ Len(form) + loads < NDialogs
    /\ loads' = loads + 1
    /\ UNCHANGED <<stack, open, hiding, form, req, pool, issued,
                   saves, raced, hurt, turned, mixed>>

\* The dialog arrives, its form with a new token, and is pushed.
Show ==
    /\ loads > 0
    /\ LET d == Len(form) + 1
       IN  /\ loads' = loads - 1
           /\ stack' = Append(stack, d)
           /\ open' = Append(open, d)
           /\ form' = Append(form, [token |-> issued + 1, field |-> None, button |-> "ready"])
           /\ saves' = Append(saves, 0)
    /\ issued' = issued + 1
    /\ pool' = pool \union {issued + 1}
    /\ turned' = turned \union Awaited
    /\ mixed' = (mixed \/ hiding # <<>>)
    /\ UNCHANGED <<hiding, req, raced, hurt>>

\* It does not arrive.
NotShown ==
    /\ loads > 0
    /\ loads' = loads - 1
    /\ UNCHANGED <<stack, open, hiding, form, req, pool, issued,
                   saves, raced, hurt, turned, mixed>>

\* Closing a dialog that is fading, or gone, does nothing.
Closed(d) ==
    \/ \E i \in DOMAIN open :
         /\ open[i] = d
         /\ open' = RemoveAt(open, i)
         /\ hiding' = Append(hiding, d)
         /\ turned' = turned \union Awaited
    \/ /\ \A i \in DOMAIN open : open[i] # d
       /\ UNCHANGED <<open, hiding, turned>>

\* The user closes the topmost dialog, whatever its form waits for.
Close ==
    /\ hiding = <<>> /\ open # <<>>
    /\ Closed(Last(open))
    /\ UNCHANGED <<stack, loads, form, req, pool, issued, saves, raced, hurt, mixed>>

\* A mistake the code does not make: a dialog that has faded stays on the stack.
HiddenKeepsStack ==
    /\ hiding # <<>>
    /\ hiding' = Tail(hiding)
    /\ mixed' = (mixed /\ OnScreen # {Head(hiding)})
    /\ UNCHANGED <<stack, open, loads, form, req, pool, issued, saves, raced, hurt, turned>>

\* A dialog has faded: the last of the stack is popped, whichever it is.
Hidden ==
    /\ hiding # <<>>
    /\ hiding' = Tail(hiding)
    /\ stack' = Front(stack)
    /\ mixed' = (mixed /\ OnScreen # {Head(hiding)})
    /\ UNCHANGED <<open, loads, form, req, pool, issued, saves, raced, hurt, turned>>

-----------------------------------------------------------------------------
(* Forms *)

\* The form on top is sent.  The button is disabled by a timer, so a second
\* click may come before that.  Only the request that adds the field with the
\* token removes it.
Submit ==
    /\ hiding = <<>> /\ open # <<>> /\ Len(req) < NRequests
    /\ LET d == Last(open)
       IN  /\ form[d].button # "loading"
           /\ req' = Append(req, [dialog |-> d, token |-> Sends(form[d]),
                                  dynamic |-> form[d].field = None, at |-> "sent",
                                  fresh |-> None, awaited |-> TRUE])
           /\ form' = [form EXCEPT ![d].field = Sends(form[d]), ![d].button = "clicked"]
    /\ UNCHANGED <<pool, issued, saves, raced, hurt, client>>

DisableButton(d) ==
    /\ form[d].button = "clicked"
    /\ form' = [form EXCEPT ![d].button = "loading"]
    /\ UNCHANGED <<req, pool, issued, saves, raced, hurt, client>>

\* What every answer does in the end, and a connection that breaks.
Always(r, token) ==
    /\ req' = [req EXCEPT ![r].awaited = FALSE]
    /\ form' = [form EXCEPT
            ![req[r].dialog] = [token |-> token,
                                field |-> IF req[r].dynamic THEN None ELSE @.field,
                                button |-> "ready"]]

TokenOf(r) == form[req[r].dialog].token

\* The form was saved: the dialog on top of the stack is closed.  Without any
\* the callback fails, and nothing after it is done.
Success(r) ==
    /\ r \in Awaited /\ req[r].at = "saved"
    /\ \/ /\ stack = <<>>
          /\ req' = [req EXCEPT ![r].awaited = FALSE]
          /\ UNCHANGED <<form, open, hiding, turned>>
       \/ /\ stack # <<>>
          /\ Always(r, TokenOf(r))
          /\ Closed(Last(stack))
    /\ UNCHANGED <<stack, loads, pool, issued, saves, raced, hurt, mixed>>

\* A mistake the code does not make: the form does not take the new token.
ErrorKeepsToken(r) ==
    /\ r \in Awaited /\ req[r].at \in {"invalid", "refused"}
    /\ Always(r, TokenOf(r))
    /\ UNCHANGED <<pool, issued, saves, raced, hurt, client>>

\* The form was not accepted: it takes the new token.  A form that was refused
\* for its token gets no other and keeps the one it has.
Error(r) ==
    /\ r \in Awaited /\ req[r].at \in {"invalid", "refused"}
    /\ Always(r, IF req[r].fresh = None THEN TokenOf(r) ELSE req[r].fresh)
    /\ UNCHANGED <<pool, issued, saves, raced, hurt, client>>

\* The handler threw, or the connection broke, before or after it ran.
Failed(r) ==
    /\ r \in Awaited
    /\ Always(r, TokenOf(r))
    /\ hurt' = hurt \union {req[r].dialog}
    /\ UNCHANGED <<pool, issued, saves, raced, client>>

-----------------------------------------------------------------------------
(* The server *)

\* The interceptor looks for the token...
CheckToken(r) ==
    /\ req[r].at = "sent"
    /\ req' = [req EXCEPT ![r].at = IF req[r].token \in pool THEN "checked" ELSE "refused"]
    /\ UNCHANGED <<form, pool, issued, saves, raced, hurt, client>>

\* A mistake the code does not make: the token is removed once the form is saved.
RemoveTokenLate(r) ==
    /\ req[r].at = "checked"
    /\ req' = [req EXCEPT ![r].at = "accepted"]
    /\ UNCHANGED <<form, pool, issued, saves, raced, hurt, client>>

\* ...and the request that found it removes it.
RemoveToken(r) ==
    /\ req[r].at = "checked"
    /\ pool' = pool \ {req[r].token}
    /\ req' = [req EXCEPT ![r].at = "accepted"]
    /\ raced' = IF \E q \in DOMAIN req \ {r} : /\ req[q].at = "checked"
                                               /\ req[q].token = req[r].token
                THEN raced \union {req[r].dialog} ELSE raced
    /\ UNCHANGED <<form, issued, saves, hurt, client>>

\* The handler saves, or finds errors, for which the answer gets a new token,
\* or throws, having saved or not.
Handle(r) ==
    LET saved == saves' = [saves EXCEPT ![req[r].dialog] = @ + 1]
    IN  /\ req[r].at = "accepted"
        /\ \/ /\ req' = [req EXCEPT ![r].at = "saved"]
              /\ saved
              /\ UNCHANGED <<pool, issued>>
           \/ /\ req' = [req EXCEPT ![r].at = "invalid", ![r].fresh = issued + 1]
              /\ issued' = issued + 1
              /\ pool' = pool \union {issued + 1}
              /\ UNCHANGED saves
           \/ /\ req' = [req EXCEPT ![r].at = "thrown"]
              /\ saved \/ UNCHANGED saves
              /\ UNCHANGED <<pool, issued>>
        /\ UNCHANGED <<form, raced, hurt, client>>

Next ==
    \/ Create \/ Show \/ NotShown \/ Close \/ Hidden \/ Submit
    \/ \E d \in DOMAIN form : DisableButton(d)
    \/ \E r \in DOMAIN req :
        \/ CheckToken(r) \/ RemoveToken(r) \/ Handle(r)
        \/ Success(r) \/ Error(r) \/ Failed(r)

Spec == Init /\ [][Next]_vars

-----------------------------------------------------------------------------
(* Properties *)

FormRow == [token : Nat, field : Nat \union {None}, button : {"ready", "clicked", "loading"}]

Steps == {"sent", "checked", "refused", "accepted", "saved", "invalid", "thrown"}

ReqRow == [dialog : Dialogs, token : Nat, dynamic : BOOLEAN, at : Steps,
           fresh : Nat \union {None}, awaited : BOOLEAN]

TypeOK ==
    /\ form \in Seq(FormRow) /\ loads \in Nat /\ Len(form) + loads <= NDialogs
    /\ req \in Seq(ReqRow) /\ Len(req) <= NRequests
    /\ \A r \in DOMAIN req : req[r].dialog \in DOMAIN form
    /\ stack \in Seq(DOMAIN form) /\ open \in Seq(DOMAIN form) /\ hiding \in Seq(DOMAIN form)
    /\ Len(stack) = Len(open) + Len(hiding)
    /\ issued \in Nat /\ pool \subseteq 1..issued
    /\ saves \in Seq(Nat) /\ Len(saves) = Len(form)
    /\ raced \subseteq DOMAIN form /\ hurt \subseteq DOMAIN form
    /\ turned \subseteq DOMAIN req /\ mixed \in BOOLEAN

\* A form is saved once, however often it is sent: a second click, a click
\* after an answer that was lost, or after the handler threw, finds the token
\* gone (TokenInterceptor.java:29-46, "to prevent a form from being submitted
\* twice").  It fails only when two requests look for the token before either
\* removes it: the list is neither locked nor asked what it removed.
SavedOnce == \A d \in DOMAIN saves \ raced : saves[d] <= 1

\* A form that waits for nothing and was not saved can be sent: the token it
\* would send is one the server has, through double clicks and answers in any
\* order, with the field that outlives the answer of another request
\* (dialog.js:478-530, TokenControllerAdvice.java:31-44).  Only an answer that
\* failed or was lost leaves a form that is refused from then on.
UsableToken ==
    \A i \in DOMAIN open :
        LET d == open[i]
        IN  (\A r \in Awaited : req[r].dialog # d) /\ saves[d] = 0 /\ d \notin hurt
                => Sends(form[d]) \in pool

\* The answer to a saved form closes the dialog of the form
\* (dialog.js:415-430): unless a dialog came or went while it was awaited, or
\* the stack had popped the wrong dialog, because one came while another faded.
ClosesItsOwn ==
    [][\A r \in DOMAIN req :
         r \in Awaited \ turned /\ ~mixed /\ Success(r)
             => \E i \in DOMAIN open :
                    open[i] = req[r].dialog /\ open' = RemoveAt(open, i)]_vars
=============================================================================
