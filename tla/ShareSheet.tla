----------------------------- MODULE ShareSheet -----------------------------
(***************************************************************************)
(* ShareModal: the sheet over a moment or a photo that makes a share and   *)
(* shows its link.  It is mounted as long as the screen below it has its   *)
(* target, open or not.  Expiry and EXIF policy are chosen alike and are   *)
(* one option here; a password counts from four characters on.             *)
(***************************************************************************)
EXTENDS Naturals

CONSTANTS
    Target,   \* the moments and photos that can be shared
    MaxLinks  \* bound: requests sent

VARIABLES
    sheet,    \* the mounted sheet of each target's screen
    creating  \* the requests: own while the sheet that sent it is mounted

Form == [option: {"default", "other"}, password: {"none", "short", "long"}]
DefaultForm == [option |-> "default", password |-> "none"]

\* What the server is asked for, and what stands behind a link.
Body == [target: Target, option: {"default", "other"}, locked: BOOLEAN]
NoLink == [target |-> "none"]

\* left: the user closed the sheet while its request was under way.
Unmounted == [mounted |-> FALSE, visible |-> FALSE, form |-> DefaultForm, link |-> NoLink,
              left |-> FALSE]
Unsent == [pc |-> "unsent", own |-> FALSE, body |-> NoLink]
Call == 1 .. MaxLinks

Init ==
    /\ sheet = [t \in Target |-> Unmounted]
    /\ creating = [c \in Call |-> Unsent]

----------------------------------------------------------------------------

\* The screen has its target, or goes: the sheet with it, but not its request.
Mount(t) ==
    /\ sheet' = [sheet EXCEPT ![t] = [Unmounted EXCEPT !.mounted = TRUE]]
    /\ UNCHANGED creating
Unmount(t) ==
    /\ sheet' = [sheet EXCEPT ![t] = Unmounted]
    /\ creating' = [c \in Call |-> IF creating[c].body.target = t
                                   THEN [creating[c] EXCEPT !.own = FALSE] ELSE creating[c]]

\* The screens' share button; disabled without the target.
Open(t) ==
    /\ sheet[t].mounted /\ ~sheet[t].visible
    /\ sheet' = [sheet EXCEPT ![t].visible = TRUE]
    /\ UNCHANGED creating

\* createMutation.isPending
IsPending(t) == \E c \in Call : creating[c].pc = "sent" /\ creating[c].own
                                /\ creating[c].body.target = t

\* The form is there until there is a link, and takes no input while a request is pending.
Editable(t) == sheet[t].visible /\ sheet[t].link = NoLink /\ ~IsPending(t)

SetOption(t, option) ==
    /\ Editable(t)
    /\ sheet' = [sheet EXCEPT ![t].form.option = option]
    /\ UNCHANGED creating

SetPassword(t, password) ==
    /\ Editable(t)
    /\ sheet' = [sheet EXCEPT ![t].form.password = password]
    /\ UNCHANGED creating

\* The body of handleCreate: a password that is too short is left out.
RequestOf(t) ==
    [target |-> t, option |-> sheet[t].form.option, locked |-> sheet[t].form.password = "long"]

HandleCreate(t, c) ==
    /\ Editable(t) /\ creating[c].pc = "unsent"
    /\ creating' = [creating EXCEPT ![c] = [pc |-> "sent", own |-> TRUE, body |-> RequestOf(t)]]
    /\ sheet' = [sheet EXCEPT ![t].left = FALSE]

\* Slip: the answer goes to whatever sheet is on the screen.
LinkToVisible(c) ==
    sheet' = [u \in Target |-> IF sheet[u].visible
                               THEN [sheet[u] EXCEPT !.link = creating[c].body] ELSE sheet[u]]

\* onSuccess of the mutate call, which runs only while its sheet is mounted.
LinkToItsSheet(c) ==
    sheet' = IF creating[c].own
             THEN [sheet EXCEPT ![creating[c].body.target].link = creating[c].body] ELSE sheet

Over(c) == creating' = [creating EXCEPT ![c] = [Unsent EXCEPT !.pc = "over"]]

CreateAnswered(c) == creating[c].pc = "sent" /\ LinkToItsSheet(c) /\ Over(c)

\* onError: an alert, and the form is editable again.
CreateFails(c) == creating[c].pc = "sent" /\ Over(c) /\ UNCHANGED sheet

\* handleClose: everything back to its default, a pending request excepted.
HandleClose(t) ==
    /\ sheet[t].visible
    /\ sheet' = [sheet EXCEPT ![t] = [Unmounted EXCEPT !.mounted = TRUE,
                                                       !.left = IsPending(t)]]
    /\ UNCHANGED creating

SheetStep(t) ==
    \/ Open(t) \/ HandleClose(t) \/ \E c \in Call : HandleCreate(t, c)
    \/ \E option \in {"default", "other"} : SetOption(t, option)
    \/ \E password \in {"none", "short", "long"} : SetPassword(t, password)

\* What handleShareNative and handleCopyLink give away.
GivenAway(t) == IF sheet[t].visible THEN sheet[t].link ELSE NoLink

----------------------------------------------------------------------------
(* Properties.                                                             *)

SheetTypeOK ==
    /\ \A t \in Target :
          /\ sheet[t].form \in Form /\ sheet[t].link \in Body \cup {NoLink}
          /\ sheet[t].visible \/ sheet[t].left => sheet[t].mounted
    /\ \A c \in Call :
          /\ creating[c].pc \in {"unsent", "sent", "over"}
          /\ creating[c].body \in Body \cup {NoLink}
          /\ creating[c].own => sheet[creating[c].body.target].mounted

\* A link that can be given away leads to what is on the screen, as the form says that is
\* still behind it: no answer for another target, or for a sheet that has gone, gets in.
\* Only a sheet that was closed while its request was under way may show other options.
LinkIsOfTarget ==
    \A t \in Target : GivenAway(t) # NoLink =>
        /\ GivenAway(t).target = t
        /\ sheet[t].left \/ GivenAway(t) = RequestOf(t)
=============================================================================
