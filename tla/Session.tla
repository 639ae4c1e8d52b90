------------------------------ MODULE Session ------------------------------
(***************************************************************************)
(* Sign-in, sign-up and sign-out (LogInViewController,                     *)
(* SignUpViewController, ProfileViewController, MainViewController,        *)
(* AppDelegate), with the screens they present over each other.            *)
(*                                                                         *)
(* A call to Firebase Auth is answered in two steps: Auth changes the      *)
(* current user, and posts the callback to the main queue.  The callbacks  *)
(* act on the screen that made the call, which may be covered or gone, and *)
(* on the current user, who may be another one.                            *)
(***************************************************************************)
EXTENDS Naturals, Sequences, FiniteSets

CONSTANTS
    Accounts,       \* e-mail addresses, each with its password
    NoAccount,      \* no user, an empty text field
    MaxScreens,     \* bound: log-in and sign-up screens made since launch
    MaxCalls        \* bound: the user starts no call while so many are open

ASSUME SessionAssumption ==
    /\ NoAccount \notin Accounts
    /\ MaxScreens \in Nat \ {0}
    /\ MaxCalls \in Nat

VARIABLES
    exists,         \* the accounts Auth has
    mailed,         \* those that a verification mail was sent to
    verified,       \* those whose owner followed its link
    profile,        \* "users": the e-mail written for each account
    currentUser,    \* Auth.auth().currentUser, kept across launches
    calls,          \* calls to Auth under way
    answers,        \* callbacks on the main queue
    stack,          \* the screens, each presented by the one before it
    screens,        \* number of log-in and sign-up screens since launch
    covered,        \* the log-in screens with a HUD over them
    field,          \* the text fields of each sign-up screen
    mailEnded,      \* history: a mail was answered since launch
    mixed           \* history: a created account's callback found another
                    \* user, or other fields, than it was created with

server == <<exists, mailed, verified, profile>>
history == <<mailEnded, mixed>>
vars == <<server, currentUser, calls, answers, stack, screens, covered, field,
          history>>

MaybeAccount == Accounts \cup {NoAccount}
ScreenId == 1 .. MaxScreens

\* Only log-in and sign-up screens present from callbacks: they have an id.
Screen == [kind : {"logIn", "signUp"}, id : ScreenId]
            \cup [kind : {"tabs", "alert", "forgot", "deadAlert"}, id : {0}]

CallKind == {"logIn", "create", "mailSignIn", "mail", "reset"}
Call == [kind : {"logIn", "create", "mail"}, screen : ScreenId, account : Accounts]
          \cup [kind : {"mailSignIn", "reset"}, screen : ScreenId, account : MaybeAccount]
Answer == [kind : CallKind, screen : ScreenId, account : MaybeAccount,
           ok : BOOLEAN, verified : BOOLEAN]

Top == stack[Len(stack)]
TopIs(kind) == Top.kind = kind

\* application(_:didFinishLaunchingWithOptions:)
RootScreen(user) ==
    IF user # NoAccount THEN [kind |-> "tabs", id |-> 0]
                        ELSE [kind |-> "logIn", id |-> 1]

Init ==
    /\ exists = {} /\ mailed = {} /\ verified = {}
    /\ profile = [a \in Accounts |-> NoAccount]
    /\ currentUser = NoAccount
    /\ calls = {}
    /\ answers = <<>>
    /\ stack = <<RootScreen(NoAccount)>>
    /\ screens = 1
    /\ covered = {}
    /\ field = [s \in ScreenId |-> NoAccount]
    /\ mailEnded = FALSE
    /\ mixed = FALSE

----------------------------------------------------------------------------
(***************************************************************************)
(* Screens and calls.                                                      *)
(***************************************************************************)

\* present: only the screen on top can; others are covered or gone.
Presented(s, kind) ==
    IF Top.id = s THEN Append(stack, [kind |-> kind, id |-> 0]) ELSE stack

\* Mutant of Dismissed: whatever is on top goes.
DismissedTop(s) == SubSeq(stack, 1, Len(stack) - 1)

\* dismiss: what the screen presented or, on top, the screen itself.
Dismissed(s) ==
    LET below == {i \in DOMAIN stack : stack[i].id = s}
    IN  IF below = {} THEN stack
        ELSE LET i == CHOOSE j \in below : TRUE
             IN  SubSeq(stack, 1, IF i = Len(stack) THEN i - 1 ELSE i)

NewScreen(kind) ==
    /\ screens < MaxScreens
    /\ screens' = screens + 1
    /\ stack' = Append(stack, [kind |-> kind, id |-> screens + 1])

\* The same call is not under way twice (a bound).
Start(c) ==
    /\ c \notin calls
    /\ calls' = calls \cup {c}

\* A create call of a screen is open, or any is answered but not called back.
Creating(s) ==
    \/ \E c \in calls : c.kind = "create" /\ c.screen = s
    \/ \E i \in DOMAIN answers : answers[i].kind = "create" /\ answers[i].screen = s
CreateWaits == \E i \in DOMAIN answers : answers[i].kind = "create"

FewCalls == Cardinality(calls) + Len(answers) < MaxCalls

----------------------------------------------------------------------------
(***************************************************************************)
(* What the user does.                                                     *)
(***************************************************************************)

\* logInButtonTapped: a HUD covers the screen until it is dismissed.
LogIn(a) ==
    /\ TopIs("logIn")
    /\ Top.id \notin covered
    /\ covered' = covered \cup {Top.id}
    /\ FewCalls
    /\ Start([kind |-> "logIn", screen |-> Top.id, account |-> a])
    /\ UNCHANGED <<server, currentUser, answers, stack, screens, field, history>>

\* The segue of the sign-up button.
OpenSignUp ==
    /\ TopIs("logIn")
    /\ Top.id \notin covered
    /\ NewScreen("signUp")
    /\ UNCHANGED <<server, currentUser, calls, answers, covered, field, history>>

\* forgotPasswordTapped, and its two buttons.
ForgotPassword ==
    /\ TopIs("logIn")
    /\ Top.id \notin covered
    /\ stack' = Presented(Top.id, "forgot")
    /\ UNCHANGED <<server, currentUser, calls, answers, screens, covered, field,
                   history>>

CloseForgot ==
    /\ TopIs("forgot")
    /\ stack' = SubSeq(stack, 1, Len(stack) - 1)
    /\ \/ UNCHANGED calls
       \/ /\ FewCalls
          /\ Start([kind |-> "reset", screen |-> stack[Len(stack) - 1].id,
                    account |-> NoAccount])
    /\ UNCHANGED <<server, currentUser, answers, screens, covered, field, history>>

\* The OK button.  One alert of SignUpViewController has none.
CloseAlert ==
    /\ TopIs("alert")
    /\ stack' = SubSeq(stack, 1, Len(stack) - 1)
    /\ UNCHANGED <<server, currentUser, calls, answers, screens, covered, field,
                   history>>

Edit(a) ==
    /\ TopIs("signUp")
    /\ field[Top.id] # a
    /\ field' = [field EXCEPT ![Top.id] = a]
    /\ mixed' = (mixed \/ Creating(Top.id))
    /\ UNCHANGED <<server, currentUser, calls, answers, stack, screens, covered,
                   mailEnded>>

\* createAccountTapped, with the fields filled in or not (isFieldEmpty).
CreateAccount ==
    /\ TopIs("signUp")
    /\ IF field[Top.id] # NoAccount
         THEN /\ Start([kind |-> "create", screen |-> Top.id,
                        account |-> field[Top.id]])
              /\ FewCalls
              /\ UNCHANGED stack
         ELSE /\ stack' = Presented(Top.id, "alert")
              /\ UNCHANGED calls
    /\ UNCHANGED <<server, currentUser, answers, screens, covered, field, history>>

CancelSignUp ==
    /\ TopIs("signUp")
    /\ stack' = Dismissed(Top.id)
    /\ UNCHANGED <<server, currentUser, calls, answers, screens, covered, field,
                   history>>

\* SignOutButtonPressed and logoutButtonTapped.
SignOut ==
    /\ TopIs("tabs")
    /\ currentUser' = NoAccount
    /\ NewScreen("logIn")
    /\ UNCHANGED <<server, calls, answers, covered, field, history>>

\* The owner of an account follows the link in the mail.
Verify(a) ==
    /\ a \in mailed
    /\ verified' = verified \cup {a}
    /\ UNCHANGED <<exists, mailed, profile, currentUser, calls, answers, stack,
                   screens, covered, field, history>>

\* The process ends and starts again.  Accounts whose creation was under way
\* may have been created.
Relaunch ==
    /\ calls' = {}
    /\ answers' = <<>>
    /\ stack' = <<RootScreen(currentUser)>>
    /\ screens' = IF currentUser = NoAccount THEN 1 ELSE 0
    /\ covered' = {}
    /\ field' = [s \in ScreenId |-> NoAccount]
    /\ \E S \in SUBSET {c.account : c \in {d \in calls : d.kind = "create"}} :
          exists' = exists \cup S
    /\ mailEnded' = FALSE
    /\ UNCHANGED <<mailed, verified, profile, currentUser, mixed>>

----------------------------------------------------------------------------
(***************************************************************************)
(* Firebase Auth.                                                          *)
(***************************************************************************)

\* Auth's part of an answer: the current user changes, the callback waits.
Succeeds(c) ==
    CASE c.kind \in {"logIn", "mailSignIn"} ->
           /\ c.account \in exists
           /\ currentUser' = c.account
           /\ UNCHANGED <<exists, mailed>>
      [] c.kind = "create" ->
           /\ c.account \notin exists
           /\ exists' = exists \cup {c.account}
           /\ currentUser' = c.account
           /\ UNCHANGED mailed
      [] c.kind = "mail" ->
           /\ mailed' = mailed \cup {c.account}
           /\ UNCHANGED <<exists, currentUser>>
      [] c.kind = "reset" -> UNCHANGED <<exists, mailed, currentUser>>

Answered(c) ==
    /\ calls' = calls \ {c}
    /\ \E ok \in BOOLEAN :
          /\ IF ok THEN Succeeds(c) ELSE UNCHANGED <<exists, mailed, currentUser>>
          /\ answers' = Append(answers,
                 [kind |-> c.kind, screen |-> c.screen, account |-> c.account,
                  ok |-> ok, verified |-> c.account \in verified])
    /\ mixed' = (mixed \/ (currentUser' # currentUser /\ CreateWaits))
    /\ UNCHANGED <<verified, profile, stack, screens, covered, field, mailEnded>>

----------------------------------------------------------------------------
(***************************************************************************)
(* The callbacks.                                                          *)
(***************************************************************************)

IsNext(kind) == answers # <<>> /\ Head(answers).kind = kind

\* Mutants of LogInDone: the main screens before the check of the mail; a
\* failure that is not reported.
LogInDoneUnchecked ==
    LET a == Head(answers)
    IN  /\ IsNext("logIn")
        /\ answers' = Tail(answers)
        /\ stack' = Presented(a.screen, IF a.ok THEN "tabs" ELSE "alert")
        /\ currentUser' = IF a.ok /\ ~a.verified THEN NoAccount ELSE currentUser
        /\ UNCHANGED <<server, calls, screens, covered, field, history>>

LogInDoneSilent ==
    LET a == Head(answers)
    IN  /\ IsNext("logIn")
        /\ answers' = Tail(answers)
        /\ stack' = IF a.ok THEN Presented(a.screen, "tabs") ELSE stack
        /\ UNCHANGED <<server, currentUser, calls, screens, covered, field, history>>

\* The completion of logInButtonTapped: it dismisses the shared HUD, not the
\* one that covers the screen; an account that is not verified is signed out.
LogInDone ==
    LET a == Head(answers)
    IN  /\ IsNext("logIn")
        /\ answers' = Tail(answers)
        /\ stack' = Presented(a.screen, IF a.ok /\ a.verified THEN "tabs" ELSE "alert")
        /\ currentUser' = IF a.ok /\ ~a.verified THEN NoAccount ELSE currentUser
        /\ UNCHANGED <<server, calls, screens, covered, field, history>>

\* The completion of sendPasswordReset: an alert either way.
ResetDone ==
    /\ IsNext("reset")
    /\ answers' = Tail(answers)
    /\ stack' = Presented(Head(answers).screen, "alert")
    /\ UNCHANGED <<server, currentUser, calls, screens, covered, field, history>>

\* Mutant of CreateDone: a creation that failed goes on as if it had not.
CreateDoneAnyway ==
    LET a == Head(answers)
    IN  /\ IsNext("create")
        /\ answers' = Tail(answers)
        /\ IF currentUser = NoAccount
             THEN UNCHANGED <<stack, profile, calls>>
           ELSE /\ profile' = [profile EXCEPT ![currentUser] = field[a.screen]]
                /\ Start([kind |-> "mailSignIn", screen |-> a.screen,
                          account |-> field[a.screen]])
                /\ stack' = Dismissed(a.screen)
        /\ UNCHANGED <<exists, mailed, verified, currentUser, screens, covered,
                       field, history>>

\* The completion of createUser: the profile of the current user gets what
\* the fields say now (the write may be refused), sendEmail signs in with
\* them, and the screen goes.
CreateDone ==
    LET a == Head(answers)
    IN  /\ IsNext("create")
        /\ answers' = Tail(answers)
        /\ IF ~a.ok
             THEN /\ stack' = Presented(a.screen, "alert")
                  /\ UNCHANGED <<profile, calls>>
           ELSE IF currentUser = NoAccount
             THEN UNCHANGED <<stack, profile, calls>>
           ELSE /\ profile' \in {profile,
                      [profile EXCEPT ![currentUser] = field[a.screen]]}
                /\ Start([kind |-> "mailSignIn", screen |-> a.screen,
                          account |-> field[a.screen]])
                /\ stack' = Dismissed(a.screen)
        /\ UNCHANGED <<exists, mailed, verified, currentUser, screens, covered,
                       field, history>>

\* The completion of sendEmail's signIn: a mail for the current user.
MailSignInDone ==
    LET a == Head(answers)
    IN  /\ IsNext("mailSignIn")
        /\ answers' = Tail(answers)
        /\ IF a.ok /\ currentUser # NoAccount
             THEN Start([kind |-> "mail", screen |-> a.screen,
                         account |-> currentUser])
             ELSE UNCHANGED calls
        /\ UNCHANGED <<server, currentUser, stack, screens, covered, field, history>>

\* The completion of sendEmailVerification signs out whoever is signed in.
\* The alert of a mail that was sent is dismissed as soon as it is there; the
\* alert of one that was not has no button.
MailDone ==
    LET a == Head(answers)
    IN  /\ IsNext("mail")
        /\ answers' = Tail(answers)
        /\ stack' = IF a.ok THEN stack ELSE Presented(a.screen, "deadAlert")
        /\ currentUser' = NoAccount
        /\ mailEnded' = TRUE
        /\ UNCHANGED <<server, calls, screens, covered, field, mixed>>

Callback == LogInDone \/ ResetDone \/ CreateDone \/ MailSignInDone \/ MailDone

----------------------------------------------------------------------------
User ==
    \/ \E a \in Accounts : LogIn(a) \/ Verify(a)
    \/ \E a \in MaybeAccount : Edit(a)
    \/ OpenSignUp \/ ForgotPassword \/ CloseForgot \/ CloseAlert
    \/ CreateAccount \/ CancelSignUp \/ SignOut

Next == User \/ (\E c \in calls : Answered(c)) \/ Callback \/ Relaunch

Spec == Init /\ [][Next]_vars

\* Auth answers every call, if only with an error, and the main queue runs.
FairSpec ==
    /\ Spec
    /\ \A c \in Call : WF_vars(c \in calls /\ Answered(c))
    /\ WF_vars(Callback)

----------------------------------------------------------------------------
(***************************************************************************)
(* Properties.                                                             *)
(***************************************************************************)

\* Every variable has its type; there is always a screen.
TypeOK ==
    /\ exists \subseteq Accounts
    /\ mailed \subseteq Accounts
    /\ verified \subseteq mailed
    /\ profile \in [Accounts -> MaybeAccount]
    /\ currentUser \in MaybeAccount
    /\ calls \subseteq Call
    /\ answers \in Seq(Answer)
    /\ stack \in Seq(Screen) /\ stack # <<>>
    /\ screens \in 0 .. MaxScreens
    /\ covered \subseteq ScreenId
    /\ field \in [ScreenId -> MaybeAccount]
    /\ mailEnded \in BOOLEAN
    /\ mixed \in BOOLEAN

\* The main screens in front have a user until a mail of a sign-up was
\* answered: the sign-out of a sign-in that is not verified never reaches
\* them, nor does a relaunch (logInButtonTapped, sendEmail).
UserInTabs == TopIs("tabs") /\ currentUser = NoAccount => mailEnded

\* The profile of an account has that account's address, unless another
\* answer or an edit came between a creation and its callback
\* (createAccountTapped).
OwnProfile == \A a \in Accounts : profile[a] \in {NoAccount, a} \/ mixed

\* A sign-in under way ends with something over the log-in screen, or with a
\* relaunch (logInButtonTapped).
LogInAnswered ==
    \A s \in ScreenId :
        (\E a \in Accounts : [kind |-> "logIn", screen |-> s, account |-> a] \in calls)
            ~> Top.id # s \/ s \notin covered

\* "Please try again": a log-in screen in front, with no sign-in under way,
\* can be used (LogInViewController.swift:42).
FailedLogInCanRetry ==
    TopIs("logIn") /\ Top.id \in covered =>
        \/ \E c \in calls : c.kind = "logIn" /\ c.screen = Top.id
        \/ \E i \in DOMAIN answers :
              answers[i].kind = "logIn" /\ answers[i].screen = Top.id

----------------------------------------------------------------------------
(***************************************************************************)
(* The inductive invariant.                                                *)
(***************************************************************************)

Pending(kind, s) ==
    \/ \E c \in calls : c.kind = kind /\ c.screen = s
    \/ \E i \in DOMAIN answers : answers[i].kind = kind /\ answers[i].screen = s

\* Which screens present which.
Presents(under, over) ==
    \/ under = "tabs" /\ over = "logIn"
    \/ under = "logIn" /\ over \in {"tabs", "signUp", "forgot", "alert"}
    \/ under = "signUp" /\ over \in {"alert", "deadAlert"}

ScreensInOrder ==
    /\ stack[1].kind \in {"tabs", "logIn"}
    /\ \A i \in 2 .. Len(stack) : Presents(stack[i - 1].kind, stack[i].kind)

\* Screens have their own ids, and calls are for screens of their kind.
Caller(kind) == IF kind \in {"logIn", "reset"} THEN "logIn" ELSE "signUp"
Known(kind, s) ==
    /\ s <= screens
    /\ \A i \in DOMAIN stack : stack[i].id = s => stack[i].kind = Caller(kind)
ScreensKnown ==
    /\ \A i \in DOMAIN stack :
          /\ stack[i].id <= screens
          /\ \A j \in DOMAIN stack : stack[i].id = stack[j].id => i = j \/ stack[i].id = 0
    /\ \A k \in CallKind, s \in ScreenId : Pending(k, s) => Known(k, s)

\* At most one sign-in is under way, of the screen in front but for an alert.
Front == stack[IF TopIs("alert") THEN Len(stack) - 1 ELSE Len(stack)]
LogInCalls == {c \in calls : c.kind = "logIn"}
LogInAnswers == {i \in DOMAIN answers : answers[i].kind = "logIn"}
OneLogIn ==
    /\ \A c, d \in LogInCalls : c = d
    /\ \A i, j \in LogInAnswers : i = j
    /\ LogInCalls = {} \/ LogInAnswers = {}
    /\ \A s \in ScreenId : Pending("logIn", s) => s \in covered /\ Front.id = s

SignedIn ==
    \A i \in LogInAnswers : answers[i].ok => currentUser # NoAccount \/ mailEnded

\* A creation is still of what the fields say, and of the current user.
CreatedAlone ==
    /\ \A c \in calls : c.kind = "create" => c.account = field[c.screen]
    /\ \A i \in DOMAIN answers : answers[i].kind = "create" =>
          /\ answers[i].account = field[answers[i].screen]
          /\ answers[i].ok => currentUser \in {NoAccount, answers[i].account}

SessionInv ==
    /\ TypeOK /\ ScreensInOrder /\ ScreensKnown /\ OneLogIn
    /\ SignedIn /\ UserInTabs
    /\ mixed \/ CreatedAlone
    /\ OwnProfile

=============================================================================
