--------------------------- MODULE Session_proofs ---------------------------
(***************************************************************************)
(* Proofs about Session, for every set of accounts and any bounds.         *)
(***************************************************************************)
EXTENDS Session, SequenceTheorems, TLAPS

\* The screens are a sequence, the front one last.
LEMMA Screens ==
    ASSUME TypeOK, ScreensInOrder
    PROVE  /\ Len(stack) \in Nat \ {0}
           /\ DOMAIN stack = 1 .. Len(stack)
           /\ \A i \in 1 .. Len(stack) : stack[i] \in Screen
           /\ Top \in Screen
           /\ Top.kind \notin {"tabs", "logIn"} => Len(stack) >= 2
<1>1. stack \in Seq(Screen) /\ stack # <<>>
  BY DEF TypeOK
<1>2. Len(stack) \in Nat \ {0} /\ DOMAIN stack = 1 .. Len(stack)
  BY <1>1, EmptySeq
<1>3. \A i \in 1 .. Len(stack) : stack[i] \in Screen
  BY <1>1, <1>2
<1> QED BY <1>2, <1>3 DEF Top, ScreensInOrder

\* A screen is presented over the front one.
LEMMA Push ==
    ASSUME TypeOK, ScreensInOrder, NEW x \in Screen, Presents(Top.kind, x.kind),
           stack' = Append(stack, x)
    PROVE  /\ stack' \in Seq(Screen) /\ stack' # <<>>
           /\ ScreensInOrder'
           /\ Len(stack') = Len(stack) + 1 /\ DOMAIN stack' = 1 .. Len(stack) + 1
           /\ Top' = x
           /\ \A i \in 1 .. Len(stack) : stack'[i] = stack[i]
           /\ stack'[Len(stack) + 1] = x
<1>1. stack \in Seq(Screen) /\ Len(stack) \in Nat \ {0} /\ DOMAIN stack = 1 .. Len(stack)
  BY Screens DEF TypeOK
<1>2. /\ stack' \in Seq(Screen)
      /\ Len(stack') = Len(stack) + 1
      /\ \A i \in 1 .. Len(stack) : stack'[i] = stack[i]
      /\ stack'[Len(stack) + 1] = x
  BY <1>1
<1>3. stack' # <<>> /\ DOMAIN stack' = 1 .. Len(stack) + 1
  BY <1>1, <1>2
<1>4. Top' = x
  BY <1>2 DEF Top
<1>5. ScreensInOrder'
  <2>1. stack'[1].kind \in {"tabs", "logIn"}
    BY <1>1, <1>2 DEF ScreensInOrder
  <2>2. ASSUME NEW i \in 2 .. Len(stack')
        PROVE  Presents(stack'[i - 1].kind, stack'[i].kind)
    <3>1. CASE i <= Len(stack)
      BY <1>1, <1>2, <3>1 DEF ScreensInOrder
    <3>2. CASE i = Len(stack) + 1
      <4>1. stack'[i] = x
        BY <1>2, <3>2
      <4>2. i - 1 = Len(stack) /\ Len(stack) \in 1 .. Len(stack)
        BY <1>1, <3>2
      <4>3. stack'[i - 1] = stack[Len(stack)]
        BY <1>2, <4>2
      <4> QED BY <4>1, <4>3 DEF Top
    <3> QED BY <1>1, <1>2, <3>1, <3>2
  <2> QED BY <2>1, <2>2 DEF ScreensInOrder
<1> QED BY <1>2, <1>3, <1>4, <1>5

\* The front screen goes.
LEMMA Pop ==
    ASSUME TypeOK, ScreensInOrder, Top.kind \notin {"tabs", "logIn"},
           stack' = SubSeq(stack, 1, Len(stack) - 1)
    PROVE  /\ stack' \in Seq(Screen) /\ stack' # <<>>
           /\ ScreensInOrder'
           /\ Len(stack') = Len(stack) - 1 /\ DOMAIN stack' = 1 .. Len(stack) - 1
           /\ Len(stack) >= 2
           /\ \A i \in 1 .. Len(stack) - 1 : stack'[i] = stack[i]
           /\ Top' = stack[Len(stack) - 1]
           /\ Presents(Top'.kind, Top.kind)
<1>1. /\ stack \in Seq(Screen) /\ Len(stack) \in Nat \ {0} /\ DOMAIN stack = 1 .. Len(stack)
      /\ Len(stack) >= 2
  BY Screens DEF TypeOK
<1>2. /\ stack' \in Seq(Screen)
      /\ Len(stack') = Len(stack) - 1
      /\ \A i \in 1 .. Len(stack) - 1 : stack'[i] = stack[i]
  BY <1>1
<1>3. stack' # <<>> /\ DOMAIN stack' = 1 .. Len(stack) - 1
  <2>1. Len(stack') # 0 /\ Len(<<>>) = 0
    BY <1>1, <1>2
  <2>2. DOMAIN stack' = 1 .. Len(stack')
    BY <1>2
  <2>3. ASSUME stack' = <<>> PROVE FALSE
    <3>1. Len(stack') = 0
      BY <2>1, <2>3, Zenon
    <3> QED BY <2>1, <3>1
  <2>4. DOMAIN stack' = 1 .. Len(stack) - 1
    BY <1>2, <2>2, Zenon
  <2> QED BY <2>3, <2>4
<1>4. Top' = stack[Len(stack) - 1]
  BY <1>1, <1>2 DEF Top
<1>5. ScreensInOrder'
  BY <1>1, <1>2 DEF ScreensInOrder
<1>6. Presents(Top'.kind, Top.kind)
  BY <1>1, <1>4 DEF ScreensInOrder, Top
<1> QED BY <1>1, <1>2, <1>3, <1>4, <1>5, <1>6

\* A callback's sequence without its head.
LEMMA TailAnswers ==
    ASSUME answers \in Seq(Answer), answers # <<>>, answers' = Tail(answers)
    PROVE  /\ answers' \in Seq(Answer)
           /\ Len(answers) \in Nat \ {0}
           /\ DOMAIN answers = 1 .. Len(answers)
           /\ DOMAIN answers' = 1 .. Len(answers) - 1
           /\ \A i \in DOMAIN answers' : answers'[i] = answers[i + 1] /\ i + 1 \in DOMAIN answers
           /\ Head(answers) = answers[1] /\ 1 \in DOMAIN answers
           /\ Head(answers) \in Answer
<1>1. Len(answers) \in Nat \ {0} /\ DOMAIN answers = 1 .. Len(answers)
  BY EmptySeq
<1>2. answers' \in Seq(Answer) /\ Len(answers') = Len(answers) - 1
  BY <1>1
<1>3. \A i \in 1 .. Len(answers) - 1 : answers'[i] = answers[i + 1]
  BY <1>1
<1>4. Head(answers) = answers[1] /\ answers[1] \in Answer
  BY <1>1
<1>5. DOMAIN answers' = 1 .. Len(answers) - 1
  BY <1>1, <1>2
<1> QED BY <1>1, <1>2, <1>3, <1>4, <1>5

LEMMA InitInv == Init => SessionInv
<1> SUFFICES ASSUME Init PROVE SessionInv
  OBVIOUS
<1> DEFINE root == [kind |-> "logIn", id |-> 1]
<1>1. stack = <<root>> /\ root \in Screen /\ 1 \in ScreenId
  BY SessionAssumption DEF Init, RootScreen, Screen, ScreenId
<1> HIDE DEF root
<1>2. stack \in Seq(Screen) /\ stack # <<>> /\ Len(stack) = 1 /\ stack[1] = root
  BY <1>1
<1>3. answers \in Seq(Answer) /\ DOMAIN answers = {} /\ calls = {}
  BY DEF Init
<1>4. TypeOK
  <2>1. screens \in 0 .. MaxScreens
    BY SessionAssumption DEF Init
  <2>2. profile \in [Accounts -> MaybeAccount] /\ field \in [ScreenId -> MaybeAccount]
    BY DEF Init, MaybeAccount
  <2> QED BY <1>2, <1>3, <2>1, <2>2 DEF Init, TypeOK, MaybeAccount
<1>5. ScreensInOrder
  BY <1>2 DEF ScreensInOrder, root
<1>6. ScreensKnown
  BY <1>2, <1>3 DEF ScreensKnown, Pending, root, Init
<1>7. OneLogIn /\ SignedIn /\ CreatedAlone
  BY <1>3 DEF OneLogIn, SignedIn, CreatedAlone, LogInCalls, LogInAnswers, Pending
<1>8. UserInTabs /\ OwnProfile
  BY <1>2 DEF UserInTabs, OwnProfile, TopIs, Top, Init, root
<1> QED BY <1>4, <1>5, <1>6, <1>7, <1>8 DEF SessionInv

-----------------------------------------------------------------------------
\* What is known of a call holds on when its screen is covered ...
LEMMA KnownPush ==
    ASSUME TypeOK, ScreensInOrder, ScreensKnown, NEW x \in Screen, Presents(Top.kind, x.kind),
           stack' = Append(stack, x),
           \/ x.id = 0 /\ screens' = screens
           \/ x.id = screens + 1 /\ screens' = screens + 1,
           \A k \in CallKind, s \in ScreenId : Pending(k, s)' => Known(k, s)
    PROVE  ScreensKnown'
<1>1. /\ DOMAIN stack = 1 .. Len(stack) /\ Len(stack) \in Nat
      /\ DOMAIN stack' = 1 .. Len(stack) + 1
      /\ \A i \in 1 .. Len(stack) : stack'[i] = stack[i] /\ stack[i].id \in Nat
      /\ stack'[Len(stack) + 1] = x
  <2>1. \A y \in Screen : y.id \in Nat
    BY DEF Screen, ScreenId
  <2> QED BY <2>1, Screens, Push
<1>2. screens \in Nat
  BY SessionAssumption DEF TypeOK
<1>3. \A i \in 1 .. Len(stack) :
         /\ stack[i].id <= screens
         /\ \A j \in 1 .. Len(stack) : stack[i].id = stack[j].id => i = j \/ stack[i].id = 0
  BY <1>1 DEF ScreensKnown
<1>4. \A i \in DOMAIN stack' :
         /\ stack'[i].id <= screens'
         /\ \A j \in DOMAIN stack' : stack'[i].id = stack'[j].id => i = j \/ stack'[i].id = 0
  <2>1. \A i \in 1 .. Len(stack) + 1 : i \in 1 .. Len(stack) \/ i = Len(stack) + 1
    BY <1>1
  <2> QED BY <1>1, <1>2, <1>3, <2>1
<1>5. ASSUME NEW k \in CallKind, NEW s \in ScreenId, Known(k, s)
      PROVE  Known(k, s)'
  <2>1. s <= screens' /\ s \in Nat \ {0} /\ s <= screens
    BY <1>2, <1>5 DEF Known, ScreenId
  <2>2. s # x.id
    BY <1>2, <2>1
  <2>3. \A i \in 1 .. Len(stack) + 1 : i \in 1 .. Len(stack) \/ i = Len(stack) + 1
    BY <1>1
  <2> QED BY <1>1, <1>5, <2>1, <2>2, <2>3 DEF Known
<1> QED BY <1>4, <1>5 DEF ScreensKnown

\* ... when the front screen goes ...
LEMMA KnownPop ==
    ASSUME TypeOK, ScreensInOrder, ScreensKnown, Top.kind \notin {"tabs", "logIn"},
           stack' = SubSeq(stack, 1, Len(stack) - 1), screens' = screens,
           \A k \in CallKind, s \in ScreenId : Pending(k, s)' => Known(k, s)
    PROVE  ScreensKnown'
<1>1. /\ DOMAIN stack = 1 .. Len(stack) /\ Len(stack) \in Nat
      /\ DOMAIN stack' = 1 .. Len(stack) - 1
      /\ \A i \in 1 .. Len(stack) - 1 : stack'[i] = stack[i]
  BY Screens, Pop
<1>2. \A i \in DOMAIN stack' : i \in DOMAIN stack /\ stack'[i] = stack[i]
  BY <1>1
<1>3. \A k \in CallKind, s \in ScreenId : Known(k, s) => Known(k, s)'
  BY <1>2 DEF Known
<1> QED BY <1>2, <1>3 DEF ScreensKnown

\* ... or stays.
LEMMA KnownStays ==
    ASSUME ScreensKnown, UNCHANGED <<stack, screens>>,
           \A k \in CallKind, s \in ScreenId : Pending(k, s)' => Known(k, s)
    PROVE  ScreensKnown'
BY DEF ScreensKnown, Known

\* The main queue has at most run a callback.
Fewer == answers' = answers \/ (answers # <<>> /\ answers' = Tail(answers))

LEMMA StillPending ==
    ASSUME TypeOK, Fewer, NEW k, NEW s, Pending(k, s)'
    PROVE  Pending(k, s) \/ \E c \in calls' \ calls : c.kind = k /\ c.screen = s
<1>1. \A i \in DOMAIN answers' : \E j \in DOMAIN answers : answers'[i] = answers[j]
  <2>1. CASE answers' = answers
    BY <2>1
  <2>2. CASE answers # <<>> /\ answers' = Tail(answers)
    BY <2>2, TailAnswers DEF TypeOK
  <2> QED BY <2>1, <2>2 DEF Fewer
<1> QED BY <1>1 DEF Pending

\* The head of the answers is pending.
LEMMA HeadPending ==
    ASSUME TypeOK, NEW k, IsNext(k), answers' = Tail(answers)
    PROVE  /\ Head(answers) \in Answer /\ Head(answers).kind = k
           /\ Fewer
           /\ Pending(k, Head(answers).screen)
           /\ Head(answers).screen \in ScreenId /\ Head(answers).account \in MaybeAccount
           /\ Head(answers) = answers[1] /\ 1 \in DOMAIN answers
           /\ answers' \in Seq(Answer)
<1>1. answers # <<>> /\ Head(answers).kind = k
  BY DEF IsNext
<1>2. /\ Head(answers) \in Answer
      /\ Head(answers) = answers[1] /\ 1 \in DOMAIN answers
      /\ answers' \in Seq(Answer)
  BY <1>1, TailAnswers DEF TypeOK
<1> QED BY <1>1, <1>2 DEF Fewer, Pending, Answer

-----------------------------------------------------------------------------
\* No sign-in is under way.
LEMMA NoLogIn ==
    ASSUME TypeOK, \A s \in ScreenId : ~ Pending("logIn", s)
    PROVE  LogInCalls = {} /\ LogInAnswers = {}
<1>1. \A c \in calls : c.screen \in ScreenId
  BY DEF TypeOK, Call
<1>2. \A i \in DOMAIN answers : answers[i].screen \in ScreenId
  <2>1. \A i \in DOMAIN answers : answers[i] \in Answer
    BY DEF TypeOK
  <2> QED BY <2>1 DEF Answer
<1> QED BY <1>1, <1>2 DEF LogInCalls, LogInAnswers, Pending

LEMMA NoneWaits ==
    ASSUME LogInCalls' = {}, LogInAnswers' = {}
    PROVE  OneLogIn' /\ SignedIn'
BY DEF OneLogIn, SignedIn, Pending, LogInCalls, LogInAnswers

\* Sign-ins that go on, of the same screen in front.
LEMMA LogInKept ==
    ASSUME TypeOK, OneLogIn, LogInCalls' \subseteq LogInCalls, Fewer, covered' = covered,
           \A s \in ScreenId : Pending("logIn", s) => Front'.id = s
    PROVE  OneLogIn'
<1>1. /\ \A i, j \in LogInAnswers' : i = j
      /\ LogInAnswers = {} => LogInAnswers' = {}
  <2>1. CASE answers' = answers
    BY <2>1 DEF OneLogIn, LogInAnswers
  <2>2. CASE answers # <<>> /\ answers' = Tail(answers)
    <3>1. /\ DOMAIN answers' = 1 .. Len(answers) - 1 /\ Len(answers) \in Nat
          /\ \A i \in DOMAIN answers' : answers'[i] = answers[i + 1] /\ i + 1 \in DOMAIN answers
      BY <2>2, TailAnswers DEF TypeOK
    <3>2. \A i \in LogInAnswers' : i + 1 \in LogInAnswers /\ i \in Int
      BY <3>1 DEF LogInAnswers
    <3>3. \A i, j \in LogInAnswers' : i + 1 = j + 1
      BY <3>2 DEF OneLogIn
    <3> QED BY <3>2, <3>3
  <2> QED BY <2>1, <2>2 DEF Fewer
<1>2. ASSUME NEW s \in ScreenId, Pending("logIn", s)'
      PROVE  Pending("logIn", s)
  <2>1. \A c \in calls' : c.kind = "logIn" => c \in calls
    BY DEF LogInCalls
  <2> QED BY <1>2, <2>1, StillPending
<1>3. \A s \in ScreenId : Pending("logIn", s)' => s \in covered' /\ Front'.id = s
  BY <1>2 DEF OneLogIn
<1>4. (\A c, d \in LogInCalls' : c = d) /\ (LogInCalls' = {} \/ LogInAnswers' = {})
  BY <1>1 DEF OneLogIn
<1> QED BY <1>1, <1>3, <1>4 DEF OneLogIn

LEMMA SignedInKept ==
    ASSUME TypeOK, SignedIn, Fewer, currentUser' = currentUser \/ mailEnded',
           mailEnded => mailEnded'
    PROVE  SignedIn'
<1>1. \A i \in DOMAIN answers' : \E j \in DOMAIN answers : answers'[i] = answers[j]
  <2>1. CASE answers' = answers
    BY <2>1
  <2>2. CASE answers # <<>> /\ answers' = Tail(answers)
    BY <2>2, TailAnswers DEF TypeOK
  <2> QED BY <2>1, <2>2 DEF Fewer
<1> QED BY <1>1 DEF SignedIn, LogInAnswers

LEMMA CreatedKept ==
    ASSUME TypeOK, mixed \/ CreatedAlone, Fewer, UNCHANGED <<field, mixed>>,
           \A c \in calls' : c \in calls \/ c.kind # "create",
           currentUser' \in {currentUser, NoAccount}
    PROVE  mixed' \/ CreatedAlone'
<1>1. \A i \in DOMAIN answers' : \E j \in DOMAIN answers : answers'[i] = answers[j]
  <2>1. CASE answers' = answers
    BY <2>1
  <2>2. CASE answers # <<>> /\ answers' = Tail(answers)
    BY <2>2, TailAnswers DEF TypeOK
  <2> QED BY <2>1, <2>2 DEF Fewer
<1>2. ASSUME CreatedAlone PROVE CreatedAlone'
  <2>1. \A c \in calls' : c.kind = "create" => c.account = field'[c.screen]
    BY <1>2 DEF CreatedAlone
  <2>2. ASSUME NEW i \in DOMAIN answers', answers'[i].kind = "create"
        PROVE  /\ answers'[i].account = field'[answers'[i].screen]
               /\ answers'[i].ok => currentUser' \in {NoAccount, answers'[i].account}
    BY <1>1, <1>2, <2>2 DEF CreatedAlone
  <2> QED BY <2>1, <2>2 DEF CreatedAlone
<1> QED BY <1>2

-----------------------------------------------------------------------------
\* The log-in screen in front has no sign-in under way, unless it is covered;
\* and no other screen but an alert has one behind it.
LEMMA FreeToLogIn ==
    ASSUME TypeOK, ScreensInOrder, ScreensKnown, OneLogIn,
           Top.kind # "alert", Top.kind = "logIn" => Top.id \notin covered
    PROVE  /\ \A s \in ScreenId : ~ Pending("logIn", s)
           /\ LogInCalls = {} /\ LogInAnswers = {}
<1>1. ASSUME NEW s \in ScreenId, Pending("logIn", s)
      PROVE  FALSE
  <2>1. s \in covered /\ Top.id = s
    BY <1>1 DEF OneLogIn, Front, TopIs, Top
  <2>2. Len(stack) \in DOMAIN stack /\ Top = stack[Len(stack)]
    BY Screens DEF Top
  <2>3. Top.kind = "logIn"
    <3>1. "logIn" \in CallKind /\ Caller("logIn") = "logIn"
      BY DEF CallKind, Caller
    <3> QED BY <1>1, <2>1, <2>2, <3>1 DEF ScreensKnown, Known
  <2> QED BY <2>1, <2>3
<1> QED BY <1>1, NoLogIn

\* A screen of the user's, which makes no call.
LEMMA OpenInv ==
    ASSUME SessionInv, NEW x \in Screen, Presents(Top.kind, x.kind), x.kind # "tabs",
           stack' = Append(stack, x),
           \/ x.id = 0 /\ screens' = screens
           \/ x.id = screens + 1 /\ screens' = screens + 1,
           screens' \in 0 .. MaxScreens,
           \/ Top.kind = "logIn" /\ Top.id \notin covered /\ currentUser' = currentUser
           \/ Top.kind \in {"tabs", "signUp"} /\ currentUser' \in {currentUser, NoAccount},
           UNCHANGED <<server, calls, answers, covered, field, history>>
    PROVE  SessionInv'
<1>1. TypeOK /\ ScreensInOrder /\ ScreensKnown /\ OneLogIn
  BY DEF SessionInv
<1>2. /\ stack' \in Seq(Screen) /\ stack' # <<>> /\ ScreensInOrder' /\ Top' = x
  BY <1>1, Push
<1>3. TypeOK'
  BY <1>1, <1>2 DEF TypeOK, server, history, MaybeAccount
<1>4. ScreensKnown'
  <2>1. \A k \in CallKind, s \in ScreenId : Pending(k, s)' => Known(k, s)
    BY <1>1 DEF Pending, ScreensKnown
  <2> QED BY <1>1, <2>1, KnownPush
<1>5. OneLogIn' /\ SignedIn'
  <2>1. LogInCalls = {} /\ LogInAnswers = {}
    BY <1>1, FreeToLogIn
  <2>2. LogInCalls' = {} /\ LogInAnswers' = {}
    BY <2>1 DEF LogInCalls, LogInAnswers
  <2> QED BY <2>2, NoneWaits
<1>6. UserInTabs' /\ OwnProfile'
  BY <1>2 DEF SessionInv, UserInTabs, OwnProfile, TopIs, server, history
<1>7. mixed' \/ CreatedAlone'
  BY CreatedKept DEF SessionInv, Fewer, history
<1> QED BY <1>2, <1>3, <1>4, <1>5, <1>6, <1>7 DEF SessionInv

LEMMA OpenSignUpInv == ASSUME SessionInv, OpenSignUp PROVE SessionInv'
<1> DEFINE x == [kind |-> "signUp", id |-> screens + 1]
<1>1. screens \in Nat /\ screens < MaxScreens /\ MaxScreens \in Nat
  BY SessionAssumption DEF SessionInv, TypeOK, OpenSignUp, NewScreen
<1>2. x \in Screen /\ x.kind = "signUp" /\ x.id = screens + 1
  BY <1>1 DEF Screen, ScreenId
<1>3. stack' = Append(stack, x) /\ screens' = screens + 1 /\ screens' \in 0 .. MaxScreens
  BY <1>1 DEF OpenSignUp, NewScreen
<1>4. Top.kind = "logIn" /\ Top.id \notin covered /\ currentUser' = currentUser
  BY DEF OpenSignUp, TopIs
<1>5. Presents(Top.kind, x.kind) /\ x.kind # "tabs"
  BY <1>2, <1>4 DEF Presents
<1>6. UNCHANGED <<server, calls, answers, covered, field, history>>
  BY DEF OpenSignUp
<1> HIDE DEF x
<1> QED BY <1>2, <1>3, <1>4, <1>5, <1>6, OpenInv

LEMMA SignOutInv == ASSUME SessionInv, SignOut PROVE SessionInv'
<1> DEFINE x == [kind |-> "logIn", id |-> screens + 1]
<1>1. screens \in Nat /\ screens < MaxScreens /\ MaxScreens \in Nat
  BY SessionAssumption DEF SessionInv, TypeOK, SignOut, NewScreen
<1>2. x \in Screen /\ x.kind = "logIn" /\ x.id = screens + 1
  BY <1>1 DEF Screen, ScreenId
<1>3. stack' = Append(stack, x) /\ screens' = screens + 1 /\ screens' \in 0 .. MaxScreens
  BY <1>1 DEF SignOut, NewScreen
<1>4. Top.kind = "tabs" /\ currentUser' = NoAccount
  BY DEF SignOut, TopIs
<1>5. Presents(Top.kind, x.kind) /\ x.kind # "tabs"
  BY <1>2, <1>4 DEF Presents
<1>6. UNCHANGED <<server, calls, answers, covered, field, history>>
  BY DEF SignOut
<1> HIDE DEF x
<1> QED BY <1>2, <1>3, <1>4, <1>5, <1>6, OpenInv

LEMMA ForgotPasswordInv == ASSUME SessionInv, ForgotPassword PROVE SessionInv'
<1> DEFINE x == [kind |-> "forgot", id |-> 0]
<1>1. x \in Screen /\ x.kind = "forgot" /\ x.id = 0
  BY DEF Screen
<1>2. stack' = Append(stack, x) /\ screens' = screens /\ screens' \in 0 .. MaxScreens
  BY DEF ForgotPassword, Presented, SessionInv, TypeOK
<1>3. Top.kind = "logIn" /\ Top.id \notin covered /\ currentUser' = currentUser
  BY DEF ForgotPassword, TopIs
<1>4. Presents(Top.kind, x.kind) /\ x.kind # "tabs"
  BY <1>1, <1>3 DEF Presents
<1>5. UNCHANGED <<server, calls, answers, covered, field, history>>
  BY DEF ForgotPassword
<1> HIDE DEF x
<1> QED BY <1>1, <1>2, <1>3, <1>4, <1>5, OpenInv

\* A log-in screen that is covered starts its sign-in.
LEMMA LogInInv == ASSUME SessionInv, NEW a \in Accounts, LogIn(a) PROVE SessionInv'
<1> DEFINE c == [kind |-> "logIn", screen |-> Top.id, account |-> a]
<1>1. TypeOK /\ ScreensInOrder /\ ScreensKnown /\ OneLogIn
  BY DEF SessionInv
<1>2. Top.kind = "logIn" /\ Top.id \notin covered /\ Top.id \in ScreenId
  BY <1>1, Screens DEF LogIn, TopIs, Screen
<1>3. c \in Call /\ c.kind = "logIn" /\ c.screen = Top.id
  BY <1>2 DEF Call, CallKind, MaybeAccount
<1>4. calls' = calls \cup {c}
  BY DEF LogIn, Start
<1> HIDE DEF c
<1>5. covered' = covered \cup {Top.id} /\ UNCHANGED <<stack, answers, screens>>
  BY DEF LogIn
<1>6. /\ LogInCalls = {} /\ LogInAnswers = {}
      /\ \A s \in ScreenId : ~ Pending("logIn", s)
  BY <1>1, <1>2, FreeToLogIn
<1>7. TypeOK'
  BY <1>1, <1>2, <1>3, <1>4, <1>5 DEF TypeOK, LogIn, server, history
<1>8. ScreensInOrder' /\ UserInTabs' /\ OwnProfile'
  BY <1>5 DEF SessionInv, ScreensInOrder, UserInTabs, OwnProfile, TopIs, Top, LogIn, server, history
<1>9. ScreensKnown'
  <2>1. Known("logIn", Top.id)
    <3>1. Len(stack) \in DOMAIN stack /\ Top = stack[Len(stack)]
      BY <1>1, Screens DEF Top
    <3>2. Top.id # 0
      BY <1>2 DEF ScreenId
    <3>3. \A i \in DOMAIN stack : stack[i].id = Top.id => stack[i] = Top
      BY <1>1, <3>1, <3>2 DEF ScreensKnown
    <3> QED BY <1>1, <1>2, <3>1, <3>3 DEF Known, ScreensKnown, Caller
  <2>2. ASSUME NEW k \in CallKind, NEW s \in ScreenId, Pending(k, s)'
        PROVE  Known(k, s)
    <3>1. Pending(k, s) \/ (k = "logIn" /\ s = Top.id)
      BY <1>3, <1>4, <1>5, <2>2 DEF Pending
    <3> QED BY <1>1, <2>1, <3>1 DEF ScreensKnown
  <2> QED BY <1>1, <1>5, <2>2, KnownStays
<1>10. LogInCalls' = {c} /\ LogInAnswers' = {}
  BY <1>3, <1>4, <1>5, <1>6 DEF LogInCalls, LogInAnswers
<1>11. OneLogIn'
  <2>1. ASSUME NEW s \in ScreenId, Pending("logIn", s)'
        PROVE  s = Top.id
    BY <1>3, <1>4, <1>5, <1>6, <2>1 DEF Pending
  <2>2. Front'.id = Top.id
    BY <1>2, <1>5 DEF Front, TopIs, Top
  <2> QED BY <1>5, <1>10, <2>1, <2>2 DEF OneLogIn
<1>12. SignedIn'
  BY <1>10 DEF SignedIn
<1>13. mixed' \/ CreatedAlone'
  BY <1>1, <1>3, <1>4, <1>5, CreatedKept DEF SessionInv, Fewer, LogIn, history
<1> QED BY <1>7, <1>8, <1>9, <1>11, <1>12, <1>13 DEF SessionInv

\* The front screen goes, and is no log-in screen.
LEMMA CloseInv ==
    ASSUME SessionInv, Top.kind \notin {"tabs", "logIn"},
           stack' = SubSeq(stack, 1, Len(stack) - 1),
           calls' \subseteq calls \cup {[kind |-> "reset", screen |-> stack[Len(stack) - 1].id,
                                        account |-> NoAccount]},
           calls' \subseteq calls \/ Top.kind = "forgot",
           UNCHANGED <<server, currentUser, answers, screens, covered, field, history>>
    PROVE  SessionInv'
<1> DEFINE c == [kind |-> "reset", screen |-> stack[Len(stack) - 1].id, account |-> NoAccount]
<1>1. TypeOK /\ ScreensInOrder /\ ScreensKnown /\ OneLogIn
  BY DEF SessionInv
<1>2. /\ stack' \in Seq(Screen) /\ stack' # <<>> /\ ScreensInOrder'
      /\ Top' = stack[Len(stack) - 1] /\ Presents(Top'.kind, Top.kind)
      /\ Len(stack) \in Nat /\ Len(stack) >= 2 /\ DOMAIN stack = 1 .. Len(stack)
      /\ Len(stack) - 1 \in DOMAIN stack /\ Top' \in Screen
  <2>1. Len(stack) \in Nat /\ Len(stack) >= 2 /\ DOMAIN stack = 1 .. Len(stack)
    BY <1>1, Screens
  <2>2. Len(stack) - 1 \in DOMAIN stack
    BY <2>1
  <2> QED BY <1>1, <2>1, <2>2, Pop, Screens
<1>3. ASSUME Top.kind = "forgot"
      PROVE  c \in Call /\ Known("reset", c.screen)
  <2>1. Top'.kind = "logIn" /\ Top'.id \in ScreenId
    BY <1>2, <1>3 DEF Presents, Screen
  <2>2. c.screen = Top'.id /\ c \in Call
    BY <1>2, <2>1 DEF Call, CallKind, MaybeAccount
  <2>3. Top'.id # 0
    BY <2>1 DEF ScreenId
  <2>4. \A i \in DOMAIN stack : stack[i].id = Top'.id => stack[i] = Top'
    BY <1>1, <1>2, <2>3 DEF ScreensKnown
  <2> QED BY <1>1, <1>2, <2>1, <2>2, <2>4 DEF Known, ScreensKnown, Caller
<1>4. calls' \subseteq Call
  BY <1>1, <1>3 DEF TypeOK
<1>5. TypeOK'
  BY <1>1, <1>2, <1>4 DEF TypeOK, server, history
<1>6. ScreensKnown'
  <2>1. ASSUME NEW k \in CallKind, NEW s \in ScreenId, Pending(k, s)'
        PROVE  Known(k, s)
    <3>1. Pending(k, s) \/ (k = "reset" /\ s = c.screen /\ Top.kind = "forgot")
      BY <2>1 DEF Pending
    <3> QED BY <1>1, <1>3, <3>1 DEF ScreensKnown
  <2> QED BY <1>1, <2>1, KnownPop
<1>7. LogInCalls' \subseteq LogInCalls /\ Fewer
  BY DEF LogInCalls, Fewer
<1>8. OneLogIn'
  <2>1. CASE Top.kind = "alert"
    <3>1. Front = Top' /\ Top'.kind # "alert" /\ Front' = Top'
      BY <1>2, <2>1 DEF Front, TopIs, Top, Presents
    <3> QED BY <1>1, <1>7, <3>1, LogInKept DEF OneLogIn
  <2>2. CASE Top.kind # "alert"
    <3>1. \A s \in ScreenId : ~ Pending("logIn", s)
      BY <1>1, <2>2, FreeToLogIn
    <3> QED BY <1>1, <1>7, <3>1, LogInKept
  <2> QED BY <2>1, <2>2
<1>9. SignedIn'
  BY <1>1, <1>7, SignedInKept DEF SessionInv, history
<1>10. UserInTabs' /\ OwnProfile'
  BY <1>2 DEF SessionInv, UserInTabs, OwnProfile, TopIs, Presents, server, history
<1>11. mixed' \/ CreatedAlone'
  BY <1>1, <1>7, CreatedKept DEF SessionInv, history
<1> QED BY <1>2, <1>5, <1>6, <1>8, <1>9, <1>10, <1>11 DEF SessionInv

LEMMA CloseForgotInv == ASSUME SessionInv, CloseForgot PROVE SessionInv'
<1>1. Top.kind = "forgot" /\ Top.kind \notin {"tabs", "logIn"}
  BY DEF CloseForgot, TopIs
<1> QED BY <1>1, CloseInv DEF CloseForgot, Start

LEMMA CloseAlertInv == ASSUME SessionInv, CloseAlert PROVE SessionInv'
<1>1. Top.kind \notin {"tabs", "logIn"}
  BY DEF CloseAlert, TopIs
<1> QED BY <1>1, CloseInv DEF CloseAlert

\* The dismissal of a sign-up screen: it goes, or what it presented.
LEMMA DismissSignUp ==
    ASSUME TypeOK, ScreensInOrder, NEW s,
           \A i \in DOMAIN stack : stack[i].id = s => stack[i].kind = "signUp"
    PROVE  \/ Dismissed(s) = stack
           \/ /\ Dismissed(s) = SubSeq(stack, 1, Len(stack) - 1)
              /\ Top.kind \notin {"tabs", "logIn"}
              /\ Top.kind = "alert" => stack[Len(stack) - 1].kind = "signUp"
<1> DEFINE below == {i \in DOMAIN stack : stack[i].id = s}
<1>1. CASE below = {}
  BY <1>1 DEF Dismissed
<1>2. CASE below # {}
  <2> DEFINE i == CHOOSE j \in below : TRUE
  <2>1. i \in DOMAIN stack /\ stack[i].kind = "signUp"
    BY <1>2
  <2>2. Dismissed(s) = SubSeq(stack, 1, IF i = Len(stack) THEN i - 1 ELSE i)
    BY <1>2 DEF Dismissed
  <2> HIDE DEF i
  <2>3. DOMAIN stack = 1 .. Len(stack) /\ Len(stack) \in Nat \ {0}
    BY Screens
  <2>4. CASE i = Len(stack)
    BY <2>1, <2>2, <2>3, <2>4 DEF Top
  <2>5. CASE i # Len(stack)
    <3>1. i + 1 \in 2 .. Len(stack) /\ (i + 1) - 1 = i
      BY <2>1, <2>3, <2>5
    <3>2. stack[i + 1].kind \in {"alert", "deadAlert"}
      <4>1. Presents(stack[i].kind, stack[i + 1].kind)
        BY <3>1 DEF ScreensInOrder
      <4> QED BY <2>1, <4>1 DEF Presents
    <3>3. i + 1 = Len(stack)
      <4>1. ASSUME i + 2 \in 2 .. Len(stack) PROVE FALSE
        <5>1. Presents(stack[i + 1].kind, stack[i + 2].kind)
          <6>1. (i + 2) - 1 = i + 1
            BY <2>1, <2>3
          <6> QED BY <4>1, <6>1 DEF ScreensInOrder
        <5> QED BY <3>2, <5>1 DEF Presents
      <4> QED BY <2>1, <2>3, <3>1, <4>1
    <3>4. i = Len(stack) - 1
      BY <2>1, <2>3, <3>3
    <3> QED BY <2>1, <2>2, <2>5, <3>2, <3>3, <3>4 DEF Top
  <2> QED BY <2>4, <2>5
<1> QED BY <1>1, <1>2

LEMMA CancelSignUpInv == ASSUME SessionInv, CancelSignUp PROVE SessionInv'
<1>1. TypeOK /\ ScreensInOrder /\ ScreensKnown /\ Top.kind = "signUp"
  BY DEF SessionInv, CancelSignUp, TopIs
<1>2. \A i \in DOMAIN stack : stack[i].id = Top.id => stack[i].kind = "signUp"
  <2>1. Len(stack) \in DOMAIN stack /\ Top = stack[Len(stack)] /\ Top.id # 0
    BY <1>1, Screens DEF Top, Screen, ScreenId
  <2> QED BY <1>1, <2>1 DEF ScreensKnown
<1>3. \/ stack' = stack
      \/ stack' = SubSeq(stack, 1, Len(stack) - 1) /\ Top.kind \notin {"tabs", "logIn"}
  BY <1>1, <1>2, DismissSignUp DEF CancelSignUp
<1>4. CASE stack' = SubSeq(stack, 1, Len(stack) - 1)
  BY <1>1, <1>4, CloseInv DEF CancelSignUp
<1>5. CASE stack' = stack
  BY <1>5 DEF CancelSignUp, SessionInv, TypeOK, ScreensInOrder, ScreensKnown, Known, Pending,
     OneLogIn, Front, LogInCalls, LogInAnswers, SignedIn, CreatedAlone, UserInTabs, OwnProfile,
     TopIs, Top, server, history
<1> QED BY <1>3, <1>4, <1>5

LEMMA EditInv == ASSUME SessionInv, NEW a \in MaybeAccount, Edit(a) PROVE SessionInv'
<1>1. /\ UNCHANGED <<server, currentUser, calls, answers, stack, screens, covered, mailEnded>>
      /\ field' = [field EXCEPT ![Top.id] = a] /\ mixed' = (mixed \/ Creating(Top.id))
  BY DEF Edit
<1>2. TypeOK'
  <2>1. field' \in [ScreenId -> MaybeAccount]
    BY <1>1 DEF SessionInv, TypeOK
  <2>2. mixed' \in BOOLEAN
    BY <1>1 DEF SessionInv, TypeOK
  <2> QED BY <1>1, <2>1, <2>2 DEF SessionInv, TypeOK, server
<1>3. ScreensInOrder' /\ ScreensKnown' /\ UserInTabs'
  BY <1>1 DEF SessionInv, ScreensInOrder, ScreensKnown, Known, Pending, UserInTabs, TopIs, Top
<1>4. OneLogIn' /\ SignedIn'
  BY <1>1 DEF SessionInv, OneLogIn, SignedIn, LogInCalls, LogInAnswers, Pending, Front, TopIs, Top
<1>5. OwnProfile'
  BY <1>1 DEF SessionInv, OwnProfile, server
<1>6. mixed' \/ CreatedAlone'
  <2> SUFFICES ASSUME ~ mixed, ~ Creating(Top.id) PROVE CreatedAlone'
    BY <1>1
  <2>1. CreatedAlone
    BY DEF SessionInv
  <2>2. \A c \in calls : c.kind = "create" => c.screen # Top.id /\ field'[c.screen] = field[c.screen]
    <3>1. \A c \in calls : c.screen \in ScreenId
      BY DEF SessionInv, TypeOK, Call
    <3>2. field \in [ScreenId -> MaybeAccount]
      BY DEF SessionInv, TypeOK
    <3> QED BY <1>1, <3>1, <3>2 DEF Creating
  <2>3. \A i \in DOMAIN answers : answers[i].kind = "create" =>
            field'[answers[i].screen] = field[answers[i].screen]
    <3>1. \A i \in DOMAIN answers : answers[i] \in Answer
      BY DEF SessionInv, TypeOK
    <3>2. \A i \in DOMAIN answers : answers[i].screen \in ScreenId
      BY <3>1 DEF Answer
    <3>3. field \in [ScreenId -> MaybeAccount]
      BY DEF SessionInv, TypeOK
    <3> QED BY <1>1, <3>2, <3>3 DEF Creating
  <2> QED BY <1>1, <2>1, <2>2, <2>3 DEF CreatedAlone
<1> QED BY <1>2, <1>3, <1>4, <1>5, <1>6 DEF SessionInv

LEMMA VerifyInv == ASSUME SessionInv, NEW a \in Accounts, Verify(a) PROVE SessionInv'
<1>1. /\ UNCHANGED <<exists, mailed, profile, currentUser, calls, answers, stack, screens, covered,
                     field, history>>
      /\ a \in mailed /\ verified' = verified \cup {a}
  BY DEF Verify
<1>2. TypeOK'
  BY <1>1 DEF SessionInv, TypeOK, history
<1>3. ScreensInOrder' /\ ScreensKnown' /\ UserInTabs' /\ OwnProfile'
  BY <1>1 DEF SessionInv, ScreensInOrder, ScreensKnown, Known, Pending, UserInTabs, OwnProfile,
     TopIs, Top, history
<1>4. OneLogIn' /\ SignedIn' /\ (mixed' \/ CreatedAlone')
  BY <1>1 DEF SessionInv, OneLogIn, SignedIn, CreatedAlone, LogInCalls, LogInAnswers, Pending,
     Front, TopIs, Top, history
<1> QED BY <1>2, <1>3, <1>4 DEF SessionInv

\* An alert is presented over the screen s, if that is in front.
LEMMA AlertInv ==
    ASSUME SessionInv, NEW s \in ScreenId, NEW kind \in {"alert", "deadAlert"},
           kind = "deadAlert" => \A i \in DOMAIN stack : stack[i].id = s => stack[i].kind = "signUp",
           stack' = Presented(s, kind), UNCHANGED <<screens, covered>>,
           \A k \in CallKind, r \in ScreenId : Pending(k, r)' => Known(k, r),
           LogInCalls' \subseteq LogInCalls, Fewer
    PROVE  /\ stack' \in Seq(Screen) /\ stack' # <<>>
           /\ ScreensInOrder' /\ ScreensKnown' /\ OneLogIn'
           /\ TopIs("tabs")' => TopIs("tabs")
<1> DEFINE x == [kind |-> kind, id |-> 0]
<1>1. TypeOK /\ ScreensInOrder /\ ScreensKnown /\ OneLogIn
  BY DEF SessionInv
<1>2. CASE Top.id # s
  <2>1. stack' = stack
    BY <1>2 DEF Presented
  <2>2. Front' = Front
    BY <2>1 DEF Front, TopIs, Top
  <2>3. OneLogIn'
    BY <1>1, <2>2, LogInKept DEF OneLogIn
  <2>4. ScreensKnown'
    BY <1>1, <2>1, KnownStays
  <2> QED BY <1>1, <2>1, <2>3, <2>4 DEF TypeOK, ScreensInOrder, TopIs, Top
<1>3. CASE Top.id = s
  <2>1. stack' = Append(stack, x) /\ x \in Screen /\ x.kind = kind /\ x.id = 0
    BY <1>3 DEF Presented, Screen
  <2> HIDE DEF x
  <2>2. Top.kind \in {"logIn", "signUp"}
    BY <1>1, <1>3, Screens DEF Screen, ScreenId
  <2>3. kind = "deadAlert" => Top.kind = "signUp"
    BY <1>1, <1>3, Screens DEF Top
  <2>4. Presents(Top.kind, x.kind)
    BY <2>1, <2>2, <2>3 DEF Presents
  <2>5. /\ stack' \in Seq(Screen) /\ stack' # <<>> /\ ScreensInOrder'
        /\ Len(stack') = Len(stack) + 1 /\ Top' = x
        /\ \A i \in 1 .. Len(stack) : stack'[i] = stack[i]
    BY <1>1, <2>1, <2>4, Push
  <2>6. ScreensKnown'
    BY <1>1, <2>1, <2>4, KnownPush
  <2>7. OneLogIn'
    <3>1. CASE kind = "alert"
      <4>1. Front = Top
        BY <2>2 DEF Front, TopIs, Top
      <4>2. Len(stack) \in Nat \ {0} /\ (Len(stack) + 1) - 1 = Len(stack)
        BY <1>1, Screens
      <4>3. Front' = stack'[Len(stack)]
        BY <2>1, <2>5, <3>1, <4>2 DEF Front, TopIs
      <4>4. Front' = Top
        BY <2>5, <4>2, <4>3 DEF Top
      <4> QED BY <1>1, <4>1, <4>4, LogInKept DEF OneLogIn
    <3>2. CASE kind = "deadAlert"
      <4>1. \A r \in ScreenId : ~ Pending("logIn", r)
        BY <1>1, <2>3, <3>2, FreeToLogIn
      <4> QED BY <1>1, <4>1, LogInKept
    <3> QED BY <3>1, <3>2
  <2> QED BY <2>1, <2>5, <2>6, <2>7 DEF TopIs
<1> QED BY <1>2, <1>3

\* Creating an account: the call is of what the fields say.
LEMMA CreateAccountInv == ASSUME SessionInv, CreateAccount PROVE SessionInv'
<1>1. TypeOK /\ ScreensInOrder /\ ScreensKnown /\ OneLogIn
  BY DEF SessionInv
<1>2. Top.kind = "signUp" /\ Top.id \in ScreenId /\ Top.id # 0
  BY <1>1, Screens DEF CreateAccount, TopIs, Screen, ScreenId
<1>3. UNCHANGED <<server, currentUser, answers, screens, covered, field, history>>
  BY DEF CreateAccount
<1>4. CASE field[Top.id] # NoAccount
  <2> DEFINE c == [kind |-> "create", screen |-> Top.id, account |-> field[Top.id]]
  <2>1. c \in Call /\ c.kind = "create" /\ c.screen = Top.id /\ c.account = field[Top.id]
    BY <1>1, <1>2, <1>4 DEF TypeOK, Call, MaybeAccount
  <2>2. calls' = calls \cup {c} /\ stack' = stack
    BY <1>4 DEF CreateAccount, Start
  <2> HIDE DEF c
  <2>3. TypeOK'
    BY <1>1, <1>3, <2>1, <2>2 DEF TypeOK, server, history
  <2>4. ScreensInOrder' /\ UserInTabs' /\ OwnProfile'
    BY <1>3, <2>2 DEF SessionInv, ScreensInOrder, UserInTabs, OwnProfile, TopIs, Top, server, history
  <2>5. ScreensKnown'
    <3>1. Known("create", Top.id)
      <4>1. Len(stack) \in DOMAIN stack /\ Top = stack[Len(stack)]
        BY <1>1, Screens DEF Top
      <4>2. \A i \in DOMAIN stack : stack[i].id = Top.id => stack[i] = Top
        BY <1>1, <1>2, <4>1 DEF ScreensKnown
      <4> QED BY <1>1, <1>2, <4>1, <4>2 DEF Known, ScreensKnown, Caller
    <3>2. ASSUME NEW k \in CallKind, NEW s \in ScreenId, Pending(k, s)'
          PROVE  Known(k, s)
      <4>1. Pending(k, s) \/ (k = "create" /\ s = Top.id)
        BY <1>3, <2>1, <2>2, <3>2 DEF Pending
      <4> QED BY <1>1, <3>1, <4>1 DEF ScreensKnown
    <3> QED BY <1>1, <1>3, <2>2, <3>2, KnownStays
  <2>6. OneLogIn' /\ SignedIn'
    <3>1. LogInCalls' \subseteq LogInCalls /\ Fewer
      BY <1>3, <2>1, <2>2 DEF LogInCalls, Fewer
    <3>2. Front' = Front
      BY <2>2 DEF Front, TopIs, Top
    <3> QED BY <1>1, <1>3, <3>1, <3>2, LogInKept, SignedInKept DEF SessionInv, OneLogIn, history
  <2>7. mixed' \/ CreatedAlone'
    BY <1>3, <2>1, <2>2 DEF SessionInv, CreatedAlone, history
  <2> QED BY <2>3, <2>4, <2>5, <2>6, <2>7 DEF SessionInv
<1>5. CASE field[Top.id] = NoAccount
  <2>1. stack' = Presented(Top.id, "alert") /\ calls' = calls
    BY <1>5 DEF CreateAccount
  <2>2. Fewer /\ LogInCalls' \subseteq LogInCalls
    BY <1>3, <2>1 DEF Fewer, LogInCalls
  <2>3. \A k \in CallKind, r \in ScreenId : Pending(k, r)' => Known(k, r)
    BY <1>1, <1>3, <2>1 DEF Pending, ScreensKnown
  <2>4. /\ stack' \in Seq(Screen) /\ stack' # <<>>
        /\ ScreensInOrder' /\ ScreensKnown' /\ OneLogIn'
        /\ TopIs("tabs")' => TopIs("tabs")
    BY <1>2, <1>3, <2>1, <2>2, <2>3, AlertInv
  <2>5. TypeOK'
    BY <1>1, <1>3, <2>1, <2>4 DEF TypeOK, server, history
  <2>6. SignedIn' /\ (mixed' \/ CreatedAlone')
    BY <1>1, <1>3, <2>1, <2>2, SignedInKept, CreatedKept DEF SessionInv, history
  <2>7. UserInTabs' /\ OwnProfile'
    BY <1>3, <2>4 DEF SessionInv, UserInTabs, OwnProfile, server, history
  <2> QED BY <2>4, <2>5, <2>6, <2>7 DEF SessionInv
<1> QED BY <1>4, <1>5

-----------------------------------------------------------------------------
LEMMA RelaunchInv == ASSUME SessionInv, Relaunch PROVE SessionInv'
<1> DEFINE x == RootScreen(currentUser)
<1>1. /\ calls' = {} /\ answers' = <<>> /\ stack' = <<x>>
      /\ screens' = (IF currentUser = NoAccount THEN 1 ELSE 0)
      /\ covered' = {} /\ field' = [s \in ScreenId |-> NoAccount] /\ mailEnded' = FALSE
      /\ UNCHANGED <<mailed, verified, profile, currentUser, mixed>>
  BY DEF Relaunch
<1>2. /\ x \in Screen
      /\ currentUser = NoAccount => x.kind = "logIn" /\ x.id = 1
      /\ currentUser # NoAccount => x.kind = "tabs" /\ x.id = 0
  BY SessionAssumption DEF RootScreen, Screen, ScreenId
<1> HIDE DEF x
<1>3. /\ stack' \in Seq(Screen) /\ stack' # <<>> /\ Len(stack') = 1 /\ stack'[1] = x
      /\ DOMAIN stack' = {1} /\ Top' = x
  <2>1. stack' \in Seq(Screen) /\ stack' # <<>> /\ Len(stack') = 1 /\ stack'[1] = x
    BY <1>1, <1>2
  <2> QED BY <2>1 DEF Top
<1>4. answers' \in Seq(Answer) /\ DOMAIN answers' = {}
  BY <1>1
<1>5. TypeOK'
  <2>1. exists' \subseteq Accounts
    <3>1. PICK S \in SUBSET {c.account : c \in {d \in calls : d.kind = "create"}} :
             exists' = exists \cup S
      BY DEF Relaunch
    <3>2. \A c \in calls : c.kind = "create" => c.account \in Accounts
      BY DEF SessionInv, TypeOK, Call
    <3> QED BY <3>1, <3>2 DEF SessionInv, TypeOK
  <2>2. screens' \in 0 .. MaxScreens
    BY <1>1, SessionAssumption
  <2>3. field' \in [ScreenId -> MaybeAccount]
    BY <1>1 DEF MaybeAccount
  <2> QED BY <1>1, <1>3, <1>4, <2>1, <2>2, <2>3 DEF SessionInv, TypeOK
<1>6. ScreensInOrder'
  BY <1>2, <1>3 DEF ScreensInOrder
<1>7. ScreensKnown'
  <2>1. \A k \in CallKind, s \in ScreenId : ~ Pending(k, s)'
    BY <1>1, <1>4 DEF Pending
  <2>2. x.id <= screens'
    BY <1>1, <1>2
  <2> QED BY <1>3, <2>1, <2>2 DEF ScreensKnown
<1>8. OneLogIn' /\ SignedIn'
  BY <1>1, <1>4, NoneWaits DEF LogInCalls, LogInAnswers
<1>9. CreatedAlone'
  BY <1>1, <1>4 DEF CreatedAlone
<1>10. UserInTabs' /\ OwnProfile'
  BY <1>1, <1>2, <1>3 DEF SessionInv, UserInTabs, OwnProfile, TopIs
<1> QED BY <1>5, <1>6, <1>7, <1>8, <1>9, <1>10 DEF SessionInv

LEMMA ResetDoneInv == ASSUME SessionInv, ResetDone PROVE SessionInv'
<1> DEFINE a == Head(answers)
<1>1. TypeOK /\ ScreensInOrder /\ ScreensKnown /\ OneLogIn
  BY DEF SessionInv
<1>2. /\ stack' = Presented(a.screen, "alert") /\ answers' = Tail(answers)
      /\ UNCHANGED <<server, currentUser, calls, screens, covered, field, history>>
  BY DEF ResetDone
<1>3. a.screen \in ScreenId /\ Fewer /\ answers' \in Seq(Answer)
  BY <1>1, HeadPending DEF ResetDone
<1> HIDE DEF a
<1>4. LogInCalls' \subseteq LogInCalls
  BY <1>2 DEF LogInCalls
<1>5. \A k \in CallKind, r \in ScreenId : Pending(k, r)' => Known(k, r)
  BY <1>1, <1>2, <1>3, StillPending DEF ScreensKnown
<1>6. /\ stack' \in Seq(Screen) /\ stack' # <<>>
      /\ ScreensInOrder' /\ ScreensKnown' /\ OneLogIn'
      /\ TopIs("tabs")' => TopIs("tabs")
  BY <1>2, <1>3, <1>4, <1>5, AlertInv
<1>7. TypeOK'
  BY <1>1, <1>2, <1>3, <1>6 DEF TypeOK, server, history
<1>8. SignedIn' /\ (mixed' \/ CreatedAlone')
  BY <1>1, <1>2, <1>3, SignedInKept, CreatedKept DEF SessionInv, history
<1>9. UserInTabs' /\ OwnProfile'
  BY <1>2, <1>6 DEF SessionInv, UserInTabs, OwnProfile, server, history
<1> QED BY <1>6, <1>7, <1>8, <1>9 DEF SessionInv

\* The mail of a sign-up: only its own screen, a sign-up screen, is told.
LEMMA MailDoneInv == ASSUME SessionInv, MailDone PROVE SessionInv'
<1> DEFINE a == Head(answers)
<1>1. TypeOK /\ ScreensInOrder /\ ScreensKnown /\ OneLogIn
  BY DEF SessionInv
<1>2. /\ stack' = (IF a.ok THEN stack ELSE Presented(a.screen, "deadAlert"))
      /\ answers' = Tail(answers) /\ currentUser' = NoAccount /\ mailEnded' = TRUE
      /\ UNCHANGED <<server, calls, screens, covered, field, mixed>>
  BY DEF MailDone
<1>3. a.screen \in ScreenId /\ Fewer /\ answers' \in Seq(Answer) /\ Pending("mail", a.screen)
  BY <1>1, HeadPending DEF MailDone
<1> HIDE DEF a
<1>4. LogInCalls' \subseteq LogInCalls
  BY <1>2 DEF LogInCalls
<1>5. \A k \in CallKind, r \in ScreenId : Pending(k, r)' => Known(k, r)
  BY <1>1, <1>2, <1>3, StillPending DEF ScreensKnown
<1>6. \A i \in DOMAIN stack : stack[i].id = a.screen => stack[i].kind = "signUp"
  <2>1. "mail" \in CallKind /\ Caller("mail") = "signUp"
    BY DEF CallKind, Caller
  <2> QED BY <1>1, <1>3, <2>1 DEF ScreensKnown, Known
<1>7. /\ stack' \in Seq(Screen) /\ stack' # <<>>
      /\ ScreensInOrder' /\ ScreensKnown' /\ OneLogIn'
  <2>1. CASE a.ok
    <3>1. stack' = stack
      BY <1>2, <2>1
    <3>2. Front' = Front
      BY <3>1 DEF Front, TopIs, Top
    <3>3. OneLogIn'
      BY <1>1, <1>2, <1>3, <1>4, <3>2, LogInKept DEF OneLogIn
    <3>4. ScreensKnown'
      BY <1>1, <1>2, <1>5, <3>1, KnownStays
    <3> QED BY <1>1, <3>1, <3>3, <3>4 DEF TypeOK, ScreensInOrder
  <2>2. CASE ~ a.ok
    <3>1. stack' = Presented(a.screen, "deadAlert")
      BY <1>2, <2>2
    <3> QED BY <1>2, <1>3, <1>4, <1>5, <1>6, <3>1, AlertInv
  <2> QED BY <2>1, <2>2
<1>8. TypeOK'
  BY <1>1, <1>2, <1>3, <1>7 DEF TypeOK, server, MaybeAccount
<1>9. SignedIn' /\ (mixed' \/ CreatedAlone')
  BY <1>1, <1>2, <1>3, SignedInKept, CreatedKept DEF SessionInv
<1>10. UserInTabs' /\ OwnProfile'
  BY <1>2 DEF SessionInv, UserInTabs, OwnProfile, server
<1> QED BY <1>7, <1>8, <1>9, <1>10 DEF SessionInv

\* The sign-in of sendEmail asks for a mail, for the same screen.
LEMMA MailSignInDoneInv == ASSUME SessionInv, MailSignInDone PROVE SessionInv'
<1> DEFINE a == Head(answers)
           c == [kind |-> "mail", screen |-> a.screen, account |-> currentUser]
<1>1. TypeOK /\ ScreensInOrder /\ ScreensKnown /\ OneLogIn
  BY DEF SessionInv
<1>2. /\ answers' = Tail(answers) /\ (calls' = calls \/ (currentUser # NoAccount /\ calls' = calls \cup {c}))
      /\ UNCHANGED <<server, currentUser, stack, screens, covered, field, history>>
  BY DEF MailSignInDone, Start
<1>3. /\ a.screen \in ScreenId /\ Fewer /\ answers' \in Seq(Answer)
      /\ Pending("mailSignIn", a.screen)
  BY <1>1, HeadPending DEF MailSignInDone
<1> HIDE DEF a
<1>4. /\ currentUser # NoAccount => c \in Call
      /\ c.kind = "mail" /\ c.screen = a.screen
  BY <1>1, <1>3 DEF TypeOK, Call, MaybeAccount
<1> HIDE DEF c
<1>5. LogInCalls' \subseteq LogInCalls
  BY <1>2, <1>4 DEF LogInCalls
<1>6. Known("mail", a.screen)
  <2>1. "mailSignIn" \in CallKind /\ Caller("mailSignIn") = Caller("mail")
    BY DEF CallKind, Caller
  <2> QED BY <1>1, <1>3, <2>1 DEF ScreensKnown, Known
<1>7. ASSUME NEW k \in CallKind, NEW r \in ScreenId, Pending(k, r)'
      PROVE  Known(k, r)
  <2>1. Pending(k, r) \/ (k = "mail" /\ r = a.screen)
    BY <1>1, <1>2, <1>3, <1>4, <1>7, StillPending
  <2> QED BY <1>1, <1>6, <2>1 DEF ScreensKnown
<1>8. ScreensKnown' /\ ScreensInOrder'
  BY <1>1, <1>2, <1>7, KnownStays DEF ScreensInOrder
<1>9. OneLogIn'
  <2>1. Front' = Front
    BY <1>2 DEF Front, TopIs, Top
  <2> QED BY <1>1, <1>2, <1>3, <1>5, <2>1, LogInKept DEF OneLogIn
<1>10. TypeOK'
  BY <1>1, <1>2, <1>3, <1>4 DEF TypeOK, server, history
<1>11. SignedIn' /\ (mixed' \/ CreatedAlone')
  <2>1. \A d \in calls' : d \in calls \/ d.kind # "create"
    BY <1>2, <1>4
  <2> QED BY <1>1, <1>2, <1>3, <2>1, SignedInKept, CreatedKept DEF SessionInv, history
<1>12. UserInTabs' /\ OwnProfile'
  BY <1>2 DEF SessionInv, UserInTabs, OwnProfile, TopIs, Top, server, history
<1> QED BY <1>8, <1>9, <1>10, <1>11, <1>12 DEF SessionInv

\* The sign-in that ends was the only one: what it presents has a user.
LEMMA LogInDoneInv == ASSUME SessionInv, LogInDone PROVE SessionInv'
<1> DEFINE a == Head(answers)
           kind == IF a.ok /\ a.verified THEN "tabs" ELSE "alert"
           x == [kind |-> kind, id |-> 0]
<1>1. TypeOK /\ ScreensInOrder /\ ScreensKnown /\ OneLogIn
  BY DEF SessionInv
<1>2. /\ stack' = Presented(a.screen, kind) /\ answers' = Tail(answers)
      /\ currentUser' = (IF a.ok /\ ~a.verified THEN NoAccount ELSE currentUser)
      /\ UNCHANGED <<server, calls, screens, covered, field, history>>
  BY DEF LogInDone
<1>3. /\ a.screen \in ScreenId /\ Fewer /\ answers' \in Seq(Answer) /\ Pending("logIn", a.screen)
      /\ a = answers[1] /\ 1 \in DOMAIN answers /\ a.kind = "logIn" /\ answers # <<>>
  BY <1>1, HeadPending DEF LogInDone, IsNext
<1> HIDE DEF a
<1>4. LogInCalls' = {} /\ LogInAnswers' = {}
  <2>1. 1 \in LogInAnswers
    BY <1>3 DEF LogInAnswers
  <2>2. LogInCalls' = {}
    BY <1>1, <1>2, <2>1 DEF OneLogIn, LogInCalls
  <2>3. ASSUME NEW i \in LogInAnswers' PROVE FALSE
    <3>1. i \in 1 .. Len(answers) - 1 /\ i + 1 \in DOMAIN answers /\ answers'[i] = answers[i + 1]
      BY <1>1, <1>2, <1>3, TailAnswers DEF TypeOK, LogInAnswers
    <3>2. i + 1 \in LogInAnswers /\ i + 1 # 1
      BY <3>1 DEF LogInAnswers
    <3> QED BY <1>1, <2>1, <3>2 DEF OneLogIn
  <2> QED BY <2>2, <2>3
<1>5. OneLogIn' /\ SignedIn'
  BY <1>4, NoneWaits
<1>6. \A k \in CallKind, r \in ScreenId : Pending(k, r)' => Known(k, r)
  BY <1>1, <1>2, <1>3, StillPending DEF ScreensKnown
<1>7. /\ stack' \in Seq(Screen) /\ stack' # <<>> /\ ScreensInOrder' /\ ScreensKnown'
      /\ TopIs("tabs")' => TopIs("tabs") \/ (a.ok /\ a.verified)
      /\ Top'.kind = "tabs" => (a.ok /\ a.verified) \/ currentUser' = currentUser
  <2>1. CASE Top.id # a.screen
    <3>1. stack' = stack
      BY <1>2, <2>1 DEF Presented
    <3>2. Top.kind = "alert"
      BY <1>1, <1>3, <2>1 DEF OneLogIn, Front, TopIs, Top
    <3>3. ScreensKnown'
      BY <1>1, <1>2, <1>6, <3>1, KnownStays
    <3> QED BY <1>1, <3>1, <3>2, <3>3 DEF TypeOK, ScreensInOrder, TopIs, Top
  <2>2. CASE Top.id = a.screen
    <3>1. /\ stack' = Append(stack, x) /\ x \in Screen /\ x.id = 0
          /\ x.kind \in {"tabs", "alert"} /\ (x.kind = "tabs" => a.ok /\ a.verified)
      BY <1>2, <2>2 DEF Presented, Screen
    <3> HIDE DEF x
    <3>2. Top.kind = "logIn"
      <4>1. Len(stack) \in DOMAIN stack /\ Top = stack[Len(stack)]
        BY <1>1, Screens DEF Top
      <4>2. "logIn" \in CallKind /\ Caller("logIn") = "logIn"
        BY DEF CallKind, Caller
      <4> QED BY <1>1, <1>3, <2>2, <4>1, <4>2 DEF ScreensKnown, Known
    <3>3. Presents(Top.kind, x.kind)
      BY <3>1, <3>2 DEF Presents
    <3>4. stack' \in Seq(Screen) /\ stack' # <<>> /\ ScreensInOrder' /\ Top' = x
      BY <1>1, <3>1, <3>3, Push
    <3>5. ScreensKnown'
      BY <1>1, <1>2, <1>6, <3>1, <3>3, KnownPush
    <3> QED BY <3>1, <3>4, <3>5 DEF TopIs
  <2> QED BY <2>1, <2>2
<1>8. TypeOK'
  BY <1>1, <1>2, <1>3, <1>7 DEF TypeOK, MaybeAccount, server, history
<1>9. UserInTabs'
  <2> SUFFICES ASSUME TopIs("tabs")', currentUser' = NoAccount PROVE mailEnded
    BY <1>2 DEF UserInTabs, history
  <2>1. CASE a.ok /\ a.verified
    <3>1. 1 \in LogInAnswers /\ answers[1].ok
      BY <1>3, <2>1 DEF LogInAnswers
    <3> QED BY <1>2, <2>1, <3>1 DEF SessionInv, SignedIn
  <2>2. CASE ~ (a.ok /\ a.verified)
    <3>1. TopIs("tabs") /\ currentUser' = currentUser
      BY <1>7, <2>2 DEF TopIs
    <3> QED BY <3>1 DEF SessionInv, UserInTabs
  <2> QED BY <2>1, <2>2
<1>10. OwnProfile'
  BY <1>2 DEF SessionInv, OwnProfile, server, history
<1>11. mixed' \/ CreatedAlone'
  BY <1>1, <1>2, <1>3, CreatedKept DEF SessionInv, history
<1> QED BY <1>5, <1>7, <1>8, <1>9, <1>10, <1>11 DEF SessionInv

\* An answer, by what Auth did.
LEMMA Answers ==
    ASSUME TypeOK, NEW c \in calls, Answered(c)
    PROVE  \E n \in Answer :
              /\ answers' = Append(answers, n)
              /\ n.kind = c.kind /\ n.screen = c.screen /\ n.account = c.account
              /\ n.ok /\ c.kind \in {"logIn", "create"} => currentUser' = c.account
              /\ exists' \subseteq Accounts /\ mailed' \subseteq Accounts /\ mailed \subseteq mailed'
              /\ currentUser' = currentUser \/ currentUser' \in Accounts
<1>1. PICK ok \in BOOLEAN :
          /\ IF ok THEN Succeeds(c) ELSE UNCHANGED <<exists, mailed, currentUser>>
          /\ answers' = Append(answers,
                 [kind |-> c.kind, screen |-> c.screen, account |-> c.account,
                  ok |-> ok, verified |-> c.account \in verified])
  BY DEF Answered
<1> DEFINE n == [kind |-> c.kind, screen |-> c.screen, account |-> c.account,
                 ok |-> ok, verified |-> c.account \in verified]
<1>2. /\ c.kind \in CallKind /\ c.screen \in ScreenId /\ c.account \in MaybeAccount
      /\ c.kind \in {"logIn", "create", "mail"} => c.account \in Accounts
  BY DEF TypeOK, Call, CallKind, MaybeAccount
<1>3. /\ n \in Answer /\ answers' = Append(answers, n)
      /\ n.kind = c.kind /\ n.screen = c.screen /\ n.account = c.account /\ n.ok = ok
  BY <1>1, <1>2 DEF Answer
<1> HIDE DEF n
<1>4. /\ ok /\ c.kind \in {"logIn", "create"} => currentUser' = c.account
      /\ exists' \subseteq Accounts /\ mailed' \subseteq Accounts /\ mailed \subseteq mailed'
      /\ currentUser' = currentUser \/ currentUser' \in Accounts
  <2>1. CASE ~ ok
    BY <1>1, <2>1 DEF TypeOK
  <2>2. CASE ok /\ c.kind \in {"logIn", "mailSignIn"}
    BY <1>1, <1>2, <2>2 DEF Succeeds, TypeOK
  <2>3. CASE ok /\ c.kind = "create"
    BY <1>1, <1>2, <2>3 DEF Succeeds, TypeOK
  <2>4. CASE ok /\ c.kind = "mail"
    BY <1>1, <1>2, <2>4 DEF Succeeds, TypeOK
  <2>5. CASE ok /\ c.kind = "reset"
    BY <1>1, <1>2, <2>5 DEF Succeeds, TypeOK
  <2> QED BY <1>2, <2>1, <2>2, <2>3, <2>4, <2>5 DEF CallKind
<1> QED BY <1>3, <1>4

LEMMA AnsweredInv == ASSUME SessionInv, NEW c \in calls, Answered(c) PROVE SessionInv'
<1>1. TypeOK /\ ScreensInOrder /\ ScreensKnown /\ OneLogIn
  BY DEF SessionInv
<1>2. PICK n \in Answer :
          /\ answers' = Append(answers, n)
          /\ n.kind = c.kind /\ n.screen = c.screen /\ n.account = c.account
          /\ n.ok /\ c.kind \in {"logIn", "create"} => currentUser' = c.account
          /\ exists' \subseteq Accounts /\ mailed' \subseteq Accounts /\ mailed \subseteq mailed'
          /\ currentUser' = currentUser \/ currentUser' \in Accounts
  BY <1>1, Answers
<1>3. /\ calls' = calls \ {c}
      /\ mixed' = (mixed \/ (currentUser' # currentUser /\ CreateWaits))
      /\ UNCHANGED <<verified, profile, stack, screens, covered, field, mailEnded>>
  BY DEF Answered
<1> DEFINE N == Len(answers)
<1>4. /\ answers' \in Seq(Answer) /\ N \in Nat /\ DOMAIN answers = 1 .. N
      /\ DOMAIN answers' = 1 .. N + 1
      /\ \A i \in 1 .. N : answers'[i] = answers[i]
      /\ answers'[N + 1] = n
  <2>1. answers \in Seq(Answer)
    BY <1>1 DEF TypeOK
  <2>2. answers' \in Seq(Answer) /\ N \in Nat /\ Len(answers') = N + 1
    BY <1>2, <2>1
  <2> QED BY <1>2, <2>1, <2>2
<1> HIDE DEF N
<1>5. \A i \in DOMAIN answers' : i \in DOMAIN answers \/ (i = N + 1 /\ i \notin DOMAIN answers)
  BY <1>4
<1>6. c.kind \in {"logIn", "create"} => c.account \in Accounts
  BY <1>1 DEF TypeOK, Call
<1>7. TypeOK'
  <2>1. mixed' \in BOOLEAN
    BY <1>1, <1>3 DEF TypeOK
  <2> QED BY <1>1, <1>2, <1>3, <1>4, <2>1 DEF TypeOK, MaybeAccount
<1>8. ASSUME NEW k \in CallKind, NEW r \in ScreenId, Pending(k, r)'
      PROVE  Pending(k, r)
  BY <1>2, <1>3, <1>4, <1>5, <1>8 DEF Pending
<1>9. ScreensKnown' /\ ScreensInOrder'
  BY <1>1, <1>3, <1>8, KnownStays DEF ScreensKnown, ScreensInOrder
<1>10. OneLogIn'
  <2>1. Front' = Front
    BY <1>3 DEF Front, TopIs, Top
  <2>2. \A s \in ScreenId : Pending("logIn", s)' => s \in covered' /\ Front'.id = s
    <3>1. "logIn" \in CallKind
      BY DEF CallKind
    <3> QED BY <1>1, <1>3, <1>8, <2>1, <3>1 DEF OneLogIn
  <2>3. CASE c.kind = "logIn"
    <3>1. c \in LogInCalls
      BY <2>3 DEF LogInCalls
    <3>2. LogInCalls' = {} /\ LogInAnswers = {}
      BY <1>1, <1>3, <3>1 DEF OneLogIn, LogInCalls
    <3>3. \A i \in LogInAnswers' : i = N + 1
      BY <1>4, <1>5, <3>2 DEF LogInAnswers
    <3> QED BY <2>2, <3>2, <3>3 DEF OneLogIn
  <2>4. CASE c.kind # "logIn"
    <3>1. LogInCalls' \subseteq LogInCalls
      BY <1>3 DEF LogInCalls
    <3>2. LogInAnswers' \subseteq LogInAnswers
      BY <1>2, <1>4, <1>5, <2>4 DEF LogInAnswers
    <3> QED BY <1>1, <2>2, <3>1, <3>2 DEF OneLogIn
  <2> QED BY <2>3, <2>4
<1>11. SignedIn'
  <2> SUFFICES ASSUME NEW i \in LogInAnswers', answers'[i].ok
               PROVE  currentUser' # NoAccount \/ mailEnded
    BY <1>3 DEF SignedIn
  <2>1. CASE i \in DOMAIN answers
    <3>1. currentUser # NoAccount \/ mailEnded
      BY <1>4, <2>1 DEF SessionInv, SignedIn, LogInAnswers
    <3> QED BY <1>2, <3>1, SessionAssumption
  <2>2. CASE i = N + 1
    BY <1>2, <1>4, <1>6, <2>2, SessionAssumption DEF LogInAnswers
  <2> QED BY <1>5, <2>1, <2>2 DEF LogInAnswers
<1>12. UserInTabs' /\ OwnProfile'
  <2>1. UserInTabs'
    BY <1>2, <1>3, SessionAssumption DEF SessionInv, UserInTabs, TopIs, Top
  <2>2. OwnProfile'
    BY <1>3 DEF SessionInv, OwnProfile
  <2> QED BY <2>1, <2>2
<1>13. mixed' \/ CreatedAlone'
  <2> SUFFICES ASSUME ~ mixed'
               PROVE  CreatedAlone'
    OBVIOUS
  <2>1. CreatedAlone /\ ~ mixed
    BY <1>3 DEF SessionInv
  <2>2. \A d \in calls' : d.kind = "create" => d.account = field'[d.screen]
    BY <1>3, <2>1 DEF CreatedAlone
  <2>3. ASSUME NEW i \in DOMAIN answers', answers'[i].kind = "create"
        PROVE  /\ answers'[i].account = field'[answers'[i].screen]
               /\ answers'[i].ok => currentUser' \in {NoAccount, answers'[i].account}
    <3>1. CASE i \in DOMAIN answers
      <4>1. answers'[i] = answers[i]
        BY <1>4, <3>1
      <4>2. currentUser' = currentUser
        BY <1>3, <2>3, <3>1, <4>1 DEF CreateWaits
      <4> QED BY <1>3, <2>1, <2>3, <3>1, <4>1, <4>2 DEF CreatedAlone
    <3>2. CASE i = N + 1
      <4>1. answers'[i] = n /\ c.kind = "create"
        BY <1>2, <1>4, <2>3, <3>2
      <4>2. c.account = field[c.screen]
        BY <2>1, <4>1 DEF CreatedAlone
      <4> QED BY <1>2, <1>3, <4>1, <4>2
    <3> QED BY <1>5, <3>1, <3>2
  <2> QED BY <2>2, <2>3 DEF CreatedAlone
<1> QED BY <1>7, <1>9, <1>10, <1>11, <1>12, <1>13 DEF SessionInv

\* The dismissal of a sign-up screen while calls go on.
LEMMA DismissInv ==
    ASSUME SessionInv, NEW s,
           \A i \in DOMAIN stack : stack[i].id = s => stack[i].kind = "signUp",
           stack' = Dismissed(s), UNCHANGED <<screens, covered>>,
           \A k \in CallKind, r \in ScreenId : Pending(k, r)' => Known(k, r),
           LogInCalls' \subseteq LogInCalls, Fewer
    PROVE  /\ stack' \in Seq(Screen) /\ stack' # <<>>
           /\ ScreensInOrder' /\ ScreensKnown' /\ OneLogIn'
           /\ TopIs("tabs")' => TopIs("tabs")
<1>1. TypeOK /\ ScreensInOrder /\ ScreensKnown /\ OneLogIn
  BY DEF SessionInv
<1>2. CASE stack' = stack
  <2>1. Front' = Front
    BY <1>2 DEF Front, TopIs, Top
  <2>2. OneLogIn'
    BY <1>1, <2>1, LogInKept DEF OneLogIn
  <2>3. ScreensKnown'
    BY <1>1, <1>2, KnownStays
  <2> QED BY <1>1, <1>2, <2>2, <2>3 DEF TypeOK, ScreensInOrder, TopIs, Top
<1>3. CASE /\ stack' = SubSeq(stack, 1, Len(stack) - 1)
           /\ Top.kind \notin {"tabs", "logIn"}
           /\ Top.kind = "alert" => stack[Len(stack) - 1].kind = "signUp"
  <2>1. /\ stack' \in Seq(Screen) /\ stack' # <<>> /\ ScreensInOrder'
        /\ Top' = stack[Len(stack) - 1] /\ Presents(Top'.kind, Top.kind)
        /\ Len(stack) \in Nat /\ Len(stack) >= 2 /\ DOMAIN stack = 1 .. Len(stack)
    BY <1>1, <1>3, Pop, Screens
  <2>2. ScreensKnown'
    BY <1>1, <1>3, KnownPop
  <2>3. \A r \in ScreenId : ~ Pending("logIn", r)
    <3>1. CASE Top.kind = "alert"
      <4>1. Front = stack[Len(stack) - 1] /\ Front.kind = "signUp"
        BY <1>3, <3>1 DEF Front, TopIs
      <4>2. Len(stack) - 1 \in DOMAIN stack
        BY <2>1
      <4>3. "logIn" \in CallKind /\ Caller("logIn") = "logIn"
        BY DEF CallKind, Caller
      <4> QED BY <1>1, <4>1, <4>2, <4>3 DEF OneLogIn, ScreensKnown, Known
    <3>2. CASE Top.kind # "alert"
      BY <1>1, <1>3, <3>2, FreeToLogIn
    <3> QED BY <3>1, <3>2
  <2>4. OneLogIn'
    BY <1>1, <2>3, LogInKept
  <2>5. ~ TopIs("tabs")'
    BY <1>3, <2>1 DEF TopIs, Presents
  <2> QED BY <2>1, <2>2, <2>4, <2>5
<1> QED BY <1>1, <1>2, <1>3, DismissSignUp

\* A created account: the profile written is its own, and the screen that goes
\* is a sign-up screen.
LEMMA CreateDoneInv == ASSUME SessionInv, CreateDone PROVE SessionInv'
<1> DEFINE a == Head(answers)
           c == [kind |-> "mailSignIn", screen |-> a.screen, account |-> field[a.screen]]
<1>1. TypeOK /\ ScreensInOrder /\ ScreensKnown /\ OneLogIn
  BY DEF SessionInv
<1>2. /\ answers' = Tail(answers)
      /\ UNCHANGED <<exists, mailed, verified, currentUser, screens, covered, field, history>>
      /\ \/ ~ a.ok /\ stack' = Presented(a.screen, "alert") /\ profile' = profile /\ calls' = calls
         \/ stack' = stack /\ profile' = profile /\ calls' = calls
         \/ /\ a.ok /\ currentUser # NoAccount
            /\ profile' \in {profile, [profile EXCEPT ![currentUser] = field[a.screen]]}
            /\ calls' = calls \cup {c} /\ stack' = Dismissed(a.screen)
  BY DEF CreateDone, Start
<1>3. /\ a.screen \in ScreenId /\ a.account \in MaybeAccount /\ a.kind = "create"
      /\ Fewer /\ answers' \in Seq(Answer)
      /\ Pending("create", a.screen) /\ a = answers[1] /\ 1 \in DOMAIN answers
  BY <1>1, HeadPending DEF CreateDone
<1> HIDE DEF a
<1>4. c \in Call /\ c.kind = "mailSignIn" /\ c.screen = a.screen
  BY <1>1, <1>3 DEF TypeOK, Call
<1> HIDE DEF c
<1>5. /\ LogInCalls' \subseteq LogInCalls
      /\ \A d \in calls' : d \in calls \/ d.kind # "create"
      /\ calls' \subseteq Call
  BY <1>1, <1>2, <1>4 DEF LogInCalls, TypeOK
<1>6. /\ Known("create", a.screen)
      /\ Known("mailSignIn", a.screen)
      /\ \A i \in DOMAIN stack : stack[i].id = a.screen => stack[i].kind = "signUp"
  <2>1. "create" \in CallKind /\ Caller("create") = "signUp" /\ Caller("mailSignIn") = "signUp"
    BY DEF CallKind, Caller
  <2> QED BY <1>1, <1>3, <2>1 DEF ScreensKnown, Known
<1>7. ASSUME NEW k \in CallKind, NEW r \in ScreenId, Pending(k, r)'
      PROVE  Known(k, r)
  <2>1. Pending(k, r) \/ (k = "mailSignIn" /\ r = a.screen)
    BY <1>1, <1>2, <1>3, <1>4, <1>7, StillPending
  <2> QED BY <1>1, <1>6, <2>1 DEF ScreensKnown
<1>8. /\ stack' \in Seq(Screen) /\ stack' # <<>>
      /\ ScreensInOrder' /\ ScreensKnown' /\ OneLogIn'
      /\ TopIs("tabs")' => TopIs("tabs")
  <2>1. CASE stack' = Presented(a.screen, "alert")
    BY <1>2, <1>3, <1>5, <1>7, <2>1, AlertInv
  <2>2. CASE stack' = Dismissed(a.screen)
    BY <1>2, <1>3, <1>5, <1>6, <1>7, <2>2, DismissInv
  <2>3. CASE stack' = stack
    <3>1. Front' = Front
      BY <2>3 DEF Front, TopIs, Top
    <3>2. OneLogIn'
      BY <1>1, <1>2, <1>3, <1>5, <3>1, LogInKept DEF OneLogIn
    <3>3. ScreensKnown'
      BY <1>1, <1>2, <1>7, <2>3, KnownStays
    <3> QED BY <1>1, <2>3, <3>2, <3>3 DEF TypeOK, ScreensInOrder, TopIs, Top
  <2> QED BY <1>2, <2>1, <2>2, <2>3
<1>9. /\ profile' \in [Accounts -> MaybeAccount]
      /\ \A b \in Accounts :
            \/ profile'[b] = profile[b]
            \/ b = currentUser /\ currentUser # NoAccount /\ a.ok /\ profile'[b] = field[a.screen]
  <2>1. field[a.screen] \in MaybeAccount /\ profile \in [Accounts -> MaybeAccount]
    BY <1>1, <1>3 DEF TypeOK
  <2> QED BY <1>2, <2>1
<1>10. TypeOK'
  BY <1>1, <1>2, <1>3, <1>5, <1>8, <1>9 DEF TypeOK, history
<1>11. SignedIn' /\ (mixed' \/ CreatedAlone')
  BY <1>1, <1>2, <1>3, <1>5, SignedInKept, CreatedKept DEF SessionInv, history
<1>12. UserInTabs'
  BY <1>2, <1>8 DEF SessionInv, UserInTabs, history
<1>13. OwnProfile'
  <2> SUFFICES ASSUME NEW b \in Accounts, ~ mixed
               PROVE  profile'[b] \in {NoAccount, b}
    BY <1>2 DEF OwnProfile, history
  <2>1. profile[b] \in {NoAccount, b} /\ CreatedAlone
    BY DEF SessionInv, OwnProfile
  <2>2. CASE b = currentUser /\ currentUser # NoAccount /\ a.ok /\ profile'[b] = field[a.screen]
    <3>1. a.account = field[a.screen] /\ currentUser \in {NoAccount, a.account}
      BY <1>3, <2>1, <2>2 DEF CreatedAlone
    <3> QED BY <2>2, <3>1
  <2> QED BY <1>9, <2>1, <2>2
<1> QED BY <1>8, <1>10, <1>11, <1>12, <1>13 DEF SessionInv

-----------------------------------------------------------------------------
LEMMA NextInv == SessionInv /\ [Next]_vars => SessionInv'
<1> SUFFICES ASSUME SessionInv, [Next]_vars PROVE SessionInv'
  OBVIOUS
<1>1. ASSUME NEW a \in Accounts, LogIn(a) PROVE SessionInv'
  BY <1>1, LogInInv
<1>2. ASSUME NEW a \in Accounts, Verify(a) PROVE SessionInv'
  BY <1>2, VerifyInv
<1>3. ASSUME NEW a \in MaybeAccount, Edit(a) PROVE SessionInv'
  BY <1>3, EditInv
<1>4. CASE OpenSignUp \/ ForgotPassword \/ SignOut
  BY <1>4, OpenSignUpInv, ForgotPasswordInv, SignOutInv
<1>5. CASE CloseForgot \/ CloseAlert \/ CancelSignUp
  BY <1>5, CloseForgotInv, CloseAlertInv, CancelSignUpInv
<1>6. CASE CreateAccount
  BY <1>6, CreateAccountInv
<1>7. ASSUME NEW c \in calls, Answered(c) PROVE SessionInv'
  BY <1>7, AnsweredInv
<1>8. CASE LogInDone
  BY <1>8, LogInDoneInv
<1>9. CASE ResetDone
  BY <1>9, ResetDoneInv
<1>10. CASE CreateDone
  BY <1>10, CreateDoneInv
<1>11. CASE MailSignInDone
  BY <1>11, MailSignInDoneInv
<1>12. CASE MailDone
  BY <1>12, MailDoneInv
<1>13. CASE Relaunch
  BY <1>13, RelaunchInv
<1>14. CASE UNCHANGED vars
  BY <1>14 DEF vars, SessionInv, TypeOK, ScreensInOrder, ScreensKnown, Known, Pending,
     OneLogIn, Front, LogInCalls, LogInAnswers, SignedIn, CreatedAlone, UserInTabs, OwnProfile,
     TopIs, Top, server, history
<1> QED BY <1>1, <1>2, <1>3, <1>4, <1>5, <1>6, <1>7, <1>8, <1>9, <1>10, <1>11, <1>12, <1>13,
           <1>14 DEF Next, User, Callback

\* The inductive invariant of the screens, the calls and the user.
THEOREM SessionInvariant == Spec => []SessionInv
  BY InitInv, NextInv, PTL DEF Spec

\* Every variable keeps its type; there is always a screen.
THEOREM TypeCorrect == Spec => []TypeOK
<1>1. SessionInv => TypeOK
  BY DEF SessionInv
<1> QED BY <1>1, SessionInvariant, PTL

\* However calls, callbacks and the user's steps interleave, only the end of
\* a sign-up's mail leaves the main screens in front without a user.
THEOREM TabsHaveUser == Spec => []UserInTabs
<1>1. SessionInv => UserInTabs
  BY DEF SessionInv
<1> QED BY <1>1, SessionInvariant, PTL

\* A profile has its own account's address, unless a creation was mixed with
\* another answer or an edit.
THEOREM ProfileIsOwn == Spec => []OwnProfile
<1>1. SessionInv => OwnProfile
  BY DEF SessionInv
<1> QED BY <1>1, SessionInvariant, PTL

=============================================================================
