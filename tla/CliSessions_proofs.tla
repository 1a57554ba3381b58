------------------------- MODULE CliSessions_proofs -------------------------
(***************************************************************************)
(* Proofs about CliSessions, for any tree of views no deeper than the      *)
(* prompt stack, any connections and any descriptor numbers: the stacks of *)
(* every session follow its view, and a session reads its own connection   *)
(* unless the server has closed another thread's file at its number.       *)
(***************************************************************************)
EXTENDS CliSessions, TLAPS

\* What LevelsMatchView says of one session.
FollowsItsView(s) ==
    s \in Session /\ PromptsOnTheWay(s) /\ ContextsOfThePrompts(s)

LEMMA NewSessionFollows ==
    ASSUME NEW c \in Conns
    PROVE  FollowsItsView(NewSession(c))
<1> DEFINE s == NewSession(c)
<1>1. s \in Session
  BY ViewAssumption DEF NewSession, Session, Prompt, ViewPrompt
<1>2. PromptsOnTheWay(s)
  BY ViewAssumption DEF NewSession, ViewPrompt, PromptsOnTheWay
<1>3. ContextsOfThePrompts(s)
  BY ViewAssumption DEF NewSession, ContextsOfThePrompts
<1>4. QED
  BY <1>1, <1>2, <1>3 DEF FollowsItsView

\* The fields of a session, as the later lemmas use them.
LEMMA SessionFields ==
    ASSUME NEW s, s \in Session
    PROVE  /\ s.conn \in Conns /\ s.view \in Views
           /\ s.prompt \in Prompt /\ s.depth \in 0..StackDepth
           /\ s.prompts \in [1..StackDepth -> Prompt]
           /\ s.contexts \in [1..StackDepth -> Args \cup {NoArg}]
  BY DEF Session

\* t is s after it has entered v: the prompt it came from is on the stack.
Entered(s, t, v, arg, context) ==
    /\ t \in Session /\ t.conn = s.conn
    /\ t.view = v /\ t.prompt = [view |-> v, arg |-> arg]
    /\ t.depth = s.depth + 1
    /\ t.prompts = [s.prompts EXCEPT ![s.depth + 1] = s.prompt]
    /\ t.contexts = [s.contexts EXCEPT ![s.depth + 1] = context]

LEMMA EnteredFollows ==
    ASSUME NEW s, FollowsItsView(s),
           NEW v \in Views \ {Root}, Parent[v] = s.view,
           NEW arg \in Args \cup {NoArg}, NEW t,
           Entered(s, t, v, arg, IF v \in ContextViews THEN arg ELSE NoArg)
    PROVE  FollowsItsView(t) /\ t.conn = s.conn
<1> DEFINE context == IF v \in ContextViews THEN arg ELSE NoArg
           k == s.depth + 1
<1>1. /\ s.view \in Views /\ s.prompt \in Prompt /\ s.depth \in 0..StackDepth
      /\ s.conn \in Conns
      /\ s.prompts \in [1..StackDepth -> Prompt]
      /\ s.contexts \in [1..StackDepth -> Args \cup {NoArg}]
  BY SessionFields DEF FollowsItsView
<1>2. /\ StackDepth \in Nat /\ Level \in [Views -> Nat]
      /\ Level[v] = Level[s.view] + 1 /\ Level[v] <= StackDepth
  BY ViewAssumption
<1>3. /\ s.depth = Level[s.view] /\ k = Level[v] /\ k \in 1..StackDepth
      /\ s.prompt.view = s.view
  BY <1>1, <1>2 DEF FollowsItsView, PromptsOnTheWay
<1>4. t \in Session
  BY DEF Entered
<1>5. /\ t.depth = k /\ t.view = v /\ t.prompt = [view |-> v, arg |-> arg]
      /\ t.prompts = [s.prompts EXCEPT ![k] = s.prompt]
      /\ t.contexts = [s.contexts EXCEPT ![k] = context]
  BY DEF Entered
<1> HIDE DEF context
<1>6. /\ \A i \in 1..k : Shown(t, i) = Shown(s, i)
      /\ Shown(t, k + 1) = t.prompt /\ Shown(s, k) = s.prompt
  <2>1. ~ k + 1 <= t.depth /\ ~ k <= s.depth
    BY <1>1, <1>3, <1>5
  <2>2. ASSUME NEW i \in 1..k PROVE Shown(t, i) = Shown(s, i)
    <3>1. i <= t.depth /\ i \in 1..StackDepth
      BY <1>2, <1>3, <1>5
    <3>2. CASE i = k
      <4>1. t.prompts[i] = s.prompt
        BY <3>1, <3>2, <1>1, <1>5
      <4>2. QED
        BY <4>1, <3>1, <3>2, <2>1 DEF Shown
    <3>3. CASE i # k
      <4>1. t.prompts[i] = s.prompts[i] /\ i <= s.depth
        BY <3>1, <3>3, <1>1, <1>5
      <4>2. QED
        BY <4>1, <3>1 DEF Shown
    <3>4. QED
      BY <3>2, <3>3
  <2>3. QED
    BY <2>1, <2>2 DEF Shown
<1>7. PromptsOnTheWay(t)
  <2>1. \A i \in 1..s.depth : /\ Shown(s, i + 1).view # Root
                              /\ Shown(s, i).view = Parent[Shown(s, i + 1).view]
    BY DEF FollowsItsView, PromptsOnTheWay
  <2>2. ASSUME NEW i \in 1..t.depth
        PROVE  /\ Shown(t, i + 1).view # Root
               /\ Shown(t, i).view = Parent[Shown(t, i + 1).view]
    <3>1. CASE i = k
      BY <3>1, <1>3, <1>5, <1>6
    <3>2. CASE i # k
      <4>1. i \in 1..s.depth /\ i \in 1..k /\ i + 1 \in 1..k
        BY <3>2, <1>1, <1>5
      <4>2. QED
        BY <4>1, <1>6, <2>1
    <3>3. QED
      BY <3>1, <3>2
  <2>3. QED
    BY <2>2, <1>3, <1>5 DEF PromptsOnTheWay
<1>8. ContextsOfThePrompts(t)
  <2> SUFFICES ASSUME NEW i \in 1..StackDepth
               PROVE  t.contexts[i] =
                        IF i <= t.depth /\ Shown(t, i + 1).view \in ContextViews
                        THEN Shown(t, i + 1).arg ELSE NoArg
    BY DEF ContextsOfThePrompts
  <2>1. s.contexts[i] =
            IF i <= s.depth /\ Shown(s, i + 1).view \in ContextViews
            THEN Shown(s, i + 1).arg ELSE NoArg
    BY DEF FollowsItsView, ContextsOfThePrompts
  <2>2. CASE i = k
    <3>1. t.contexts[i] = context
      BY <2>2, <1>1, <1>5
    <3>2. i <= t.depth /\ Shown(t, i + 1).view = v /\ Shown(t, i + 1).arg = arg
      BY <2>2, <1>1, <1>5, <1>6
    <3>3. QED
      BY <3>1, <3>2 DEF context
  <2>3. CASE i < k
    <3>1. i + 1 \in 1..k /\ i <= s.depth /\ i <= t.depth
      BY <2>3, <1>1, <1>2, <1>5
    <3>2. t.contexts[i] = s.contexts[i] /\ Shown(t, i + 1) = Shown(s, i + 1)
      BY <2>3, <3>1, <1>1, <1>5, <1>6
    <3>3. QED
      BY <2>1, <3>1, <3>2
  <2>4. CASE i > k
    <3>1. ~ i <= s.depth /\ ~ i <= t.depth
      BY <2>4, <1>1, <1>2, <1>5
    <3>2. t.contexts[i] = s.contexts[i]
      BY <2>4, <1>1, <1>5
    <3>3. QED
      BY <2>1, <3>1, <3>2
  <2>5. QED
    BY <2>2, <2>3, <2>4, <1>2, <1>3
<1>9. QED
  BY <1>4, <1>7, <1>8 DEF FollowsItsView, Entered

\* Both ways of entering a view start with a push, and the stack is never full.
LEMMA PushEnters ==
    ASSUME NEW s, FollowsItsView(s),
           NEW v \in Views \ {Root}, Parent[v] = s.view,
           NEW arg \in Args \cup {NoArg}
    PROVE  Entered(s, [PromptPush(s) EXCEPT !.view = v,
                                            !.prompt = [view |-> v, arg |-> arg]],
                   v, arg, NoArg)
<1> DEFINE prompts == [s.prompts EXCEPT ![s.depth + 1] = s.prompt]
           contexts == [s.contexts EXCEPT ![s.depth + 1] = NoArg]
           p == [view |-> v, arg |-> arg]
           d == s.depth + 1
<1>1. s \in Session
  BY DEF FollowsItsView
<1>2. /\ StackDepth \in Nat /\ Level \in [Views -> Nat]
      /\ Level[v] = Level[s.view] + 1 /\ Level[v] <= StackDepth
  BY ViewAssumption, <1>1, SessionFields
<1>3. ~ s.depth >= StackDepth /\ d \in 0..StackDepth /\ d \in 1..StackDepth
  BY <1>1, <1>2, SessionFields DEF FollowsItsView, PromptsOnTheWay
<1>4. /\ prompts \in [1..StackDepth -> Prompt]
      /\ contexts \in [1..StackDepth -> Args \cup {NoArg}]
  BY <1>1, SessionFields
<1>5. p \in Prompt
  BY DEF Prompt
<1>6. PromptPush(s) = [s EXCEPT !.prompts = prompts, !.contexts = contexts,
                                !.depth = d]
  BY <1>3 DEF PromptPush
<1> DEFINE t == [PromptPush(s) EXCEPT !.view = v, !.prompt = p]
<1> HIDE DEF prompts, contexts, d, p
<1>7. /\ PromptPush(s) \in Session /\ PromptPush(s).conn = s.conn
      /\ PromptPush(s).depth = d /\ PromptPush(s).prompts = prompts
      /\ PromptPush(s).contexts = contexts
  BY <1>1, <1>3, <1>4, <1>6 DEF Session
<1>8. /\ t \in Session /\ t.conn = s.conn /\ t.view = v /\ t.prompt = p
      /\ t.depth = d /\ t.prompts = prompts /\ t.contexts = contexts
  BY <1>5, <1>7 DEF Session
<1>9. QED
  BY <1>8 DEF Entered, prompts, contexts, d, p

LEMMA EnterConfigFollows ==
    ASSUME NEW s, FollowsItsView(s), s.view = Root
    PROVE  FollowsItsView(EnterConfig(s)) /\ EnterConfig(s).conn = s.conn
<1>1. /\ Config \in Views \ {Root} /\ Parent[Config] = s.view
      /\ Config \notin ContextViews
  BY ViewAssumption
<1>2. Entered(s, EnterConfig(s), Config, NoArg, NoArg)
  BY <1>1, PushEnters DEF EnterConfig, ViewPrompt
<1>3. QED
  BY <1>1, <1>2, EnteredFollows

LEMMA ChangeViewFollows ==
    ASSUME NEW s, FollowsItsView(s),
           NEW v \in Views \ {Root}, Parent[v] = s.view,
           NEW arg \in Args
    PROVE  FollowsItsView(ChangeView(s, v, arg)) /\ ChangeView(s, v, arg).conn = s.conn
<1> DEFINE t == [PromptPush(s) EXCEPT !.view = v,
                                      !.prompt = [view |-> v, arg |-> arg]]
<1>1. Entered(s, t, v, arg, NoArg)
  BY PushEnters
<1>2. CASE v \notin ContextViews
  <2>1. ChangeView(s, v, arg) = t
    BY <1>2 DEF ChangeView
  <2> HIDE DEF t
  <2>2. Entered(s, t, v, arg, IF v \in ContextViews THEN arg ELSE NoArg)
    BY <1>1, <1>2
  <2>3. FollowsItsView(t) /\ t.conn = s.conn
    BY <2>2, EnteredFollows
  <2>4. QED
    BY <2>1, <2>3
<1>3. CASE v \in ContextViews
  <2> DEFINE contexts == [t.contexts EXCEPT ![t.depth] = arg]
  <2>1. /\ s.depth \in 0..StackDepth
        /\ s.contexts \in [1..StackDepth -> Args \cup {NoArg}]
    BY SessionFields DEF FollowsItsView
  <2> HIDE DEF t
  <2>2. /\ t \in Session /\ t.conn = s.conn /\ t.depth = s.depth + 1 /\ t.depth # 0
        /\ t.contexts = [s.contexts EXCEPT ![s.depth + 1] = NoArg]
        /\ t.view = v /\ t.prompt = [view |-> v, arg |-> arg]
        /\ t.prompts = [s.prompts EXCEPT ![s.depth + 1] = s.prompt]
    BY <1>1, <2>1, ViewAssumption DEF Entered
  <2>3. /\ contexts = [s.contexts EXCEPT ![s.depth + 1] = arg]
        /\ contexts \in [1..StackDepth -> Args \cup {NoArg}]
    BY <2>1, <2>2
  <2>4. ChangeView(s, v, arg) = [t EXCEPT !.contexts = contexts]
    BY <1>3, <2>2 DEF ChangeView, ContextSet, t
  <2> HIDE DEF contexts
  <2> DEFINE u == [t EXCEPT !.contexts = contexts]
  <2>5. /\ u \in Session /\ u.conn = t.conn /\ u.contexts = contexts /\ u.depth = t.depth
        /\ u.view = t.view /\ u.prompt = t.prompt /\ u.prompts = t.prompts
    BY <2>2, <2>3 DEF Session
  <2>6. Entered(s, u, v, arg, arg)
    BY <2>2, <2>3, <2>5 DEF Entered
  <2>7. QED
    BY <1>3, <2>4, <2>6, EnteredFollows
<1>4. QED
  BY <1>2, <1>3

LEMMA EndFollows ==
    ASSUME NEW s, FollowsItsView(s)
    PROVE  FollowsItsView(End(s)) /\ End(s).conn = s.conn
<1> DEFINE t == End(s)
           emptied == [i \in 1..StackDepth |->
                          IF i <= s.depth THEN NoArg ELSE s.contexts[i]]
<1>1. s \in Session
  BY DEF FollowsItsView
<1>2. /\ s.conn \in Conns /\ s.depth \in 0..StackDepth
      /\ s.prompts \in [1..StackDepth -> Prompt]
      /\ s.contexts \in [1..StackDepth -> Args \cup {NoArg}]
  BY <1>1, SessionFields
<1>3. emptied \in [1..StackDepth -> Args \cup {NoArg}] /\ ViewPrompt(Root) \in Prompt
  BY <1>2, ViewAssumption DEF Prompt, ViewPrompt
<1>4. \A i \in 1..StackDepth : emptied[i] = NoArg
  BY <1>2 DEF FollowsItsView, ContextsOfThePrompts
<1>5. t = [s EXCEPT !.view = Root, !.prompt = ViewPrompt(Root),
                    !.contexts = emptied, !.depth = 0]
  BY DEF End
<1>9. Root \in Views /\ 0 \in 0..StackDepth
  BY ViewAssumption
<1> DEFINE p == ViewPrompt(Root)
<1> HIDE DEF emptied, t, p
<1>x. /\ t \in Session /\ t.conn = s.conn /\ t.view = Root /\ t.prompt = p
      /\ t.contexts = emptied /\ t.depth = 0
  <2>1. p \in Prompt /\ t = [s EXCEPT !.view = Root, !.prompt = p,
                                      !.contexts = emptied, !.depth = 0]
    BY <1>3, <1>5 DEF p
  <2>2. QED
    BY <1>1, <1>3, <1>9, <2>1 DEF Session
<1>6. PromptsOnTheWay(t)
  BY <1>x, ViewAssumption DEF PromptsOnTheWay, ViewPrompt, p
<1>7. ContextsOfThePrompts(t)
  <2>1. ASSUME NEW i \in 1..StackDepth
        PROVE  ~ i <= t.depth /\ t.contexts[i] = NoArg
    BY <1>4, <1>x, ViewAssumption
  <2>2. QED
    BY <2>1 DEF ContextsOfThePrompts
<1>8. QED
  BY <1>x, <1>6, <1>7 DEF FollowsItsView, t

LEMMA ExitViewFollows ==
    ASSUME NEW s, FollowsItsView(s), s.view # Root
    PROVE  FollowsItsView(ExitView(s)) /\ ExitView(s).conn = s.conn
<1> DEFINE t == ExitView(s)
           d == s.depth - 1
<1>1. /\ s \in Session /\ s.view \in Views /\ s.prompt \in Prompt
      /\ s.conn \in Conns /\ s.depth \in 0..StackDepth
      /\ s.prompts \in [1..StackDepth -> Prompt]
      /\ s.contexts \in [1..StackDepth -> Args \cup {NoArg}]
  BY SessionFields DEF FollowsItsView
<1>2. /\ StackDepth \in Nat /\ Level \in [Views -> Nat] /\ Parent[s.view] \in Views
      /\ Level[s.view] = Level[Parent[s.view]] + 1
  BY <1>1, ViewAssumption
<1>3. /\ s.depth = Level[s.view] /\ s.prompt.view = s.view
      /\ \A i \in 1..s.depth : /\ Shown(s, i + 1).view # Root
                               /\ Shown(s, i).view = Parent[Shown(s, i + 1).view]
  BY DEF FollowsItsView, PromptsOnTheWay
<1>4. /\ s.depth \in 1..StackDepth /\ d \in 0..StackDepth /\ d = Level[Parent[s.view]]
  BY <1>1, <1>2, <1>3
<1> DEFINE p == s.prompts[s.depth]
           contexts == [s.contexts EXCEPT ![s.depth] = NoArg]
<1>5. /\ p \in Prompt /\ contexts \in [1..StackDepth -> Args \cup {NoArg}]
      /\ PromptPop(s) = [s EXCEPT !.prompt = p, !.contexts = contexts, !.depth = d]
  <2>1. p \in Prompt
    BY <1>1, <1>4
  <2>2. contexts \in [1..StackDepth -> Args \cup {NoArg}]
    BY <1>1
  <2>3. s.depth # 0
    BY <1>4
  <2>4. PromptPop(s) = [s EXCEPT !.prompt = p, !.contexts = contexts, !.depth = d]
    BY <2>3 DEF PromptPop
  <2>5. QED
    BY <2>1, <2>2, <2>4
<1> HIDE DEF p, contexts, d
<1>6. /\ PromptPop(s) \in Session /\ PromptPop(s).conn = s.conn /\ PromptPop(s).prompt = p
      /\ PromptPop(s).contexts = contexts /\ PromptPop(s).depth = d
      /\ PromptPop(s).prompts = s.prompts
  BY <1>1, <1>4, <1>5 DEF Session
<1>x. t = [PromptPop(s) EXCEPT !.view = Parent[s.view]]
  BY DEF ExitView
<1> HIDE DEF t
<1>y. /\ t \in Session /\ t.conn = s.conn /\ t.view = Parent[s.view] /\ t.prompt = p
      /\ t.contexts = contexts /\ t.depth = d /\ t.prompts = s.prompts
  BY <1>2, <1>6, <1>x DEF Session
<1> USE DEF p, contexts, d
<1>7. /\ t.depth = d /\ t.view = Parent[s.view] /\ t.prompt = s.prompts[s.depth]
      /\ t.prompts = s.prompts
      /\ t.contexts = [s.contexts EXCEPT ![s.depth] = NoArg]
  BY <1>y
<1>8. \A i \in 1..s.depth : Shown(t, i) = Shown(s, i)
  BY <1>1, <1>4, <1>7 DEF Shown
<1>9. Shown(s, s.depth + 1) = s.prompt /\ Shown(s, s.depth) = s.prompts[s.depth]
  BY <1>1, <1>4 DEF Shown
<1>10. PromptsOnTheWay(t)
  <2>1. t.prompt.view = t.view
    BY <1>3, <1>4, <1>7, <1>9
  <2>2. ASSUME NEW i \in 1..t.depth
        PROVE  /\ Shown(t, i + 1).view # Root
               /\ Shown(t, i).view = Parent[Shown(t, i + 1).view]
    <3>1. i \in 1..s.depth /\ i + 1 \in 1..s.depth
      BY <1>4, <1>7
    <3>2. QED
      BY <3>1, <1>3, <1>8
  <2>3. QED
    BY <2>1, <2>2, <1>4, <1>7 DEF PromptsOnTheWay
<1>11. ContextsOfThePrompts(t)
  <2> SUFFICES ASSUME NEW i \in 1..StackDepth
               PROVE  t.contexts[i] =
                        IF i <= t.depth /\ Shown(t, i + 1).view \in ContextViews
                        THEN Shown(t, i + 1).arg ELSE NoArg
    BY DEF ContextsOfThePrompts
  <2>1. s.contexts[i] =
            IF i <= s.depth /\ Shown(s, i + 1).view \in ContextViews
            THEN Shown(s, i + 1).arg ELSE NoArg
    BY DEF FollowsItsView, ContextsOfThePrompts
  <2>2. CASE i = s.depth
    <3>1. t.contexts[i] = NoArg
      BY <2>2, <1>1, <1>4, <1>7
    <3>2. ~ i <= t.depth
      BY <2>2, <1>1, <1>2, <1>7
    <3>3. QED
      BY <3>1, <3>2
  <2>3. CASE i < s.depth
    <3>1. i + 1 \in 1..s.depth /\ i <= s.depth /\ i <= t.depth
      BY <2>3, <1>1, <1>4, <1>7
    <3>2. t.contexts[i] = s.contexts[i] /\ Shown(t, i + 1) = Shown(s, i + 1)
      BY <2>3, <3>1, <1>1, <1>7, <1>8
    <3>3. QED
      BY <2>1, <3>1, <3>2
  <2>4. CASE i > s.depth
    <3>1. ~ i <= s.depth /\ ~ i <= t.depth
      BY <2>4, <1>1, <1>4, <1>7
    <3>2. t.contexts[i] = s.contexts[i]
      BY <2>4, <1>1, <1>7
    <3>3. QED
      BY <2>1, <3>1, <3>2
  <2>5. QED
    BY <2>2, <2>3, <2>4, <1>2, <1>4
<1>12. QED
  BY <1>y, <1>10, <1>11 DEF FollowsItsView, t

\* No command takes a session out of step with its view.
LEMMA AfterLineFollows ==
    ASSUME NEW s, FollowsItsView(s), NEW t \in AfterLine(s)
    PROVE  FollowsItsView(t) /\ t.conn = s.conn
<1>1. CASE t = s
  BY <1>1
<1>2. CASE t = End(s)
  BY <1>2, EndFollows
<1>3. CASE t = IF s.view = Root THEN EnterConfig(s) ELSE ExitView(s)
  BY <1>3, EnterConfigFollows, ExitViewFollows
<1>4. ASSUME NEW v \in Views \ {Root, Config}, Parent[v] = s.view,
             NEW arg \in ArgsOf[v], t = ChangeView(s, v, arg)
      PROVE  FollowsItsView(t) /\ t.conn = s.conn
  <2>1. arg \in Args
    BY ViewAssumption
  <2>2. QED
    BY <1>4, <2>1, ChangeViewFollows
<1>5. QED
  BY <1>1, <1>2, <1>3, <1>4 DEF AfterLine

(***************************************************************************)
(* The invariant                                                           *)
(***************************************************************************)

AllFollow == \A n \in Fds : sessions[n] # NoSession => FollowsItsView(sessions[n])

IInv == TypeOK /\ AllFollow

\* NoSession is not a session.
LEMMA NoSessionIsNone == NoSession \notin Session
  BY DEF NoSession, Session

LEMMA InitInv == Init => IInv
<1> SUFFICES ASSUME Init PROVE IInv
  OBVIOUS
<1>1. TypeOK
  <2>1. /\ client \in [Conns -> {"new", "backlog", "open", "closed"}]
        /\ unread \in [Conns -> 0..MaxUnread]
    BY ServerAssumption DEF Init
  <2>2. file \in [Fds -> Conns \cup Others \cup {Free}]
    BY DEF Init
  <2>3. sessions \in [Fds -> Session \cup {NoSession}]
    BY DEF Init
  <2>4. hungUp = {} /\ batch = {} /\ reading = NoFd /\ stuck = FALSE
        /\ otherFd = NoFd /\ stolen = {}
    BY DEF Init
  <2>5. QED
    BY <2>1, <2>2, <2>3, <2>4 DEF TypeOK
<1>2. AllFollow
  BY DEF Init, AllFollow
<1>3. QED
  BY <1>1, <1>2 DEF IInv

\* TypeOK in two parts: what a step does to the kernel, and to the server.
KernelOK ==
    /\ client \in [Conns -> {"new", "backlog", "open", "closed"}]
    /\ hungUp \subseteq Conns
    /\ unread \in [Conns -> 0..MaxUnread]
    /\ file \in [Fds -> Conns \cup Others \cup {Free}]
    /\ otherFd \in Fds \cup {NoFd}
    /\ stolen \subseteq Fds

ServerOK ==
    /\ sessions \in [Fds -> Session \cup {NoSession}]
    /\ batch \subseteq Fds \cup {Listen}
    /\ reading \in Fds \cup {NoFd}
    /\ reading # NoFd => sessions[reading] # NoSession
    /\ stuck \in BOOLEAN
    /\ AllFollow

LEMMA TwoParts == IInv <=> KernelOK /\ ServerOK
  BY DEF IInv, TypeOK, KernelOK, ServerOK

LEMMA CloseType ==
    ASSUME KernelOK, NEW n \in Fds, Close(n)
    PROVE  /\ client' \in [Conns -> {"new", "backlog", "open", "closed"}]
           /\ unread' \in [Conns -> 0..MaxUnread]
           /\ file' \in [Fds -> Conns \cup Others \cup {Free}]
  BY ServerAssumption DEF KernelOK, Close

LEMMA KernelStep ==
    ASSUME KernelOK, ServerOK, [Next]_vars
    PROVE  KernelOK'
<1> USE ServerAssumption
<1>1. ASSUME NEW c \in Conns, Connect(c) \/ SendLine(c) \/ HangUp(c)
      PROVE  KernelOK'
  <2>1. CASE Connect(c)
    BY <2>1 DEF KernelOK, Connect
  <2>2. CASE SendLine(c)
    <3>1. unread[c] + 1 \in 0..MaxUnread
      BY <2>2 DEF KernelOK, SendLine
    <3>2. QED
      BY <2>2, <3>1 DEF KernelOK, SendLine
  <2>3. CASE HangUp(c)
    BY <2>3 DEF KernelOK, HangUp
  <2>4. QED
    BY <1>1, <2>1, <2>2, <2>3
<1>2. ASSUME NEW kind \in Others, NEW n \in Fds, OtherOpens(kind, n)
      PROVE  KernelOK'
  BY <1>2 DEF KernelOK, OtherOpens
<1>3. CASE OtherCloses
  <2>1. otherFd \in Fds /\ Close(otherFd)
    BY <1>3 DEF OtherCloses, KernelOK
  <2>2. QED
    BY <1>3, <2>1, CloseType DEF OtherCloses, KernelOK
<1>4. CASE WaitEvents \/ AcceptFails \/ NoMoreInput \/ BlockOnSocket
  BY <1>4 DEF KernelOK, kernel, WaitEvents, AcceptFails, NoMoreInput, BlockOnSocket
<1>5. ASSUME NEW c \in Conns, NEW n \in Fds, Accept(c, n) \/ AcceptAndDrop(c, n)
      PROVE  KernelOK'
  <2>1. CASE Accept(c, n)
    BY <2>1 DEF KernelOK, Accept
  <2>2. CASE AcceptAndDrop(c, n)
    <3>1. 0 \in 0..MaxUnread
      OBVIOUS
    <3>2. QED
      BY <2>2, <3>1 DEF KernelOK, AcceptAndDrop
  <2>3. QED
    BY <1>5, <2>1, <2>2
<1>6. ASSUME NEW n \in Fds, HandleInput(n)
      PROVE  KernelOK'
  BY <1>6 DEF KernelOK, kernel, HandleInput
<1>7. CASE ReadLine
  <2>2. file[reading] \in Conns /\ unread[file[reading]] > 0
    BY <1>7 DEF ReadLine, InReadLoop, HasLine
  <2> DEFINE c == file[reading]
  <2>3. unread' \in [Conns -> 0..MaxUnread]
    <3>1. unread' = [unread EXCEPT ![c] = @ - 1]
      BY <1>7 DEF ReadLine
    <3> HIDE DEF c
    <3>2. c \in Conns /\ unread[c] > 0
      BY <2>2 DEF c
    <3>3. unread[c] - 1 \in 0..MaxUnread
      BY <3>2 DEF KernelOK
    <3>4. QED
      BY <3>1, <3>2, <3>3 DEF KernelOK
  <2>4. QED
    BY <1>7, <2>3 DEF ReadLine, KernelOK
<1>8. CASE ExitSession \/ Disconnect
  <2>1. reading \in Fds /\ Close(reading)
    BY <1>8 DEF ExitSession, Disconnect, InReadLoop, CloseByServer, ServerOK
  <2>2. stolen' \subseteq Fds
    BY <1>8, <2>1 DEF ExitSession, Disconnect, CloseByServer, KernelOK
  <2>3. UNCHANGED <<hungUp, otherFd>>
    BY <1>8 DEF ExitSession, Disconnect
  <2>4. QED
    BY <2>1, <2>2, <2>3, CloseType DEF KernelOK
<1>9. CASE UNCHANGED vars
  BY <1>9 DEF KernelOK, vars, kernel
<1>10. QED
  BY <1>1, <1>2, <1>3, <1>4, <1>5, <1>6, <1>7, <1>8, <1>9
     DEF Next, ServerStep, Environment

\* A step that gives one number a session that follows its view, or none.
LEMMA OneSessionChanges ==
    ASSUME ServerOK, NEW n \in Fds, NEW s,
           s = NoSession \/ FollowsItsView(s),
           sessions' = [sessions EXCEPT ![n] = s]
    PROVE  sessions' \in [Fds -> Session \cup {NoSession}] /\ AllFollow'
<1>1. s \in Session \cup {NoSession}
  BY DEF FollowsItsView
<1>2. sessions' \in [Fds -> Session \cup {NoSession}]
  BY <1>1 DEF ServerOK
<1>3. ASSUME NEW m \in Fds, sessions'[m] # NoSession
      PROVE  FollowsItsView(sessions'[m])
  <2>1. CASE m = n
    BY <1>3, <2>1 DEF ServerOK
  <2>2. CASE m # n
    BY <1>3, <2>2 DEF ServerOK, AllFollow
  <2>3. QED
    BY <2>1, <2>2
<1>4. QED
  BY <1>2, <1>3 DEF AllFollow

LEMMA ServerStepLemma ==
    ASSUME KernelOK, ServerOK, [Next]_vars
    PROVE  ServerOK'
<1> USE ServerAssumption
<1>1. ASSUME NEW c \in Conns, Connect(c) \/ SendLine(c) \/ HangUp(c)
      PROVE  ServerOK'
  BY <1>1 DEF ServerOK, AllFollow, Connect, SendLine, HangUp
<1>2. ASSUME NEW kind \in Others, NEW n \in Fds, OtherOpens(kind, n)
      PROVE  ServerOK'
  BY <1>2 DEF ServerOK, AllFollow, OtherOpens
<1>3. CASE OtherCloses \/ UNCHANGED vars
  BY <1>3 DEF ServerOK, AllFollow, OtherCloses, vars
<1>4. CASE WaitEvents
  BY <1>4 DEF ServerOK, AllFollow, WaitEvents, Ready
<1>5. CASE AcceptFails \/ NoMoreInput \/ BlockOnSocket \/ ExitSession
  BY <1>5 DEF ServerOK, AllFollow, AcceptFails, NoMoreInput, BlockOnSocket,
              ExitSession
<1>6. ASSUME NEW c \in Conns, NEW n \in Fds, Accept(c, n)
      PROVE  ServerOK'
  <2>1. sessions' = [sessions EXCEPT ![n] = NewSession(c)]
        /\ reading' = NoFd /\ stuck' = stuck /\ batch' \subseteq batch
    BY <1>6 DEF Accept
  <2>2. QED
    BY <2>1, NewSessionFollows, OneSessionChanges DEF ServerOK
<1>7. ASSUME NEW c \in Conns, NEW n \in Fds, AcceptAndDrop(c, n)
      PROVE  ServerOK'
  <2>1. /\ \/ sessions' = [sessions EXCEPT ![n] = NoSession]
           \/ sessions' = [sessions EXCEPT ![n] = NewSession(c)]
        /\ reading' = NoFd /\ stuck' = stuck /\ batch' \subseteq batch
    BY <1>7 DEF AcceptAndDrop
  <2>2. CASE sessions' = [sessions EXCEPT ![n] = NoSession]
    BY <2>1, <2>2, OneSessionChanges DEF ServerOK
  <2>3. CASE sessions' = [sessions EXCEPT ![n] = NewSession(c)]
    BY <2>1, <2>3, NewSessionFollows, OneSessionChanges DEF ServerOK
  <2>4. QED
    BY <2>1, <2>2, <2>3
<1>8. ASSUME NEW n \in Fds, HandleInput(n)
      PROVE  ServerOK'
  BY <1>8 DEF ServerOK, AllFollow, HandleInput
<1>9. CASE ReadLine
  <2>1. reading \in Fds /\ sessions[reading] # NoSession
    BY <1>9 DEF ReadLine, InReadLoop, ServerOK
  <2>2. FollowsItsView(sessions[reading])
    BY <2>1 DEF ServerOK, AllFollow
  <2>3. PICK s \in AfterLine(sessions[reading]) :
            sessions' = [sessions EXCEPT ![reading] = s]
    BY <1>9 DEF ReadLine
  <2>4. FollowsItsView(s)
    BY <2>2, <2>3, AfterLineFollows
  <2>5. sessions' \in [Fds -> Session \cup {NoSession}] /\ AllFollow'
    BY <2>1, <2>3, <2>4, OneSessionChanges
  <2>6. sessions'[reading] # NoSession
    <3>1. sessions'[reading] = s
      BY <2>1, <2>3 DEF ServerOK
    <3>2. s \in Session
      BY <2>4 DEF FollowsItsView
    <3>3. QED
      BY <3>1, <3>2, NoSessionIsNone
  <2>7. UNCHANGED <<batch, reading, stuck>>
    BY <1>9 DEF ReadLine
  <2>8. QED
    BY <2>5, <2>6, <2>7 DEF ServerOK
<1>10. CASE Disconnect
  <2>1. reading \in Fds
    BY <1>10 DEF Disconnect, InReadLoop, ServerOK
  <2>2. sessions' = [sessions EXCEPT ![reading] = NoSession]
        /\ reading' = NoFd /\ UNCHANGED <<batch, stuck>>
    BY <1>10 DEF Disconnect
  <2>3. QED
    BY <2>1, <2>2, OneSessionChanges DEF ServerOK
<1>11. QED
  BY <1>1, <1>2, <1>3, <1>4, <1>5, <1>6, <1>7, <1>8, <1>9, <1>10
     DEF Next, ServerStep, Environment

LEMMA Invariance == Spec => []IInv
<1>1. IInv /\ [Next]_vars => IInv'
  <2>1. KernelOK' /\ ServerOK' => IInv'
    BY DEF IInv, TypeOK, KernelOK, ServerOK
  <2>2. QED
    BY <2>1, TwoParts, KernelStep, ServerStepLemma
<1>2. QED
  BY <1>1, InitInv, PTL DEF Spec

\* Type correctness of the server, in particular that process_input always has
\* a session to work on.
THEOREM TypeCorrect == Spec => []TypeOK
<1>1. IInv => TypeOK
  BY DEF IInv
<1>2. QED
  BY <1>1, Invariance, PTL

\* For any tree of views the prompt stack can hold, the prompts and contexts of
\* every session are those of the way to the view it is in.
THEOREM StacksFollowTheView == Spec => []LevelsMatchView
<1>1. IInv => LevelsMatchView
  BY DEF IInv, AllFollow, FollowsItsView, LevelsMatchView
<1>2. QED
  BY <1>1, Invariance, PTL

(***************************************************************************)
(* Whose number a session reads                                            *)
(***************************************************************************)

\* Only open connections have a number, and each has one.
OpenHasOneFd ==
    /\ \A n \in Fds : file[n] \in Conns => client[file[n]] = "open"
    /\ \A m, n \in Fds : file[m] \in Conns /\ file[m] = file[n] => m = n

\* The other thread has its own file still, or the server has closed it.
OtherOwnsItsFd == otherFd # NoFd => file[otherFd] \in Others \/ otherFd \in stolen

\* A number that is closed under the session being read stays without a
\* connection until the session is gone: only this thread accepts.
NoNewConnection ==
    (/\ reading # NoFd
     /\ client[sessions[reading].conn] = "closed"
     /\ reading \notin stolen) => file[reading] \notin Conns

OwnInv ==
    IInv /\ OpenHasOneFd /\ OtherOwnsItsFd /\ NoNewConnection /\ SessionsOwnTheirFds

LEMMA InitOwn == Init => OwnInv
  BY InitInv, ServerAssumption
     DEF Init, OwnInv, OpenHasOneFd, OtherOwnsItsFd, NoNewConnection,
         SessionsOwnTheirFds

\* The effect of closing a number on who is open.
LEMMA CloseKeepsOpen ==
    ASSUME KernelOK, OpenHasOneFd, NEW n \in Fds, Close(n)
    PROVE  /\ OpenHasOneFd'
           /\ file'[n] = Free
           /\ \A m \in Fds \ {n} : file'[m] = file[m]
           /\ \A c \in Conns : client[c] = "closed" => client'[c] = "closed"
           /\ \A c \in Conns : file[n] = c => client'[c] = "closed"
<1>1. /\ file'[n] = Free
      /\ \A m \in Fds \ {n} : file'[m] = file[m]
      /\ \A c \in Conns : client'[c] = IF file[n] = c THEN "closed" ELSE client[c]
  BY DEF Close, KernelOK
<1>2. ASSUME NEW m \in Fds, file'[m] \in Conns
      PROVE  m # n /\ file'[m] = file[m] /\ client'[file'[m]] = "open"
  <2>1. m # n /\ file'[m] = file[m]
    BY <1>1, <1>2, ServerAssumption
  <2>2. file[n] # file[m] /\ client[file[m]] = "open"
    BY <2>1, <1>2 DEF OpenHasOneFd
  <2>3. QED
    BY <1>1, <1>2, <2>1, <2>2
<1>3. QED
  BY <1>1, <1>2 DEF OpenHasOneFd

LEMMA OwnStep == OwnInv /\ [Next]_vars => OwnInv'
<1> SUFFICES ASSUME OwnInv, [Next]_vars PROVE OwnInv'
  OBVIOUS
<1> USE ServerAssumption
<1>0. /\ KernelOK /\ ServerOK /\ IInv'
      /\ OpenHasOneFd /\ OtherOwnsItsFd /\ NoNewConnection /\ SessionsOwnTheirFds
  BY TwoParts, KernelStep, ServerStepLemma
     DEF OwnInv, IInv, TypeOK, KernelOK, ServerOK
<1> DEFINE Goal == /\ OpenHasOneFd' /\ OtherOwnsItsFd'
                   /\ NoNewConnection' /\ SessionsOwnTheirFds'
<1> SUFFICES Goal
  BY <1>0 DEF OwnInv
<1>s. \A n \in Fds : sessions[n] # NoSession => sessions[n].conn \in Conns
  BY <1>0, SessionFields DEF ServerOK
<1>r. reading # NoFd => reading \in Fds /\ sessions[reading] # NoSession
  BY <1>0 DEF ServerOK
<1>1. ASSUME NEW c \in Conns, Connect(c)
      PROVE  Goal
  <2>1. /\ client[c] = "new" /\ client' = [client EXCEPT ![c] = "backlog"]
        /\ UNCHANGED <<file, sessions, reading, otherFd, stolen>>
    BY <1>1 DEF Connect
  <2>2. \A d \in Conns : client[d] \in {"open", "closed"} => client'[d] = client[d]
    BY <2>1, <1>0 DEF KernelOK
  <2>3. \A d \in Conns : client'[d] = "closed" => client[d] = "closed"
    BY <2>1, <1>0 DEF KernelOK
  <2>4. QED
    BY <2>1, <2>2, <2>3, <1>0, <1>s, <1>r
       DEF OpenHasOneFd, OtherOwnsItsFd, NoNewConnection, SessionsOwnTheirFds
<1>2. ASSUME UNCHANGED <<client, file, sessions, reading, otherFd, stolen>>
      PROVE  Goal
  BY <1>2, <1>0
     DEF OpenHasOneFd, OtherOwnsItsFd, NoNewConnection, SessionsOwnTheirFds
<1>3. ASSUME NEW kind \in Others, NEW n \in Fds, OtherOpens(kind, n)
      PROVE  Goal
  <2>1. /\ file[n] = Free /\ file' = [file EXCEPT ![n] = kind] /\ otherFd' = n
        /\ UNCHANGED <<client, sessions, reading, stolen>>
    BY <1>3 DEF OtherOpens, LowestFree, FreeFds
  <2>2. file'[n] = kind /\ kind \notin Conns
        /\ \A m \in Fds \ {n} : file'[m] = file[m]
    BY <2>1, <1>0 DEF KernelOK
  <2>3. \A m \in Fds : file'[m] \in Conns => m # n /\ file'[m] = file[m]
    BY <2>2
  <2>4. OpenHasOneFd'
    BY <2>1, <2>3, <1>0 DEF OpenHasOneFd
  <2>5. OtherOwnsItsFd'
    BY <2>1, <2>2 DEF OtherOwnsItsFd
  <2>6. NoNewConnection'
    BY <2>1, <2>3, <1>0, <1>r DEF NoNewConnection
  <2>7. SessionsOwnTheirFds'
    BY <2>1, <2>2, <1>0, <1>s DEF SessionsOwnTheirFds
  <2>8. QED
    BY <2>4, <2>5, <2>6, <2>7
<1>4. CASE OtherCloses
  <2>1. /\ otherFd \in Fds /\ Close(otherFd) /\ otherFd' = NoFd
        /\ UNCHANGED <<sessions, reading, stolen>>
    BY <1>4, <1>0 DEF OtherCloses, KernelOK
  <2>2. /\ OpenHasOneFd' /\ file'[otherFd] = Free
        /\ \A m \in Fds \ {otherFd} : file'[m] = file[m]
        /\ \A c \in Conns : client[c] = "closed" => client'[c] = "closed"
    BY <2>1, <1>0, CloseKeepsOpen
  <2>3. NoNewConnection'
    <3> SUFFICES ASSUME reading # NoFd, client'[sessions[reading].conn] = "closed",
                        reading \notin stolen, file'[reading] \in Conns
                 PROVE  FALSE
      BY <2>1 DEF NoNewConnection
    <3>1. reading # otherFd /\ file'[reading] = file[reading]
      BY <2>2, <1>r
    <3>2. file[reading] = sessions[reading].conn \/ client[sessions[reading].conn] = "closed"
      BY <1>0, <1>r DEF SessionsOwnTheirFds
    <3>3. CASE file[reading] = sessions[reading].conn
      BY <2>2, <3>1, <3>3, <1>r DEF OpenHasOneFd
    <3>4. CASE client[sessions[reading].conn] = "closed"
      BY <3>1, <3>4, <1>0 DEF NoNewConnection
    <3>5. QED
      BY <3>2, <3>3, <3>4
  <2>4. SessionsOwnTheirFds'
    <3> SUFFICES ASSUME NEW n \in Fds, sessions[n] # NoSession, n \notin stolen
                 PROVE  \/ file'[n] = sessions[n].conn
                        \/ reading = n /\ client'[sessions[n].conn] = "closed"
      BY <2>1 DEF SessionsOwnTheirFds
    <3>1. sessions[n].conn \in Conns
      BY <1>s
    <3>2. CASE file[n] = sessions[n].conn
      <4>1. n # otherFd
        BY <3>1, <3>2, <2>1, <1>0 DEF OtherOwnsItsFd
      <4>2. QED
        BY <4>1, <2>2, <3>2
    <3>3. CASE reading = n /\ client[sessions[n].conn] = "closed"
      BY <3>1, <3>3, <2>2
    <3>4. QED
      BY <3>2, <3>3, <1>0 DEF SessionsOwnTheirFds
  <2>5. QED
    BY <2>1, <2>2, <2>3, <2>4 DEF OtherOwnsItsFd
<1>5. ASSUME NEW c \in Conns, NEW n \in Fds, Accept(c, n)
      PROVE  Goal
  <2>1. /\ client[c] = "backlog" /\ client' = [client EXCEPT ![c] = "open"]
        /\ file[n] = Free /\ file' = [file EXCEPT ![n] = c]
        /\ sessions' = [sessions EXCEPT ![n] = NewSession(c)]
        /\ reading = NoFd /\ UNCHANGED <<reading, otherFd, stolen>>
    BY <1>5 DEF Accept, NextToAccept, LowestFree, FreeFds
  <2>2. /\ file'[n] = c /\ \A m \in Fds \ {n} : file'[m] = file[m]
        /\ client'[c] = "open" /\ \A d \in Conns \ {c} : client'[d] = client[d]
        /\ sessions'[n] = NewSession(c)
        /\ \A m \in Fds \ {n} : sessions'[m] = sessions[m]
    BY <2>1, <1>0 DEF KernelOK, ServerOK
  <2>3. \A m \in Fds \ {n} : file[m] # c
    BY <2>1, <1>0 DEF OpenHasOneFd
  <2>4. OpenHasOneFd'
    <3>1. \A m \in Fds : file'[m] \in Conns => client'[file'[m]] = "open"
      <4> SUFFICES ASSUME NEW m \in Fds, file'[m] \in Conns
                   PROVE  client'[file'[m]] = "open"
        OBVIOUS
      <4>1. CASE m = n
        BY <4>1, <2>2
      <4>2. CASE m # n
        <5>1. file'[m] = file[m] /\ file[m] # c
          BY <4>2, <2>2, <2>3
        <5>2. client[file[m]] = "open"
          BY <5>1, <1>0 DEF OpenHasOneFd
        <5>3. QED
          BY <5>1, <5>2, <2>2
      <4>3. QED
        BY <4>1, <4>2
    <3>2. ASSUME NEW m \in Fds, NEW k \in Fds, file'[m] \in Conns,
                 file'[m] = file'[k], m # k
          PROVE  FALSE
      <4>1. m # n /\ k # n
        BY <2>2, <2>3, <3>2
      <4>2. file[m] \in Conns /\ file[m] = file[k]
        BY <2>2, <3>2, <4>1
      <4>3. QED
        BY <3>2, <4>2, <1>0 DEF OpenHasOneFd
    <3>3. QED
      BY <3>1, <3>2 DEF OpenHasOneFd
  <2>5. OtherOwnsItsFd'
    BY <2>1, <2>2, <1>0 DEF OtherOwnsItsFd, KernelOK
  <2>6. NewSession(c).conn = c
    BY DEF NewSession
  <2>7. SessionsOwnTheirFds'
    <3> SUFFICES ASSUME NEW m \in Fds, sessions'[m] # NoSession, m \notin stolen
                 PROVE  file'[m] = sessions'[m].conn
      BY <2>1 DEF SessionsOwnTheirFds
    <3>1. CASE m = n
      BY <3>1, <2>2, <2>6
    <3>2. CASE m # n
      BY <3>2, <2>1, <2>2, <1>0 DEF SessionsOwnTheirFds
    <3>3. QED
      BY <3>1, <3>2
  <2>8. QED
    BY <2>1, <2>4, <2>5, <2>7 DEF NoNewConnection
<1>6. ASSUME NEW c \in Conns, NEW n \in Fds, AcceptAndDrop(c, n)
      PROVE  Goal
  <2>1. /\ client[c] = "backlog" /\ client' = [client EXCEPT ![c] = "closed"]
        /\ file[n] = Free
        /\ \/ sessions' = [sessions EXCEPT ![n] = NoSession]
           \/ /\ sessions[n] # NoSession
              /\ sessions' = [sessions EXCEPT ![n] = NewSession(c)]
        /\ reading = NoFd /\ UNCHANGED <<file, reading, otherFd, stolen>>
    BY <1>6 DEF AcceptAndDrop, NextToAccept, LowestFree, FreeFds
  <2>2. /\ \A d \in Conns : client[d] = "open" => client'[d] = "open"
        /\ \A m \in Fds \ {n} : sessions'[m] = sessions[m]
    BY <2>1, <1>0 DEF KernelOK, ServerOK
  <2>3. OpenHasOneFd'
    BY <2>1, <2>2, <1>0 DEF OpenHasOneFd
  <2>4. sessions'[n] = NoSession \/ n \in stolen
    <3>1. CASE sessions' = [sessions EXCEPT ![n] = NoSession]
      BY <3>1, <1>0 DEF ServerOK
    <3>2. CASE sessions[n] # NoSession
      <4>1. file[n] # sessions[n].conn /\ reading # n
        BY <3>2, <2>1, <1>s
      <4>2. QED
        BY <3>2, <4>1, <1>0 DEF SessionsOwnTheirFds
    <3>3. QED
      BY <2>1, <3>1, <3>2
  <2>5. SessionsOwnTheirFds'
    <3> SUFFICES ASSUME NEW m \in Fds, sessions'[m] # NoSession, m \notin stolen
                 PROVE  file'[m] = sessions'[m].conn
      BY <2>1 DEF SessionsOwnTheirFds
    <3>1. m # n
      BY <2>4
    <3>2. QED
      BY <3>1, <2>1, <2>2, <1>0, ServerAssumption DEF SessionsOwnTheirFds
  <2>6. QED
    BY <2>1, <2>3, <2>5, <1>0 DEF OtherOwnsItsFd, NoNewConnection
<1>7. ASSUME NEW n \in Fds, HandleInput(n)
      PROVE  Goal
  <2>1. /\ reading = NoFd /\ reading' \in {n, NoFd}
        /\ UNCHANGED <<client, file, sessions, otherFd, stolen>>
    BY <1>7 DEF HandleInput, kernel
  <2>2. SessionsOwnTheirFds'
    BY <2>1, <1>0 DEF SessionsOwnTheirFds
  <2>3. NoNewConnection'
    <3> SUFFICES ASSUME reading' = n, sessions[n] # NoSession, n \notin stolen,
                        client[sessions[n].conn] = "closed"
                 PROVE  FALSE
      BY <2>1, <1>7 DEF NoNewConnection, HandleInput
    <3>1. file[n] = sessions[n].conn
      BY <2>1, <1>0 DEF SessionsOwnTheirFds
    <3>2. QED
      BY <3>1, <1>s, <1>0 DEF OpenHasOneFd
  <2>4. QED
    BY <2>1, <2>2, <2>3, <1>0 DEF OpenHasOneFd, OtherOwnsItsFd
<1>8. CASE ReadLine
  <2>1. /\ reading \in Fds /\ sessions[reading] # NoSession
        /\ FollowsItsView(sessions[reading])
        /\ UNCHANGED <<client, file, reading, otherFd, stolen>>
    BY <1>8, <1>0 DEF ReadLine, InReadLoop, ServerOK, AllFollow
  <2>2. PICK s \in AfterLine(sessions[reading]) :
            sessions' = [sessions EXCEPT ![reading] = s]
    BY <1>8 DEF ReadLine
  <2>3. s.conn = sessions[reading].conn
    BY <2>1, <2>2, AfterLineFollows
  <2>4. /\ sessions'[reading].conn = sessions[reading].conn
        /\ \A m \in Fds \ {reading} : sessions'[m] = sessions[m]
    BY <2>1, <2>2, <2>3, <1>0 DEF ServerOK
  <2>5. SessionsOwnTheirFds'
    <3> SUFFICES ASSUME NEW m \in Fds, sessions'[m] # NoSession, m \notin stolen
                 PROVE  \/ file[m] = sessions'[m].conn
                        \/ reading = m /\ client[sessions'[m].conn] = "closed"
      BY <2>1 DEF SessionsOwnTheirFds
    <3>1. sessions[m] # NoSession /\ sessions'[m].conn = sessions[m].conn
      BY <2>1, <2>4
    <3>2. QED
      BY <3>1, <1>0 DEF SessionsOwnTheirFds
  <2>6. NoNewConnection'
    BY <2>1, <2>4, <1>0 DEF NoNewConnection
  <2>7. QED
    BY <2>1, <2>5, <2>6, <1>0 DEF OpenHasOneFd, OtherOwnsItsFd
<1>9. CASE ExitSession \/ Disconnect
  <2>1. /\ reading \in Fds /\ Close(reading) /\ otherFd' = otherFd
        /\ stolen' = IF file[reading] \in Others THEN stolen \cup {reading} ELSE stolen
    BY <1>9, <1>0 DEF ExitSession, Disconnect, InReadLoop, CloseByServer, ServerOK
  <2>2. /\ OpenHasOneFd' /\ file'[reading] = Free
        /\ \A m \in Fds \ {reading} : file'[m] = file[m]
        /\ \A c \in Conns : client[c] = "closed" => client'[c] = "closed"
        /\ \A c \in Conns : file[reading] = c => client'[c] = "closed"
    BY <2>1, <1>0, CloseKeepsOpen
  <2>3. OtherOwnsItsFd'
    <3>1. CASE otherFd = reading
      BY <3>1, <2>1, <1>0 DEF OtherOwnsItsFd
    <3>2. CASE otherFd # reading
      BY <3>2, <2>1, <2>2, <1>0 DEF OtherOwnsItsFd, KernelOK
    <3>3. QED
      BY <3>1, <3>2
  <2>4. NoNewConnection'
    <3>1. CASE ExitSession
      BY <3>1, <2>2 DEF ExitSession, NoNewConnection
    <3>2. CASE Disconnect
      BY <3>2 DEF Disconnect, NoNewConnection
    <3>3. QED
      BY <1>9, <3>1, <3>2
  <2>5. SessionsOwnTheirFds'
    <3> SUFFICES ASSUME NEW m \in Fds, sessions'[m] # NoSession, m \notin stolen'
                 PROVE  \/ file'[m] = sessions'[m].conn
                        \/ reading' = m /\ client'[sessions'[m].conn] = "closed"
      BY DEF SessionsOwnTheirFds
    <3>1. sessions[m] # NoSession /\ sessions'[m] = sessions[m] /\ m \notin stolen
      <4>1. CASE ExitSession
        BY <4>1, <2>1 DEF ExitSession
      <4>2. CASE Disconnect
        BY <4>2, <2>1, <1>0 DEF Disconnect, ServerOK
      <4>3. QED
        BY <1>9, <4>1, <4>2
    <3>2. sessions[m].conn \in Conns
      BY <3>1, <1>s
    <3>3. CASE m # reading
      BY <3>1, <3>3, <2>2, <1>0 DEF SessionsOwnTheirFds
    <3>4. CASE m = reading
      <4>1. reading' = reading
        <5>1. ~ Disconnect
          BY <3>4, <2>1, <1>0 DEF Disconnect, ServerOK
        <5>2. QED
          BY <5>1, <1>9 DEF ExitSession
      <4>2. file[m] = sessions[m].conn \/ client[sessions[m].conn] = "closed"
        BY <3>1, <1>0 DEF SessionsOwnTheirFds
      <4>3. client'[sessions[m].conn] = "closed"
        BY <3>2, <3>4, <4>2, <2>2
      <4>4. QED
        BY <3>1, <3>4, <4>1, <4>3
    <3>5. QED
      BY <3>3, <3>4
  <2>6. QED
    BY <2>2, <2>3, <2>4, <2>5
<1>10. CASE NoMoreInput
  <2>1. /\ reading \in Fds /\ file[reading] \in Conns /\ reading' = NoFd
        /\ UNCHANGED <<client, file, sessions, otherFd, stolen>>
    BY <1>10, <1>0 DEF NoMoreInput, InReadLoop, Again, kernel, ServerOK
  <2>2. SessionsOwnTheirFds'
    BY <2>1, <1>0 DEF SessionsOwnTheirFds, NoNewConnection
  <2>3. QED
    BY <2>1, <2>2, <1>0 DEF OpenHasOneFd, OtherOwnsItsFd, NoNewConnection
<1>11. QED
  <2>1. CASE UNCHANGED vars
    <3>1. UNCHANGED <<client, file, sessions, reading, otherFd, stolen>>
      BY <2>1 DEF vars, kernel
    <3>2. QED
      BY <3>1, <1>2
  <2>2. ASSUME NEW c \in Conns, SendLine(c) \/ HangUp(c)
        PROVE  Goal
    <3>1. UNCHANGED <<client, file, sessions, reading, otherFd, stolen>>
      BY <2>2 DEF SendLine, HangUp
    <3>2. QED
      BY <3>1, <1>2
  <2>3. CASE WaitEvents \/ AcceptFails \/ BlockOnSocket
    <3>1. UNCHANGED <<client, file, sessions, reading, otherFd, stolen>>
      BY <2>3 DEF WaitEvents, AcceptFails, BlockOnSocket, kernel
    <3>2. QED
      BY <3>1, <1>2
  <2> HIDE DEF Goal
  <2>4. QED
    BY <2>1, <2>2, <2>3, <1>1, <1>3, <1>4, <1>5, <1>6, <1>7, <1>8, <1>9, <1>10
       DEF Next, ServerStep, Environment

\* Every session is served from its own connection, for any number of clients
\* and whatever other threads open and close, unless the server has closed
\* another thread's file at its number.
THEOREM SessionsAreSeparate == Spec => []SessionsOwnTheirFds
<1>1. OwnInv => SessionsOwnTheirFds
  BY DEF OwnInv
<1>2. QED
  BY <1>1, InitOwn, OwnStep, PTL DEF Spec
==============================================================================
