------------------------------- MODULE Desktop -------------------------------
(***************************************************************************)
(* The desktop client (desktop/src/main.tsx) and the sessions of the server  *)
(* it signs in with (server/src/routes/auth.ts, http.ts): one account, the   *)
(* window, and another device of the same account.                         *)
(*                                                                         *)
(* A token is known by the second in which it was signed: it holds the       *)
(* account's fields and that second, so two tokens of one second are equal.  *)
(* The window's state is what React keeps; calls are its requests under way  *)
(* in the order in which they were sent, each with the selection that the    *)
(* code awaiting it captured.  What the screens show of a search is reduced  *)
(* to which search it is.                                                  *)
(***************************************************************************)
EXTENDS Naturals, Sequences, SequencesExt

CONSTANTS
    Searches,
    NoSearch,       \* nothing selected, nothing shown
    MaxSeconds,     \* bound: seconds that pass
    MaxCalls        \* bound: screen requests under way at once

ASSUME NoSearchAssumption == NoSearch \notin Searches
ASSUME BoundsAssumption == MaxSeconds \in Nat \ {0} /\ MaxCalls \in Nat \ {0}

VARIABLES
    clock,
    session,    \* each token's row: none, live, or expired
    active,     \* the account is switched on
    stored,     \* each device's token, NoToken for none
    login,      \* each device's POST login
    unawaited,  \* POST logins of pages that are gone: their tokens, NoToken before it is signed
    logout,     \* the token of the other device's POST logout
    me,         \* the window's GET /me
    signedIn,   \* user is set, and the screens are shown instead of Login
    selected,
    shown,      \* the search whose tasks, members and track are displayed
    calls,
    disturbed,  \* history: since the page was loaded a load of details failed or overtook another
    raced       \* history: Login was answered before GET /me was, and that has not found the
                \* account since

server == <<clock, session, active>>
signingIn == <<stored, login, unawaited, logout, me, signedIn, raced>>
screen == <<selected, shown, calls, disturbed>>
vars == <<server, signingIn, screen>>

NoToken == 0
Token == 1..MaxSeconds
Devices == {"window", "other"}

NoLogin == [at |-> "none", token |-> NoToken]

\* The window may start with the token of an earlier day or of a moment ago.
Init ==
    /\ clock = 1
    /\ session \in [Token -> {"none", "live", "expired"}]
    /\ \A t \in Token : t > clock => session[t] = "none"
    /\ active \in BOOLEAN
    /\ stored \in [Devices -> {NoToken, clock}]
    /\ stored["other"] = NoToken
    /\ session[clock] = "none" <=> stored["window"] = NoToken
    /\ login = [d \in Devices |-> NoLogin] /\ unawaited = {} /\ logout = NoToken
    /\ me = [at |-> IF stored["window"] = NoToken THEN "none" ELSE "sent",
             token |-> stored["window"]]
    /\ signedIn = FALSE /\ raced = FALSE
    /\ selected = NoSearch /\ shown = NoSearch /\ calls = <<>>
    /\ disturbed = FALSE

-----------------------------------------------------------------------------
(* The server.                                                             *)

Tick ==
    /\ clock < MaxSeconds
    /\ clock' = clock + 1
    /\ UNCHANGED <<session, active, signingIn, screen>>

\* Twelve hours after the login.
Expires(t) ==
    /\ session[t] = "live"
    /\ session' = [session EXCEPT ![t] = "expired"]
    /\ UNCHANGED <<clock, active, signingIn, screen>>

\* PATCH /users (module Accounts); the rows of sessions stay.
SwitchAccount ==
    /\ active' = ~active
    /\ UNCHANGED <<clock, session, signingIn, screen>>

\* Mutant: iat is rounded up.
RoundedUp == clock + 1

\* iat, in whole seconds.
SignedNow == clock

\* The active account is read, the password compared, the token signed.
SignsToken(d) ==
    /\ login[d].at = "sent" /\ active
    /\ login' = [login EXCEPT ![d] = [at |-> "signed", token |-> SignedNow]]
    /\ UNCHANGED <<server, stored, unawaited, logout, me, signedIn, raced, screen>>

\* Mutant: sessions.token_hash without a UNIQUE index.
Insertable(t) == TRUE

\* ux_sessions_token_hash
Unused(t) == session[t] = "none"

InsertsSession(d) ==
    LET t == login[d].token IN
    /\ login[d].at = "signed" /\ Unused(t)
    /\ session' = [session EXCEPT ![t] = "live"]
    /\ login' = [login EXCEPT ![d].at = "answered"]
    /\ UNCHANGED <<clock, active, stored, unawaited, logout, me, signedIn, raced, screen>>

\* Wrong credentials, an inactive account, the UNIQUE index, an error.
LoginFails(d) ==
    /\ login[d].at \in {"sent", "signed"}
    /\ login' = [login EXCEPT ![d] = NoLogin]
    /\ UNCHANGED <<server, stored, unawaited, logout, me, signedIn, raced, screen>>

\* The same for a login that nobody awaits any more.
SignsUnawaited ==
    /\ NoToken \in unawaited /\ active
    /\ unawaited' = (unawaited \ {NoToken}) \cup {SignedNow}
    /\ UNCHANGED <<server, stored, login, logout, me, signedIn, raced, screen>>

InsertsUnawaited(t) ==
    /\ t \in unawaited /\ Unused(t)
    /\ session' = [session EXCEPT ![t] = "live"]
    /\ unawaited' = unawaited \ {t}
    /\ UNCHANGED <<clock, active, stored, login, logout, me, signedIn, raced, screen>>

UnawaitedFails(t) ==
    /\ unawaited' = unawaited \ {t}
    /\ UNCHANGED <<server, stored, login, logout, me, signedIn, raced, screen>>

\* auth: the row of the token, joined with the active account.
Admits(t) == t \in Token /\ session[t] = "live" /\ active

AnswersMe ==
    /\ me.at = "sent"
    /\ me' = [me EXCEPT !.at = IF Admits(me.token) THEN "admitted" ELSE "refused"]
    /\ UNCHANGED <<server, stored, login, unawaited, logout, signedIn, raced, screen>>

\* DELETE FROM sessions, for whom auth admits.
DeletesSession ==
    /\ logout # NoToken
    /\ session' = IF Admits(logout) THEN [session EXCEPT ![logout] = "none"] ELSE session
    /\ logout' = NoToken
    /\ UNCHANGED <<clock, active, stored, login, unawaited, me, signedIn, raced, screen>>

-----------------------------------------------------------------------------
(* Signing in and out.                                                     *)

\* busy disables the button of Login while its request is under way.
Submit(d) ==
    /\ login[d] = NoLogin
    /\ d = "window" => ~signedIn
    /\ d = "other" => stored[d] = NoToken
    /\ login' = [login EXCEPT ![d].at = "sent"]
    /\ UNCHANGED <<server, stored, unawaited, logout, me, signedIn, raced, screen>>

OtherSignedIn ==
    /\ login["other"].at = "answered"
    /\ stored' = [stored EXCEPT !["other"] = login["other"].token]
    /\ login' = [login EXCEPT !["other"] = NoLogin]
    /\ UNCHANGED <<server, unawaited, logout, me, signedIn, raced, screen>>

\* An API client that signs out with POST logout and forgets its token.
OtherSignsOut ==
    /\ stored["other"] # NoToken /\ logout = NoToken
    /\ logout' = stored["other"]
    /\ stored' = [stored EXCEPT !["other"] = NoToken]
    /\ UNCHANGED <<server, login, unawaited, me, signedIn, raced, screen>>

Call(kind, s) == [kind |-> kind, about |-> s]

Room == Len(calls) < MaxCalls

\* The effect on user: reload, with the selection of that render.
SetUser ==
    /\ Room
    /\ signedIn' = TRUE
    /\ calls' = Append(calls, Call("list", selected))
    /\ UNCHANGED <<selected, shown, disturbed>>

\* setItem, onLogin.  The answer of GET /me of the token before may be out.
WindowSignedIn ==
    /\ login["window"].at = "answered"
    /\ stored' = [stored EXCEPT !["window"] = login["window"].token]
    /\ login' = [login EXCEPT !["window"] = NoLogin]
    /\ SetUser
    /\ raced' = (me.at # "none")
    /\ UNCHANGED <<server, unawaited, logout, me>>

Recognised ==
    /\ me.at = "admitted"
    /\ me' = [at |-> "none", token |-> NoToken]
    /\ SetUser
    /\ raced' = FALSE
    /\ UNCHANGED <<server, stored, login, unawaited, logout>>

\* catch: refused, or any other error, and the stored token is removed.
NotRecognised ==
    /\ me.at \in {"sent", "refused"}
    /\ me' = [at |-> "none", token |-> NoToken]
    /\ stored' = [stored EXCEPT !["window"] = NoToken]
    /\ UNCHANGED <<server, login, unawaited, logout, signedIn, raced, screen>>

\* The page is loaded anew: what it awaited is lost, but a login that it sent
\* may reach the server and be served, however late.
LoadsPage(token) ==
    /\ stored' = [stored EXCEPT !["window"] = token]
    /\ me' = [at |-> IF token = NoToken THEN "none" ELSE "sent", token |-> token]
    /\ login' = [login EXCEPT !["window"] = NoLogin]
    /\ unawaited' = unawaited \cup
           {t \in {login["window"].token} : login["window"].at \in {"sent", "signed"}}
    /\ signedIn' = FALSE /\ raced' = FALSE
    /\ selected' = NoSearch /\ shown' = NoSearch /\ calls' = <<>>
    /\ disturbed' = FALSE
    /\ UNCHANGED <<server, logout>>

\* The window is closed and opened.
Reopen == LoadsPage(stored["window"])

\* The server is not told.
SignsOut == signedIn /\ LoadsPage(NoToken)

-----------------------------------------------------------------------------
(* The screens.                                                            *)

\* Mutant: the effect depends on nothing and runs once.
LoadsOnce(s, rest) == IF selected # NoSearch THEN rest ELSE Append(rest, Call("detail", s))

\* setSelected and the effect on selected?.id.
LoadsIfNew(s, rest) == IF s = selected THEN rest ELSE Append(rest, Call("detail", s))

Select(s) ==
    /\ signedIn /\ Room
    /\ selected' = s
    /\ calls' = LoadsIfNew(s, calls)
    /\ UNCHANGED <<server, signingIn, shown, disturbed>>

\* The refresh button; a status, a task or a task's status is changed; a
\* search is created.
Ask(kind, s) ==
    /\ signedIn /\ Room
    /\ kind = "list" => s = selected
    /\ kind = "change" => s = selected /\ s # NoSearch
    /\ kind = "create" => s # NoSearch
    /\ calls' = Append(calls, Call(kind, s))
    /\ UNCHANGED <<server, signingIn, selected, shown, disturbed>>

Others(i) == RemoveAt(calls, i)

\* reload: the search that was selected when it was called is selected again,
\* if the list still has it.
Listed(i) ==
    LET s == calls[i].about IN
    /\ calls[i].kind = "list"
    /\ \/ /\ s # NoSearch
          /\ selected' = s
          /\ calls' = LoadsIfNew(s, Others(i))
       \/ calls' = Others(i) /\ UNCHANGED selected
    /\ UNCHANGED <<server, signingIn, shown, disturbed>>

\* onRefresh, from the render in which the change was made.
Changed(i) ==
    /\ calls[i].kind = "change"
    /\ calls' = Append(Others(i), Call("list", calls[i].about))
    /\ UNCHANGED <<server, signingIn, selected, shown, disturbed>>

Created(i) ==
    /\ calls[i].kind = "create"
    /\ selected' = calls[i].about
    /\ calls' = LoadsIfNew(calls[i].about, Others(i))
    /\ UNCHANGED <<server, signingIn, shown, disturbed>>

\* Promise.all of tasks, members and track; nothing asks whether the search is
\* still the selected one.
Loaded(i) ==
    /\ calls[i].kind = "detail"
    /\ shown' = calls[i].about
    /\ calls' = Others(i)
    /\ disturbed' = (disturbed \/ \E j \in 1..(i - 1) : calls[j].kind = "detail")
    /\ UNCHANGED <<server, signingIn, selected>>

\* Mutant: a failed request drops the token, as the effect on /me does.
DropsToken == [stored EXCEPT !["window"] = NoToken]

TokenAfterError == stored

\* An error or a refusal: the screen stays as it is.
CallFails(i) ==
    /\ calls' = Others(i)
    /\ stored' = TokenAfterError
    /\ disturbed' = (disturbed \/ calls[i].kind = "detail")
    /\ UNCHANGED <<server, login, unawaited, logout, me, signedIn, raced, selected, shown>>

Next ==
    \/ Tick \/ SwitchAccount \/ AnswersMe \/ DeletesSession
    \/ \E t \in Token : Expires(t)
    \/ \E d \in Devices : Submit(d) \/ SignsToken(d) \/ InsertsSession(d) \/ LoginFails(d)
    \/ SignsUnawaited \/ \E t \in Token : InsertsUnawaited(t)
    \/ \E t \in unawaited : UnawaitedFails(t)
    \/ OtherSignedIn \/ OtherSignsOut
    \/ WindowSignedIn \/ Recognised \/ NotRecognised \/ Reopen \/ SignsOut
    \/ \E s \in Searches : Select(s)
    \/ \E k \in {"list", "change", "create"}, s \in Searches \cup {NoSearch} : Ask(k, s)
    \/ \E i \in DOMAIN calls :
           Listed(i) \/ Changed(i) \/ Created(i) \/ Loaded(i) \/ CallFails(i)

Spec == Init /\ [][Next]_vars

-----------------------------------------------------------------------------
\* The types of the variables.
TypeOK ==
    /\ clock \in Token /\ active \in BOOLEAN
    /\ session \in [Token -> {"none", "live", "expired"}]
    /\ stored \in [Devices -> Token \cup {NoToken}]
    /\ login \in [Devices -> [at: {"none", "sent", "signed", "answered"},
                              token: Token \cup {NoToken}]]
    /\ unawaited \subseteq Token \cup {NoToken} /\ logout \in Token \cup {NoToken}
    /\ me \in [at: {"none", "sent", "admitted", "refused"}, token: Token \cup {NoToken}]
    /\ signedIn \in BOOLEAN
    /\ selected \in Searches \cup {NoSearch} /\ shown \in Searches \cup {NoSearch}
    /\ calls \in Seq([kind: {"list", "detail", "change", "create"},
                      about: Searches \cup {NoSearch}])
    /\ disturbed \in BOOLEAN /\ raced \in BOOLEAN

\* Once nothing is under way, the tasks, members and track on the screen are
\* those of the search in its title, whatever logins, reloads, changes and
\* creations moved the selection meanwhile (main.tsx 165-170): as long as,
\* since the page was loaded, no load of details failed or was answered before
\* an earlier one, which the code relies on and does not see to.
ShowsTheSelected ==
    calls = <<>> /\ ~disturbed /\ selected # NoSearch => shown = selected

\* A window that shows its screens holds a token to ask with, whatever fails,
\* expires or is overtaken: unless Login was answered before GET /me about the
\* token before, whose late refusal removes the new one (main.tsx 59, 164).
SignedInHasToken == signedIn /\ ~raced => stored["window"] # NoToken

\* Nobody's signing out ends the session of another device, although equal
\* tokens are signed for both within a second (auth.ts 34-40, 149-152): a
\* device's token has its row until it expires.
SessionsApart ==
    \A d \in Devices : stored[d] # NoToken => session[stored[d]] # "none"
=============================================================================
