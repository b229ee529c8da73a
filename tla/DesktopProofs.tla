---------------------------- MODULE DesktopProofs ----------------------------
(***************************************************************************)
(* For every set of searches and every bound on seconds and requests: the   *)
(* tokens of the devices have their rows, a window that shows its screens    *)
(* has a token, and undisturbed screens come to show the selected search.    *)
(*                                                                         *)
(* The argument about tokens: every token somebody still answers for, that   *)
(* is stored, answered to a login, or signed out and not yet deleted, has a  *)
(* row, and no two of them are equal, because an INSERT refuses a token that *)
(* has a row.  The argument about screens: the last load under way is of the *)
(* selected search, and with none under way its load was the last to answer. *)
(***************************************************************************)
EXTENDS Desktop, SequenceTheorems, TLAPS

-----------------------------------------------------------------------------
(* Part 1.  Calls under way, and types.                                    *)

CallType == [kind: {"list", "detail", "change", "create"}, about: Searches \cup {NoSearch}]

LoginType == [at: {"none", "sent", "signed", "answered"}, token: Token \cup {NoToken}]

MeType == [at: {"none", "sent", "admitted", "refused"}, token: Token \cup {NoToken}]

LEMMA RemoveAtIs ==
    ASSUME NEW S, NEW s \in Seq(S), NEW i \in DOMAIN s
    PROVE  /\ RemoveAt(s, i) \in Seq(S)
           /\ DOMAIN RemoveAt(s, i) = 1..(Len(s) - 1)
           /\ \A j \in 1..(Len(s) - 1) : RemoveAt(s, i)[j] = IF j < i THEN s[j] ELSE s[j + 1]
<1> DEFINE front == SubSeq(s, 1, i - 1)
           back == SubSeq(s, i + 1, Len(s))
<1>1. i \in 1..Len(s) /\ Len(s) \in Nat
    OBVIOUS
<1>2. front \in Seq(S) /\ Len(front) = i - 1 /\ \A j \in 1..(i - 1) : front[j] = s[j]
    BY <1>1
<1>3. /\ back \in Seq(S) /\ Len(back) = Len(s) - i
      /\ \A j \in 1..(Len(s) - i) : back[j] = s[i + j]
    BY <1>1
<1>4. RemoveAt(s, i) = front \o back
    BY DEF RemoveAt
<1> HIDE DEF front, back
<1>5. front \o back \in Seq(S) /\ Len(front \o back) = Len(s) - 1
    BY <1>1, <1>2, <1>3, ConcatProperties
<1>6. ASSUME NEW j \in 1..(Len(s) - 1)
      PROVE  (front \o back)[j] = IF j < i THEN s[j] ELSE s[j + 1]
    <2>1. CASE j < i
        BY <1>1, <1>2, <1>3, <2>1, ConcatProperties
    <2>2. CASE ~(j < i)
        <3>1. (front \o back)[j] = back[j - (i - 1)]
            BY <1>1, <1>2, <1>3, <2>2, ConcatProperties, SMTT(30)
        <3>2. j - (i - 1) \in 1..(Len(s) - i) /\ i + (j - (i - 1)) = j + 1
            BY <1>1, <2>2
        <3> QED
            BY <1>3, <2>2, <3>1, <3>2
    <2> QED
        BY <2>1, <2>2
<1> QED
    BY <1>1, <1>4, <1>5, <1>6

LEMMA OthersTyped ==
    ASSUME TypeOK, NEW i \in DOMAIN calls
    PROVE  Others(i) \in Seq(CallType) /\ calls[i] \in CallType
<1>1. calls \in Seq(CallType)
    BY DEF TypeOK, CallType
<1> QED
    BY <1>1, RemoveAtIs DEF Others

LEMMA LoadTyped ==
    ASSUME NEW s \in Searches \cup {NoSearch}, NEW rest \in Seq(CallType)
    PROVE  LoadsIfNew(s, rest) \in Seq(CallType)
<1>1. Call("detail", s) \in CallType
    BY DEF Call, CallType
<1> QED
    BY <1>1 DEF LoadsIfNew

LEMMA InitTyped == Init => TypeOK
<1> SUFFICES ASSUME Init PROVE TypeOK
    OBVIOUS
<1>1. clock \in Token /\ active \in BOOLEAN /\ session \in [Token -> {"none", "live", "expired"}]
    BY BoundsAssumption DEF Init, Token
<1>2. stored \in [Devices -> Token \cup {NoToken}] /\ logout \in Token \cup {NoToken}
    BY <1>1 DEF Init
<1>3. login \in [Devices -> LoginType]
    BY DEF Init, NoLogin, LoginType
<1>4. me \in MeType
    BY <1>2 DEF Init, MeType, Devices
<1>5. /\ signedIn \in BOOLEAN /\ disturbed \in BOOLEAN /\ raced \in BOOLEAN
      /\ unawaited \subseteq Token \cup {NoToken}
      /\ selected \in Searches \cup {NoSearch} /\ shown \in Searches \cup {NoSearch}
    BY DEF Init
<1>6. calls \in Seq(CallType)
    BY DEF Init
<1> QED
    BY <1>1, <1>2, <1>3, <1>4, <1>5, <1>6 DEF TypeOK, LoginType, MeType, CallType

LEMMA ServerTyped ==
    ASSUME TypeOK,
           \/ Tick \/ SwitchAccount \/ AnswersMe \/ DeletesSession
           \/ \E t \in Token : Expires(t)
           \/ \E d \in Devices : Submit(d) \/ SignsToken(d) \/ InsertsSession(d) \/ LoginFails(d)
           \/ SignsUnawaited \/ \E t \in Token : InsertsUnawaited(t)
           \/ \E t \in unawaited : UnawaitedFails(t)
    PROVE  TypeOK'
<1> USE BoundsAssumption DEF TypeOK, server, signingIn, screen
<1>1. CASE Tick
    BY <1>1 DEF Tick, Token
<1>2. CASE SwitchAccount \/ AnswersMe \/ DeletesSession \/ \E t \in Token : Expires(t)
    <2>1. CASE SwitchAccount
        BY <2>1 DEF SwitchAccount
    <2>2. CASE AnswersMe
        BY <2>2 DEF AnswersMe
    <2>3. CASE DeletesSession \/ \E t \in Token : Expires(t)
        BY <2>3 DEF DeletesSession, Expires, NoToken
    <2> QED
        BY <1>2, <2>1, <2>2, <2>3
<1>3. ASSUME NEW d \in Devices, Submit(d) \/ SignsToken(d) \/ InsertsSession(d) \/ LoginFails(d)
      PROVE  TypeOK'
    <2>1. login \in [Devices -> LoginType] /\ clock \in Token
        BY DEF LoginType
    <2>2. login' \in [Devices -> LoginType]
        BY <1>3, <2>1, SMTT(30) DEF Submit, SignsToken, SignedNow, InsertsSession, LoginFails,
           NoLogin, LoginType
    <2>3. session' \in [Token -> {"none", "live", "expired"}]
        BY <1>3 DEF Submit, SignsToken, InsertsSession, LoginFails
    <2> QED
        BY <1>3, <2>2, <2>3 DEF Submit, SignsToken, InsertsSession, LoginFails, LoginType
<1>4. CASE SignsUnawaited \/ \E t \in unawaited : UnawaitedFails(t)
    BY <1>4 DEF SignsUnawaited, SignedNow, UnawaitedFails
<1>5. CASE \E t \in Token : InsertsUnawaited(t)
    BY <1>5 DEF InsertsUnawaited
<1> QED
    BY <1>1, <1>2, <1>3, <1>4, <1>5

LEMMA SigningTyped ==
    ASSUME TypeOK,
           \/ OtherSignedIn \/ OtherSignsOut
           \/ WindowSignedIn \/ Recognised \/ NotRecognised \/ Reopen \/ SignsOut
    PROVE  TypeOK'
<1>1. /\ login \in [Devices -> LoginType] /\ me \in MeType /\ calls \in Seq(CallType)
      /\ stored \in [Devices -> Token \cup {NoToken}] /\ {"window", "other"} = Devices
    BY DEF TypeOK, LoginType, MeType, CallType, Devices
<1>2. /\ NoLogin \in LoginType /\ [at |-> "none", token |-> NoToken] \in MeType
      /\ NoToken \in Token \cup {NoToken}
    BY DEF NoLogin, LoginType, MeType
<1>3. /\ stored' \in [Devices -> Token \cup {NoToken}] /\ login' \in [Devices -> LoginType]
      /\ me' \in MeType /\ logout' \in Token \cup {NoToken}
    <2>1. CASE OtherSignedIn \/ OtherSignsOut
        BY <1>1, <1>2, <2>1, SMTT(30) DEF OtherSignedIn, OtherSignsOut, LoginType, TypeOK
    <2>2. CASE WindowSignedIn \/ Recognised \/ NotRecognised
        <3>1. /\ login' = login \/ login' = [login EXCEPT !["window"] = NoLogin]
              /\ me' = me \/ me' = [at |-> "none", token |-> NoToken]
              /\ logout' = logout
            BY <2>2, Zenon DEF WindowSignedIn, Recognised, NotRecognised
        <3>2. \/ stored' = stored \/ stored' = [stored EXCEPT !["window"] = NoToken]
              \/ stored' = [stored EXCEPT !["window"] = login["window"].token]
            BY <2>2, Zenon DEF WindowSignedIn, Recognised, NotRecognised
        <3>3. login' \in [Devices -> LoginType] /\ me' \in MeType /\ logout' \in Token \cup {NoToken}
            BY <1>1, <1>2, <3>1 DEF TypeOK
        <3>4. login["window"].token \in Token \cup {NoToken}
            BY <1>1 DEF LoginType
        <3>5. stored' \in [Devices -> Token \cup {NoToken}]
            BY <1>1, <3>2, <3>4
        <3> QED
            BY <3>3, <3>5
    <2>3. CASE Reopen \/ SignsOut
        <3>1. PICK t \in Token \cup {NoToken} : LoadsPage(t)
            BY <1>1, <1>2, <2>3 DEF Reopen, SignsOut
        <3>2. [at |-> IF t = NoToken THEN "none" ELSE "sent", token |-> t] \in MeType
            BY DEF MeType
        <3> QED
            BY <1>1, <1>2, <3>1, <3>2 DEF LoadsPage, TypeOK
    <2> QED
        BY <2>1, <2>2, <2>3
<1>4. /\ clock' \in Token /\ active' \in BOOLEAN /\ signedIn' \in BOOLEAN
      /\ disturbed' \in BOOLEAN /\ raced' \in BOOLEAN
      /\ session' \in [Token -> {"none", "live", "expired"}]
      /\ selected' \in Searches \cup {NoSearch} /\ shown' \in Searches \cup {NoSearch}
    <2>1. CASE OtherSignedIn \/ OtherSignsOut \/ NotRecognised
        BY <2>1 DEF OtherSignedIn, OtherSignsOut, NotRecognised, TypeOK, server, screen
    <2>2. CASE WindowSignedIn \/ Recognised
        BY <2>2 DEF WindowSignedIn, Recognised, SetUser, TypeOK, server
    <2>3. CASE Reopen \/ SignsOut
        BY <2>3 DEF Reopen, SignsOut, LoadsPage, TypeOK, server
    <2> QED
        BY <2>1, <2>2, <2>3
<1>5. calls' \in Seq(CallType)
    <2>1. Append(calls, Call("list", selected)) \in Seq(CallType)
        BY <1>1 DEF Call, CallType, TypeOK
    <2>2. CASE OtherSignedIn \/ OtherSignsOut \/ NotRecognised
        BY <1>1, <2>2 DEF OtherSignedIn, OtherSignsOut, NotRecognised, screen
    <2>3. CASE WindowSignedIn \/ Recognised
        BY <2>1, <2>3 DEF WindowSignedIn, Recognised, SetUser
    <2>4. CASE Reopen \/ SignsOut
        <3>1. calls' = <<>>
            BY <2>4 DEF Reopen, SignsOut, LoadsPage
        <3> QED
            BY <3>1
    <2> QED
        BY <2>2, <2>3, <2>4
<1>6. unawaited' \subseteq Token \cup {NoToken}
    <2>1. unawaited \subseteq Token \cup {NoToken} /\ login["window"].token \in Token \cup {NoToken}
        BY <1>1 DEF TypeOK, LoginType
    <2>2. CASE Reopen \/ SignsOut
        BY <2>1, <2>2 DEF Reopen, SignsOut, LoadsPage
    <2>3. CASE ~(Reopen \/ SignsOut)
        <3>1. unawaited' = unawaited
            BY <2>3 DEF OtherSignedIn, OtherSignsOut, WindowSignedIn, Recognised, NotRecognised
        <3> QED
            BY <2>1, <3>1
    <2> QED
        BY <2>2, <2>3
<1> QED
    BY <1>3, <1>4, <1>5, <1>6 DEF TypeOK, LoginType, MeType, CallType

LEMMA ScreensTyped ==
    ASSUME TypeOK,
           \/ \E s \in Searches : Select(s)
           \/ \E k \in {"list", "change", "create"}, s \in Searches \cup {NoSearch} : Ask(k, s)
           \/ \E i \in DOMAIN calls : Listed(i) \/ Changed(i) \/ Created(i) \/ Loaded(i) \/ CallFails(i)
    PROVE  TypeOK'
<1> SUFFICES /\ selected' \in Searches \cup {NoSearch} /\ shown' \in Searches \cup {NoSearch}
             /\ calls' \in Seq(CallType) /\ disturbed' \in BOOLEAN
             /\ UNCHANGED <<server, signingIn>>
    BY DEF TypeOK, server, signingIn, CallType
<1>0. calls \in Seq(CallType)
    BY DEF TypeOK, CallType
<1>1. CASE \E s \in Searches : Select(s)
    BY <1>0, <1>1, LoadTyped DEF Select, TypeOK
<1>2. CASE \E k \in {"list", "change", "create"}, s \in Searches \cup {NoSearch} : Ask(k, s)
    BY <1>0, <1>2 DEF Ask, Call, CallType, TypeOK
<1>3. ASSUME NEW i \in DOMAIN calls, Listed(i) \/ Changed(i) \/ Created(i) \/ Loaded(i) \/ CallFails(i)
      PROVE  /\ selected' \in Searches \cup {NoSearch} /\ shown' \in Searches \cup {NoSearch}
             /\ calls' \in Seq(CallType) /\ disturbed' \in BOOLEAN
             /\ UNCHANGED <<server, signingIn>>
    <2>1. /\ Others(i) \in Seq(CallType) /\ calls[i].about \in Searches \cup {NoSearch}
          /\ LoadsIfNew(calls[i].about, Others(i)) \in Seq(CallType)
        BY OthersTyped, LoadTyped DEF CallType
    <2>2. Append(Others(i), Call("list", calls[i].about)) \in Seq(CallType)
        BY <2>1 DEF Call, CallType
    <2> QED
        BY <1>3, <2>1, <2>2 DEF Listed, Changed, Created, Loaded, CallFails, TokenAfterError,
           TypeOK, server, signingIn
<1> QED
    BY <1>1, <1>2, <1>3

LEMMA NextTyped == TypeOK /\ [Next]_vars => TypeOK'
<1> SUFFICES ASSUME TypeOK, [Next]_vars PROVE TypeOK'
    OBVIOUS
<1>1. CASE UNCHANGED vars
    BY <1>1 DEF vars, server, signingIn, screen, TypeOK
<1> QED
    BY <1>1, ServerTyped, SigningTyped, ScreensTyped DEF Next

\* The window's state, the sessions and the calls keep the shapes that the
\* source gives them.
THEOREM TypeCorrect == Spec => []TypeOK
BY InitTyped, NextTyped, PTL DEF Spec

-----------------------------------------------------------------------------
(* Part 2.  Tokens have their rows.                                        *)

\* The token a login was answered with and that is not stored yet.
Answered(d) == IF login[d].at = "answered" THEN login[d].token ELSE NoToken

\* Where a token is that still counts.
Holders == Devices \cup {"window's login", "other's login", "logout"}

Held(h) ==
    CASE h = "window's login" -> Answered("window")
      [] h = "other's login" -> Answered("other")
      [] h = "logout" -> logout
      [] OTHER -> stored[h]

HeldApart ==
    \A h \in Holders : Held(h) # NoToken =>
        /\ session[Held(h)] # "none"
        /\ \A g \in Holders \ {h} : Held(g) # Held(h)

LEMMA HeldIs ==
    /\ Held("window") = stored["window"] /\ Held("other") = stored["other"]
    /\ Held("window's login") = Answered("window") /\ Held("other's login") = Answered("other")
    /\ Held("logout") = logout
    /\ Holders = {"window", "other", "window's login", "other's login", "logout"}
BY DEF Held, Holders, Devices

LEMMA HeldIsNext ==
    /\ Held("window")' = stored'["window"] /\ Held("other")' = stored'["other"]
    /\ Held("window's login")' = Answered("window")' /\ Held("other's login")' = Answered("other")'
    /\ Held("logout")' = logout'
BY DEF Held, Answered

LEMMA HeldTyped ==
    ASSUME TypeOK, NEW h \in Holders
    PROVE  Held(h) \in Token \cup {NoToken}
<1>1. \A d \in Devices : Answered(d) \in Token \cup {NoToken}
    BY DEF TypeOK, Answered
<1> QED
    BY <1>1, HeldIs DEF TypeOK, Devices

\* Tokens are dropped, kept or handed on, and no row of one that is still held
\* is deleted.
LEMMA HandedOn ==
    ASSUME HeldApart, NEW from \in [Holders -> Holders],
           \A g, h \in Holders : from[g] = from[h] => g = h,
           \A h \in Holders :
               \/ Held(h)' = NoToken
               \/ /\ Held(h)' = Held(from[h])
                  /\ session[Held(from[h])] # "none" => session'[Held(from[h])] # "none"
    PROVE  HeldApart'
BY DEF HeldApart

\* Nobody gets a token from another.
LEMMA KeptApart ==
    ASSUME HeldApart,
           \A h \in Holders :
               \/ Held(h)' = NoToken
               \/ /\ Held(h)' = Held(h)
                  /\ session[Held(h)] # "none" => session'[Held(h)] # "none"
    PROVE  HeldApart'
<1> DEFINE from == [h \in Holders |-> h]
<1>1. /\ from \in [Holders -> Holders]
      /\ \A h \in Holders : from[h] = h
    OBVIOUS
<1> HIDE DEF from
<1> QED
    BY <1>1, HandedOn

LEMMA InsertApart ==
    ASSUME TypeOK, HeldApart, NEW d \in Devices, InsertsSession(d)
    PROVE  HeldApart'
<1>0. PICK t : t = login[d].token
    OBVIOUS
<1>1. /\ session[t] = "none" /\ session' = [session EXCEPT ![t] = "live"]
      /\ login[d].at = "signed" /\ login' = [login EXCEPT ![d].at = "answered"]
      /\ UNCHANGED <<stored, logout>>
    BY <1>0 DEF InsertsSession, Unused
<1>2. d \in {"window", "other"}
    BY DEF Devices
<1>3. login \in [Devices -> LoginType]
    BY DEF TypeOK, LoginType
<1>4. login'[d].at = "answered" /\ login'[d].token = t
    BY <1>0, <1>1, <1>3 DEF LoginType
<1>5. \A e \in Devices \ {d} : login'[e] = login[e]
    BY <1>1, <1>3
<1>6. PICK mine \in Holders : /\ Held(mine)' = t
                             /\ \A h \in Holders \ {mine} : Held(h)' = Held(h)
    <2>1. CASE d = "window"
        <3>1. Answered("window")' = t /\ Answered("other")' = Answered("other")
            BY <1>4, <1>5, <2>1 DEF Answered, Devices
        <3>2. /\ Held("window's login")' = t
              /\ \A h \in Holders \ {"window's login"} : Held(h)' = Held(h)
            BY <1>1, <3>1, HeldIs, HeldIsNext
        <3> QED
            BY <3>2, HeldIs
    <2>2. CASE d = "other"
        <3>1. Answered("other")' = t /\ Answered("window")' = Answered("window")
            BY <1>4, <1>5, <2>2 DEF Answered, Devices
        <3>2. /\ Held("other's login")' = t
              /\ \A h \in Holders \ {"other's login"} : Held(h)' = Held(h)
            BY <1>1, <3>1, HeldIs, HeldIsNext
        <3> QED
            BY <3>2, HeldIs
    <2> QED
        BY <1>2, <2>1, <2>2
<1>7. t # NoToken => session'[t] = "live"
    BY <1>0, <1>1, <1>3 DEF TypeOK, LoginType
<1>8. \A u \in Token : session[u] # "none" => u # t /\ session'[u] # "none"
    BY <1>1 DEF TypeOK
<1> QED
    BY <1>6, <1>7, <1>8, HeldTyped DEF HeldApart

LEMMA LogoutApart ==
    ASSUME TypeOK, HeldApart, DeletesSession
    PROVE  HeldApart'
<1>1. /\ logout # NoToken /\ logout' = NoToken /\ UNCHANGED <<stored, login>>
      /\ session' = [session EXCEPT ![logout] = "none"] \/ session' = session
    BY DEF DeletesSession
<1>2. \A u \in Token : u # logout /\ session[u] # "none" => session'[u] # "none"
    BY <1>1 DEF TypeOK
<1>3. \A h \in Holders \ {"logout"} : Held(h)' = Held(h) /\ Held(h) # logout
    BY <1>1, HeldIs, HeldIsNext DEF HeldApart, Answered
<1> QED
    BY <1>1, <1>2, <1>3, HeldTyped, HeldIsNext, KeptApart

\* Two holders exchange their tokens, one of which may be none.
LEMMA ExchangedApart ==
    ASSUME HeldApart, NEW x \in Holders, NEW y \in Holders, session' = session,
           Held(x)' = Held(y), Held(y)' = NoToken,
           \A h \in Holders \ {x, y} : Held(h)' = Held(h)
    PROVE  HeldApart'
<1> DEFINE from == [h \in Holders |-> IF h = x THEN y ELSE IF h = y THEN x ELSE h]
<1>1. /\ from \in [Holders -> Holders]
      /\ \A g, h \in Holders : from[g] = from[h] => g = h
      /\ from[x] = y
      /\ \A h \in Holders \ {x, y} : from[h] = h
    OBVIOUS
<1> HIDE DEF from
<1> QED
    BY <1>1, HandedOn

LEMMA SigningApart ==
    ASSUME TypeOK, HeldApart,
           OtherSignedIn \/ OtherSignsOut \/ WindowSignedIn \/ Recognised \/ NotRecognised
    PROVE  HeldApart'
<1>1. session' = session
    BY DEF OtherSignedIn, OtherSignsOut, WindowSignedIn, Recognised, NotRecognised, server
<1>2. /\ login \in [Devices -> LoginType] /\ stored \in [Devices -> Token \cup {NoToken}]
      /\ {"window", "other"} = Devices
    BY DEF TypeOK, LoginType, Devices
<1>3. CASE OtherSignedIn
    <2>1. /\ stored'["other"] = Answered("other") /\ stored'["window"] = stored["window"]
          /\ Answered("other")' = NoToken /\ Answered("window")' = Answered("window")
          /\ logout' = logout
        BY <1>2, <1>3 DEF OtherSignedIn, Answered, NoLogin
    <2> QED
        BY <1>1, <2>1, HeldIs, HeldIsNext, ExchangedApart
<1>4. CASE WindowSignedIn
    <2>1. /\ stored'["window"] = Answered("window") /\ stored'["other"] = stored["other"]
          /\ Answered("window")' = NoToken /\ Answered("other")' = Answered("other")
          /\ logout' = logout
        BY <1>2, <1>4 DEF WindowSignedIn, Answered, NoLogin
    <2> QED
        BY <1>1, <2>1, HeldIs, HeldIsNext, ExchangedApart
<1>5. CASE OtherSignsOut
    <2>1. /\ logout' = stored["other"] /\ stored'["other"] = NoToken
          /\ stored'["window"] = stored["window"] /\ login' = login
        BY <1>2, <1>5 DEF OtherSignsOut
    <2> QED
        BY <1>1, <2>1, HeldIs, HeldIsNext, ExchangedApart DEF Answered
<1>6. CASE Recognised \/ NotRecognised
    <2>1. /\ stored'["window"] \in {stored["window"], NoToken} /\ stored'["other"] = stored["other"]
          /\ login' = login /\ logout' = logout
        BY <1>2, <1>6 DEF Recognised, NotRecognised
    <2> QED
        BY <1>1, <2>1, HeldIs, HeldIsNext, KeptApart DEF Answered
<1> QED
    BY <1>3, <1>4, <1>5, <1>6

LEMMA LoadsApart ==
    ASSUME TypeOK, HeldApart, Reopen \/ SignsOut
    PROVE  HeldApart'
<1>1. PICK t \in {stored["window"], NoToken} : LoadsPage(t)
    BY DEF Reopen, SignsOut
<1>2. /\ login \in [Devices -> LoginType] /\ stored \in [Devices -> Token \cup {NoToken}]
      /\ {"window", "other"} = Devices
    BY DEF TypeOK, LoginType, Devices
<1>3. /\ stored'["window"] = t /\ stored'["other"] = stored["other"] /\ logout' = logout
      /\ Answered("window")' = NoToken /\ Answered("other")' = Answered("other")
    <2>1. /\ stored' = [stored EXCEPT !["window"] = t] /\ logout' = logout
          /\ login' = [login EXCEPT !["window"] = NoLogin]
        BY <1>1 DEF LoadsPage
    <2> QED
        BY <1>2, <2>1 DEF Answered, NoLogin
<1>4. \A u \in Token : session[u] # "none" => session'[u] # "none"
    BY <1>1 DEF LoadsPage, server
<1> QED
    BY <1>3, <1>4, HeldIs, HeldIsNext, HeldTyped, KeptApart

LEMMA QuietApart ==
    ASSUME TypeOK, HeldApart, UNCHANGED <<stored, logout>>,
           \A d \in Devices : Answered(d)' = Answered(d),
           \A u \in Token : session[u] # "none" => session'[u] # "none"
    PROVE  HeldApart'
<1>1. \A h \in Holders : Held(h)' = Held(h)
    BY HeldIs, HeldIsNext DEF Devices
<1> QED
    BY <1>1, HeldTyped, KeptApart

LEMMA NextApart == TypeOK /\ HeldApart /\ [Next]_vars => HeldApart'
<1> SUFFICES ASSUME TypeOK, HeldApart, [Next]_vars PROVE HeldApart'
    OBVIOUS
<1>1. CASE \/ UNCHANGED vars \/ Tick \/ SwitchAccount \/ AnswersMe \/ SignsUnawaited
           \/ \E t \in unawaited : UnawaitedFails(t)
           \/ \E s \in Searches : Select(s)
           \/ \E k \in {"list", "change", "create"}, s \in Searches \cup {NoSearch} : Ask(k, s)
           \/ \E i \in DOMAIN calls :
                 Listed(i) \/ Changed(i) \/ Created(i) \/ Loaded(i) \/ CallFails(i)
    <2>1. UNCHANGED <<stored, logout, login, session>>
        BY <1>1 DEF vars, server, signingIn, Tick, SwitchAccount, AnswersMe,
           SignsUnawaited, UnawaitedFails, Select, Ask, Listed, Changed, Created, Loaded,
           CallFails, TokenAfterError
    <2> QED
        BY <2>1, QuietApart DEF Answered
<1>2. ASSUME NEW t \in Token, Expires(t)
      PROVE  HeldApart'
    <2>1. UNCHANGED <<stored, logout, login>> /\ session' = [session EXCEPT ![t] = "expired"]
        BY <1>2 DEF Expires, signingIn
    <2>2. \A u \in Token : session[u] # "none" => session'[u] # "none"
        BY <2>1 DEF TypeOK
    <2> QED
        BY <2>1, <2>2, QuietApart DEF Answered
<1>3. ASSUME NEW d \in Devices, Submit(d) \/ SignsToken(d) \/ LoginFails(d)
      PROVE  HeldApart'
    <2>1. login \in [Devices -> LoginType]
        BY DEF TypeOK, LoginType
    <2>2. /\ UNCHANGED <<stored, logout, session>>
          /\ login[d].at # "answered" /\ login'[d].at # "answered"
          /\ \A e \in Devices \ {d} : login'[e] = login[e]
        BY <1>3, <2>1 DEF Submit, SignsToken, LoginFails, NoLogin, LoginType, server
    <2> QED
        BY <2>2, QuietApart DEF Answered
<1>4. ASSUME NEW t \in Token, InsertsUnawaited(t)
      PROVE  HeldApart'
    <2>1. UNCHANGED <<stored, logout, login>> /\ session' = [session EXCEPT ![t] = "live"]
        BY <1>4 DEF InsertsUnawaited
    <2>2. \A u \in Token : session[u] # "none" => session'[u] # "none"
        BY <2>1 DEF TypeOK
    <2> QED
        BY <2>1, <2>2, QuietApart DEF Answered
<1> QED
    BY <1>1, <1>2, <1>3, <1>4, InsertApart, LogoutApart, SigningApart, LoadsApart DEF Next

\* Whatever logins and sign-outs of the account's devices overlap within a
\* second, the token a device keeps has its row until it expires.
THEOREM OwnSession == Spec => []SessionsApart
<1>1. Init => HeldApart
    <2> SUFFICES ASSUME Init PROVE HeldApart
        OBVIOUS
    <2>1. \A h \in Holders \ {"window"} : Held(h) = NoToken
        BY HeldIs DEF Init, Answered, NoLogin, Devices
    <2>2. stored["window"] # NoToken => session[stored["window"]] # "none"
        BY DEF Init, Devices
    <2> QED
        BY <2>1, <2>2, HeldIs DEF HeldApart
<1>2. HeldApart => SessionsApart
    BY HeldIs DEF HeldApart, SessionsApart, Devices
<1> QED
    BY <1>1, <1>2, InitTyped, NextTyped, NextApart, PTL DEF Spec

-----------------------------------------------------------------------------
(* Part 3.  A window that shows its screens has a token.                   *)

\* A signed or answered login has its token, GET /me is only asked with one,
\* and a window that shows its screens, no race being on, does not await the
\* answer of GET /me.
TokenKnown ==
    /\ \A d \in Devices : login[d].at \in {"signed", "answered"} => login[d].token # NoToken
    /\ me.at # "none" => stored["window"] # NoToken
    /\ signedIn /\ ~raced => me.at = "none" /\ stored["window"] # NoToken

LEMMA InitKnown == Init => TokenKnown
BY DEF Init, TokenKnown, NoLogin, Devices

\* The login of a device changes; nothing else that the window goes by does.
LEMMA LoginKnown ==
    ASSUME TypeOK, TokenKnown,
           \E d \in Devices : Submit(d) \/ SignsToken(d) \/ InsertsSession(d) \/ LoginFails(d)
    PROVE  TokenKnown'
<1>1. PICK d \in Devices : Submit(d) \/ SignsToken(d) \/ InsertsSession(d) \/ LoginFails(d)
    OBVIOUS
<1>2. login \in [Devices -> LoginType] /\ clock # NoToken
    BY DEF TypeOK, LoginType, Token, NoToken
<1>3. UNCHANGED <<stored, me, signedIn, raced>>
    BY <1>1 DEF Submit, SignsToken, InsertsSession, LoginFails
<1>4. /\ login'[d].at \in {"signed", "answered"} => login'[d].token # NoToken
      /\ \A e \in Devices \ {d} : login'[e] = login[e]
    BY <1>1, <1>2 DEF Submit, SignsToken, SignedNow, InsertsSession, LoginFails, NoLogin,
       LoginType, TokenKnown
<1> QED
    BY <1>3, <1>4 DEF TokenKnown

LEMMA SigningKnown ==
    ASSUME TypeOK, TokenKnown,
           \/ OtherSignedIn \/ OtherSignsOut
           \/ WindowSignedIn \/ Recognised \/ NotRecognised \/ Reopen \/ SignsOut
    PROVE  TokenKnown'
<1>1. /\ login \in [Devices -> LoginType] /\ stored \in [Devices -> Token \cup {NoToken}]
      /\ {"window", "other"} = Devices /\ me \in MeType
    BY DEF TypeOK, LoginType, MeType, Devices
<1>2. \A d \in Devices : login'[d] = login[d] \/ login'[d] = NoLogin
    BY <1>1 DEF OtherSignedIn, OtherSignsOut, WindowSignedIn, Recognised, NotRecognised, Reopen,
       SignsOut, LoadsPage
<1>3. \A d \in Devices : login'[d].at \in {"signed", "answered"} => login'[d].token # NoToken
    BY <1>2 DEF TokenKnown, NoLogin
<1>4. CASE OtherSignedIn \/ OtherSignsOut
    <2>1. UNCHANGED <<me, signedIn, raced>> /\ stored'["window"] = stored["window"]
        BY <1>1, <1>4 DEF OtherSignedIn, OtherSignsOut
    <2> QED
        BY <1>3, <2>1 DEF TokenKnown
<1>5. CASE WindowSignedIn
    <2>1. /\ me' = me /\ stored'["window"] = login["window"].token
          /\ login["window"].at = "answered"
        BY <1>1, <1>5 DEF WindowSignedIn
    <2>2. ~raced' => me.at = "none"
        BY <1>5 DEF WindowSignedIn
    <2> QED
        BY <1>1, <1>3, <2>1, <2>2 DEF TokenKnown
<1>6. CASE Recognised
    <2>1. stored' = stored /\ me'.at = "none" /\ stored["window"] # NoToken
        BY <1>6 DEF Recognised, TokenKnown
    <2> QED
        BY <1>3, <2>1 DEF TokenKnown
<1>7. CASE NotRecognised
    <2>1. me'.at = "none" /\ signedIn' = signedIn /\ raced' = raced /\ me.at # "none"
        BY <1>7 DEF NotRecognised
    <2> QED
        BY <1>3, <2>1 DEF TokenKnown
<1>8. CASE Reopen \/ SignsOut
    <2>1. PICK t \in Token \cup {NoToken} : LoadsPage(t)
        BY <1>1, <1>8 DEF Reopen, SignsOut
    <2>2. stored'["window"] = t /\ (me'.at # "none" => t # NoToken) /\ ~signedIn'
        BY <1>1, <2>1 DEF LoadsPage
    <2> QED
        BY <1>3, <2>2 DEF TokenKnown
<1> QED
    BY <1>4, <1>5, <1>6, <1>7, <1>8

LEMMA NextKnown == TypeOK /\ TokenKnown /\ [Next]_vars => TokenKnown'
<1> SUFFICES ASSUME TypeOK, TokenKnown, [Next]_vars PROVE TokenKnown'
    OBVIOUS
<1>1. CASE \/ UNCHANGED vars \/ Tick \/ SwitchAccount \/ DeletesSession
           \/ \E t \in Token : Expires(t)
           \/ SignsUnawaited \/ \E t \in Token : InsertsUnawaited(t)
           \/ \E t \in unawaited : UnawaitedFails(t)
           \/ \E s \in Searches : Select(s)
           \/ \E k \in {"list", "change", "create"}, s \in Searches \cup {NoSearch} : Ask(k, s)
           \/ \E i \in DOMAIN calls :
                 Listed(i) \/ Changed(i) \/ Created(i) \/ Loaded(i) \/ CallFails(i)
    <2>1. UNCHANGED <<stored, login, me, signedIn, raced>>
        BY <1>1 DEF vars, signingIn, Tick, SwitchAccount, DeletesSession, Expires, SignsUnawaited,
           InsertsUnawaited, UnawaitedFails, Select, Ask, Listed, Changed, Created, Loaded,
           CallFails, TokenAfterError
    <2> QED
        BY <2>1 DEF TokenKnown
<1>2. CASE AnswersMe
    <2>1. me.at = "sent" /\ UNCHANGED <<stored, login, signedIn, raced>>
        BY <1>2 DEF AnswersMe
    <2> QED
        BY <2>1 DEF TokenKnown
<1> QED
    BY <1>1, <1>2, LoginKnown, SigningKnown DEF Next

\* Whatever fails, expires or is overtaken, a window that shows its screens has
\* a token to ask with: except after a Login that was answered before GET /me
\* about the token before, until GET /me finds the account.
THEOREM TokenAtHand == Spec => []SignedInHasToken
<1>1. TokenKnown => SignedInHasToken
    BY DEF TokenKnown, SignedInHasToken
<1> QED
    BY <1>1, InitTyped, NextTyped, InitKnown, NextKnown, PTL DEF Spec

-----------------------------------------------------------------------------
(* Part 4.  The screens come to show the selected search.                  *)

Loads(q) == {i \in DOMAIN q : q[i].kind = "detail"}

\* The last load in q, or without one what is shown, is of search s.
EndsWith(q, s, now) ==
    /\ Loads(q) = {} => now = s
    /\ \A i \in Loads(q) : (\A j \in Loads(q) : j <= i) => q[i].about = s

LoadsEndWithSelected == ~disturbed /\ selected # NoSearch => EndsWith(calls, selected, shown)

LEMMA AppendEnds ==
    ASSUME NEW q \in Seq(CallType), NEW c \in CallType, NEW s, NEW now,
           IF c.kind = "detail" THEN c.about = s ELSE EndsWith(q, s, now)
    PROVE  EndsWith(Append(q, c), s, now)
<1> DEFINE r == Append(q, c)
           n == Len(q) + 1
<1>1. /\ n \in Nat /\ n >= 1 /\ DOMAIN q = 1..(n - 1) /\ DOMAIN r = 1..n
      /\ r[n] = c /\ \A i \in 1..(n - 1) : r[i] = q[i]
    OBVIOUS
<1> HIDE DEF r, n
<1>2. CASE c.kind = "detail"
    <2>1. n \in Loads(r) /\ \A i \in Loads(r) : i <= n /\ i \in Nat
        BY <1>1, <1>2 DEF Loads
    <2>2. \A i \in Loads(r) : (\A j \in Loads(r) : j <= i) => i = n
        BY <1>1, <2>1
    <2> QED
        BY <1>1, <1>2, <2>1, <2>2 DEF EndsWith, r
<1>3. CASE c.kind # "detail"
    <2>1. Loads(r) = Loads(q) /\ \A i \in Loads(q) : r[i] = q[i]
        BY <1>1, <1>3 DEF Loads
    <2> QED
        BY <1>3, <2>1 DEF EndsWith, r
<1> QED
    BY <1>2, <1>3

\* A load that is asked for only if the selection changes.
LEMMA LoadIfNewEnds ==
    ASSUME NEW q \in Seq(CallType), NEW s \in Searches \cup {NoSearch},
           s = selected => EndsWith(q, s, shown)
    PROVE  EndsWith(LoadsIfNew(s, q), s, shown)
<1>1. CASE s = selected
    BY <1>1 DEF LoadsIfNew
<1>2. CASE s # selected
    <2>1. /\ Call("detail", s) \in CallType /\ Call("detail", s).kind = "detail"
          /\ Call("detail", s).about = s
        BY DEF Call, CallType
    <2> QED
        BY <1>2, <2>1, AppendEnds DEF LoadsIfNew
<1> QED
    BY <1>1, <1>2

\* An answer of another kind leaves the loads in their order.
LEMMA OthersEnd ==
    ASSUME TypeOK, NEW i \in DOMAIN calls, calls[i].kind # "detail", NEW s, NEW now,
           EndsWith(calls, s, now)
    PROVE  EndsWith(Others(i), s, now)
<1> DEFINE n == Len(calls)
           q == Others(i)
           was(j) == IF j < i THEN j ELSE j + 1
<1>1. n \in Nat /\ DOMAIN calls = 1..n /\ i \in 1..n
    BY DEF TypeOK
<1>2. /\ DOMAIN q = 1..(n - 1)
      /\ \A j \in 1..(n - 1) : q[j] = IF j < i THEN calls[j] ELSE calls[j + 1]
    BY RemoveAtIs DEF Others, TypeOK
<1> HIDE DEF n, q
<1>3. \A j \in Loads(q) : j \in 1..(n - 1) /\ was(j) \in Loads(calls) /\ q[j] = calls[was(j)]
    BY <1>1, <1>2 DEF Loads
<1>4. ASSUME NEW k \in Loads(calls)
      PROVE  \E j \in Loads(q) : was(j) = k
    <2>1. k \in 1..n /\ k # i /\ calls[k].kind = "detail"
        BY <1>1 DEF Loads
    <2>2. CASE k < i
        BY <1>1, <1>2, <2>1, <2>2 DEF Loads
    <2>3. CASE k > i
        <3>1. k - 1 \in 1..(n - 1) /\ was(k - 1) = k
            BY <1>1, <2>1, <2>3
        <3> QED
            BY <1>2, <2>1, <3>1 DEF Loads
    <2> QED
        BY <1>1, <2>1, <2>2, <2>3
<1>5. CASE Loads(q) = {}
    BY <1>4, <1>5 DEF EndsWith, q
<1>6. ASSUME NEW j \in Loads(q), \A k \in Loads(q) : k <= j
      PROVE  q[j].about = s
    <2>1. \A k \in Loads(calls) : k <= was(j)
        BY <1>1, <1>3, <1>4, <1>6
    <2> QED
        BY <1>3, <2>1 DEF EndsWith
<1> QED
    BY <1>5, <1>6 DEF EndsWith, q

LEMMA CallEnds ==
    ASSUME TypeOK, LoadsEndWithSelected, NEW i \in DOMAIN calls,
           Listed(i) \/ Changed(i) \/ Created(i) \/ Loaded(i) \/ CallFails(i)
    PROVE  LoadsEndWithSelected'
<1>1. /\ Others(i) \in Seq(CallType) /\ calls[i] \in CallType
      /\ calls[i].about \in Searches \cup {NoSearch}
    BY OthersTyped DEF CallType
<1>2. ASSUME ~disturbed, selected # NoSearch, calls[i].kind # "detail"
      PROVE  EndsWith(Others(i), selected, shown)
    BY <1>2, OthersEnd DEF LoadsEndWithSelected
<1>3. CASE Listed(i)
    <2>1. calls[i].kind # "detail" /\ shown' = shown /\ disturbed' = disturbed
        BY <1>3 DEF Listed
    <2>2. CASE selected' = selected /\ calls' = Others(i)
        BY <1>2, <2>1, <2>2 DEF LoadsEndWithSelected, EndsWith, Loads
    <2>3. CASE /\ selected' = calls[i].about
               /\ calls' = LoadsIfNew(calls[i].about, Others(i))
        <3>1. ASSUME ~disturbed, calls[i].about # NoSearch
              PROVE  EndsWith(LoadsIfNew(calls[i].about, Others(i)), calls[i].about, shown)
            BY <1>1, <1>2, <2>1, <3>1, LoadIfNewEnds
        <3> QED
            BY <2>1, <2>3, <3>1 DEF LoadsEndWithSelected, EndsWith, Loads
    <2> QED
        BY <1>3, <2>2, <2>3 DEF Listed
<1>4. CASE Changed(i)
    <2>1. /\ calls[i].kind # "detail" /\ UNCHANGED <<selected, shown, disturbed>>
          /\ calls' = Append(Others(i), Call("list", calls[i].about))
        BY <1>4 DEF Changed
    <2>2. Call("list", calls[i].about) \in CallType /\ Call("list", calls[i].about).kind # "detail"
        BY <1>1 DEF Call, CallType
    <2>3. ASSUME ~disturbed, selected # NoSearch
          PROVE  EndsWith(Append(Others(i), Call("list", calls[i].about)), selected, shown)
        BY <1>1, <1>2, <2>1, <2>2, <2>3, AppendEnds
    <2> QED
        BY <2>1, <2>3 DEF LoadsEndWithSelected, EndsWith, Loads
<1>5. CASE Created(i)
    <2>1. /\ calls[i].kind # "detail" /\ UNCHANGED <<shown, disturbed>>
          /\ selected' = calls[i].about /\ calls' = LoadsIfNew(calls[i].about, Others(i))
        BY <1>5 DEF Created
    <2>2. ASSUME ~disturbed, calls[i].about # NoSearch
          PROVE  EndsWith(LoadsIfNew(calls[i].about, Others(i)), calls[i].about, shown)
        BY <1>1, <1>2, <2>1, <2>2, LoadIfNewEnds
    <2> QED
        BY <2>1, <2>2 DEF LoadsEndWithSelected, EndsWith, Loads
<1>6. CASE Loaded(i)
    <2> DEFINE n == Len(calls)
    <2> SUFFICES ASSUME ~disturbed', selected' # NoSearch
                 PROVE  EndsWith(calls', selected', shown')
        BY DEF LoadsEndWithSelected, EndsWith, Loads
    <2>1. /\ calls[i].kind = "detail" /\ shown' = calls[i].about /\ calls' = Others(i)
          /\ selected' = selected /\ ~disturbed
          /\ \A j \in 1..(i - 1) : calls[j].kind # "detail"
        BY <1>6 DEF Loaded
    <2>2. n \in Nat /\ DOMAIN calls = 1..n /\ i \in 1..n
        BY DEF TypeOK
    <2>3. /\ DOMAIN Others(i) = 1..(n - 1)
          /\ \A j \in 1..(n - 1) : Others(i)[j] = IF j < i THEN calls[j] ELSE calls[j + 1]
        BY RemoveAtIs DEF Others, TypeOK
    <2> HIDE DEF n
    <2>4. EndsWith(calls, selected, shown) /\ i \in Loads(calls)
        BY <2>1 DEF LoadsEndWithSelected, Loads
    <2>5. \A k \in Loads(calls) : k # i => k - 1 \in Loads(Others(i)) /\ k > i
        BY <2>1, <2>2, <2>3 DEF Loads
    <2>6. \A j \in Loads(Others(i)) :
             j \in Nat /\ j >= i /\ j + 1 \in Loads(calls) /\ Others(i)[j] = calls[j + 1]
        BY <2>1, <2>2, <2>3 DEF Loads
    <2>7. CASE Loads(Others(i)) = {}
        <3>1. \A k \in Loads(calls) : k = i
            BY <2>5, <2>7
        <3>2. calls[i].about = selected
            BY <2>2, <2>4, <3>1 DEF EndsWith
        <3> QED
            BY <2>1, <2>7, <3>2 DEF EndsWith
    <2>8. ASSUME NEW j \in Loads(Others(i)), \A k \in Loads(Others(i)) : k <= j
          PROVE  Others(i)[j].about = selected
        <3>1. \A k \in Loads(calls) : k <= j + 1
            BY <2>2, <2>5, <2>6, <2>8 DEF Loads
        <3> QED
            BY <2>4, <2>6, <3>1 DEF EndsWith
    <2> QED
        BY <2>1, <2>7, <2>8 DEF EndsWith
<1>7. CASE CallFails(i)
    <2>1. /\ ~disturbed' => ~disturbed /\ calls[i].kind # "detail"
          /\ calls' = Others(i) /\ UNCHANGED <<selected, shown>>
        BY <1>7 DEF CallFails
    <2> QED
        BY <1>2, <2>1 DEF LoadsEndWithSelected, EndsWith, Loads
<1> QED
    BY <1>3, <1>4, <1>5, <1>6, <1>7

LEMMA AskEnds ==
    ASSUME TypeOK, LoadsEndWithSelected,
           \/ \E s \in Searches : Select(s)
           \/ \E k \in {"list", "change", "create"}, s \in Searches \cup {NoSearch} : Ask(k, s)
           \/ WindowSignedIn \/ Recognised
    PROVE  LoadsEndWithSelected'
<1>1. calls \in Seq(CallType)
    BY DEF TypeOK, CallType
<1>2. ASSUME NEW s \in Searches, Select(s) PROVE LoadsEndWithSelected'
    <2>1. /\ selected' = s /\ calls' = LoadsIfNew(s, calls) /\ UNCHANGED <<shown, disturbed>>
          /\ s # NoSearch
        BY <1>2, NoSearchAssumption DEF Select
    <2>2. ~disturbed => EndsWith(LoadsIfNew(s, calls), s, shown)
        BY <1>1, <2>1, LoadIfNewEnds DEF LoadsEndWithSelected
    <2> QED
        BY <2>1, <2>2 DEF LoadsEndWithSelected, EndsWith, Loads
<1>3. ASSUME NEW k \in {"list", "change", "create"}, NEW s \in Searches \cup {NoSearch},
             calls' = Append(calls, Call(k, s)), UNCHANGED <<selected, shown>>,
             disturbed => disturbed'
      PROVE  LoadsEndWithSelected'
    <2>1. Call(k, s) \in CallType /\ Call(k, s).kind # "detail"
        BY DEF Call, CallType
    <2>2. ~disturbed /\ selected # NoSearch => EndsWith(Append(calls, Call(k, s)), selected, shown)
        BY <1>1, <2>1, AppendEnds DEF LoadsEndWithSelected
    <2> QED
        BY <1>3, <2>2 DEF LoadsEndWithSelected, EndsWith, Loads
<1>4. CASE WindowSignedIn \/ Recognised
    <2>1. calls' = Append(calls, Call("list", selected)) /\ UNCHANGED <<selected, shown, disturbed>>
        BY <1>4 DEF WindowSignedIn, Recognised, SetUser
    <2> QED
        BY <1>3, <2>1 DEF TypeOK
<1> QED
    BY <1>2, <1>3, <1>4 DEF Ask

LEMMA NextEnds == TypeOK /\ LoadsEndWithSelected /\ [Next]_vars => LoadsEndWithSelected'
<1> SUFFICES ASSUME TypeOK, LoadsEndWithSelected, [Next]_vars PROVE LoadsEndWithSelected'
    OBVIOUS
<1>1. CASE UNCHANGED screen
    BY <1>1 DEF screen, LoadsEndWithSelected, EndsWith, Loads
<1>2. CASE \/ UNCHANGED vars \/ Tick \/ SwitchAccount \/ AnswersMe \/ DeletesSession
           \/ \E t \in Token : Expires(t)
           \/ \E d \in Devices : Submit(d) \/ SignsToken(d) \/ InsertsSession(d) \/ LoginFails(d)
           \/ SignsUnawaited \/ \E t \in Token : InsertsUnawaited(t)
           \/ \E t \in unawaited : UnawaitedFails(t)
           \/ OtherSignedIn \/ OtherSignsOut \/ NotRecognised
    BY <1>1, <1>2 DEF vars, Tick, SwitchAccount, AnswersMe, DeletesSession, Expires, Submit,
       SignsToken, InsertsSession, LoginFails, SignsUnawaited, InsertsUnawaited, UnawaitedFails,
       OtherSignedIn, OtherSignsOut, NotRecognised
<1>3. CASE Reopen \/ SignsOut
    BY <1>3 DEF Reopen, SignsOut, LoadsPage, LoadsEndWithSelected
<1> QED
    BY <1>2, <1>3, AskEnds, CallEnds DEF Next

\* Once nothing is under way, the screens show the search whose title they
\* carry, if no load failed or overtook another.
THEOREM ShowsSelection == Spec => []ShowsTheSelected
<1>1. LoadsEndWithSelected => ShowsTheSelected
    BY DEF LoadsEndWithSelected, ShowsTheSelected, EndsWith, Loads
<1>2. Init => LoadsEndWithSelected
    BY DEF Init, LoadsEndWithSelected
<1> QED
    BY <1>1, <1>2, InitTyped, NextTyped, NextEnds, PTL DEF Spec

=============================================================================
