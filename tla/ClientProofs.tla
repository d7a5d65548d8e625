---------------------------- MODULE ClientProofs ----------------------------
(***************************************************************************)
(* What tpapi.Client promises for every device, every number of logins and  *)
(* requests and every way a reply can be lost or spoilt: how a call is      *)
(* signed, how its reply is judged, and the contract the polling loop is    *)
(* written against.                                                         *)
(***************************************************************************)
EXTENDS Client, TLAPS, SequenceTheorems

-----------------------------------------------------------------------------
(* The inductive invariant, in parts.                                       *)

LoginPcs == {"config", "keys", "auth", "login", "confirm"}
\* The two requests that ask for a session.
Asking   == pc \in {"login", "confirm"}
Hashes   == {NoHash} \cup {CredHash(b) : b \in BOOLEAN} \cup {DataHash(n) : n \in 1..sent}
Grants   == [login : Nat, seq : Nat, sealed : BOOLEAN, hash : {CredHash(b) : b \in BOOLEAN}]
Fields   == {"body", "status", "Success", "code", "payload"}

Types ==
    /\ logins \in Nat /\ sent \in Nat /\ authSeq \in 0..logins
    /\ granted \in Seq(Grants) /\ DOMAIN reply = Fields
    /\ force \in BOOLEAN /\ device \in Devices

\* The features are those of the device, but for one that did not say, which
\* is taken for one that encrypts nothing.
KnownDevice == features \in {FeaturesFor({}), FeaturesFor(device)}

\* What a good reply brings: a number the router has handed out, or the stok of
\* the login it has just granted, to the keys of the request.
GoodReply ==
    reply.Success =>
        /\ reply.code = "unspecified"
        /\ pc = "auth" /\ reply.payload # Absent => reply.payload \in 0..logins
        /\ Asking /\ reply.payload # Absent =>
             /\ reply.payload = Len(granted) /\ granted # <<>>
             /\ granted[Len(granted)].sealed = request.sealed
             /\ request.sealed => /\ request.seq = granted[Len(granted)].seq
                                  /\ request.hash = granted[Len(granted)].hash
                                  /\ features = FeaturesFor(device)

\* A login goes out with the keys the client has just put in its fields.
LoginSent ==
    Asking => /\ request.sealed = features.Encrypt
              /\ request.sealed => request.seq = seq /\ request.hash = hash

\* The client's fields are those of the login that gave the stok.
Keyed ==
    /\ stok \in 1..Len(granted)
    /\ granted[stok].sealed = features.Encrypt
    /\ features.Encrypt =>
         /\ granted[stok].seq = seq /\ features = FeaturesFor(device)
         /\ ~features.ReplaceHash => hash = granted[stok].hash

\* A caller that holds a session makes no login, and its client is keyed for it.
Held == loggedIn => pc \notin LoginPcs /\ Keyed

\* A request of the session goes out with the client's keys, a call for a caller
\* who holds one.
SessionSent ==
    /\ pc \in {"call", "logout"} => stok # NoStok
    /\ pc = "call" => /\ loggedIn
                      /\ request.stok = stok /\ request.sealed = features.Encrypt
                      /\ request.sealed =>
                           /\ request.seq = seq
                           /\ request.hash = ReplacedHash(request.data)

Forced == pc = "confirm" => force

IInv == TypeOK /\ Types /\ KnownDevice /\ GoodReply /\ LoginSent /\ Held /\ SessionSent /\ Forced

USE DEF clientVars, callerVars, routerVars, setup, NoStok, Absent

-----------------------------------------------------------------------------
(* Replies and features.                                                    *)

LEMMA FeaturesAre ==
  /\ \A certs : /\ FeaturesFor(certs).Encrypt \in BOOLEAN
                /\ FeaturesFor(certs).SHA256Hash \in BOOLEAN
                /\ FeaturesFor(certs).ReplaceHash \in BOOLEAN
  /\ FeaturesFor({}).Encrypt = FALSE
<1>1. \A certs : /\ FeaturesFor(certs).Encrypt \in BOOLEAN
                /\ FeaturesFor(certs).SHA256Hash \in BOOLEAN
                /\ FeaturesFor(certs).ReplaceHash \in BOOLEAN
  BY DEF FeaturesFor
<1>2. {} \cap {"SGL1S2", "CERED"} = {}
  OBVIOUS
<1>3. FeaturesFor({}).Encrypt = FALSE
  BY <1>2 DEF FeaturesFor
<1> QED BY <1>1, <1>3

LEMMA NothingSaid ==
  /\ DOMAIN NoReply = Fields /\ ~NoReply.Success
  /\ \A r \in Noise \cup Refusals : DOMAIN r = Fields /\ ~r.Success
<1>1. DOMAIN NoReply = Fields /\ ~NoReply.Success
  BY DEF NoReply, Fields
<1>2. \A body, status : DOMAIN Garbled(body, status) = Fields /\ ~Garbled(body, status).Success
  BY <1>1 DEF Garbled, Fields
<1>3. \A body, status, code :
        DOMAIN Refusal(body, status, code) = Fields /\ ~Refusal(body, status, code).Success
  BY <1>2 DEF Refusal, Fields
<1>4. DOMAIN Lost = Fields /\ ~Lost.Success
  BY <1>1 DEF Lost, Fields
<1> QED BY <1>1, <1>2, <1>3, <1>4 DEF Noise, Refusals

\* A good reply whose status the way has changed says what it said.
LEMMA SpoiltReply ==
  \A r, s : DOMAIN r = Fields =>
    /\ DOMAIN [r EXCEPT !.status = s] = Fields
    /\ [r EXCEPT !.status = s].Success = r.Success
    /\ [r EXCEPT !.status = s].code = r.code
    /\ [r EXCEPT !.status = s].payload = r.payload
BY DEF Fields

-----------------------------------------------------------------------------
(* Who changes what.                                                        *)

LEMMA RouterKeeps == Router => UNCHANGED <<pc, err, clientVars, callerVars, setup, request>>
BY DEF Router, RouterAnswersInTheClear, RouterGrants, RouterReportsConflict, RouterServes,
       RouterDisowns, NothingDone, ReplySpoilt, SomebodyElse

LEMMA ClientKeeps ==
  Login \/ Session =>
    /\ UNCHANGED <<routerVars, setup>>
    /\ \/ reply' = NoReply
       \/ UNCHANGED reply /\ pc = "idle" /\ pc' = "idle"
BY DEF Login, StartLogin, FeaturesRead, KeyRead, AuthRead, LoginConflicts, Conflict, LoginSucceeds,
       LoginFails, Ask, LoginReturns, Session, StartCall, CallReturns, StartLogout, LogoutReturns,
       CallerLosesSession, SendSession

LEMMA ClientCounts ==
  ASSUME Types, Login \/ Session
  PROVE  /\ logins' \in Nat /\ logins' >= logins
         /\ sent' \in Nat /\ sent' >= sent
<1>1. logins \in Nat /\ sent \in Nat
  BY DEF Types
<1>2. logins' \in {logins, logins + 1} /\ sent' \in {sent, sent + 1}
  BY DEF Login, StartLogin, FeaturesRead, KeyRead, AuthRead, LoginConflicts, LoginSucceeds,
         LoginFails, Session, StartCall, CallReturns, StartLogout, LogoutReturns,
         CallerLosesSession, SendSession
<1> QED BY <1>1, <1>2

-----------------------------------------------------------------------------
(* The router's steps.                                                      *)

LEMMA EncryptsIsKnown ==
  ASSUME KnownDevice
  PROVE  /\ features.Encrypt \in BOOLEAN /\ encrypts \in BOOLEAN
         /\ features.Encrypt => features = FeaturesFor(device)
BY FeaturesAre DEF KnownDevice, encrypts

\* What the router's step does to its own fields and to the reply.
LEMMA RouterTypes ==
  ASSUME Types, KnownDevice, GoodReply, LoginSent, Router
  PROVE  /\ Types' /\ GoodReply'
         /\ Len(granted') >= Len(granted)
         /\ ~Asking => granted' = granted
<1>0. UNCHANGED <<pc, err, clientVars, callerVars, setup, request>>
  BY RouterKeeps
<1>k. /\ logins' = logins /\ sent' = sent /\ device' = device /\ force' = force
      /\ features' = features /\ Asking' = Asking /\ pc' = pc /\ request' = request
  BY <1>0 DEF Asking
<1>t. /\ logins \in Nat /\ sent \in Nat /\ authSeq \in 0..logins
      /\ granted \in Seq(Grants) /\ DOMAIN reply = Fields
      /\ Len(granted) \in Nat
  BY DEF Types
<1>1. CASE RouterAnswersInTheClear
  <2>1. pc \in {"config", "keys", "auth"} /\ ~Asking
    BY <1>1 DEF RouterAnswersInTheClear, Waiting, Asking
  <2>2. authSeq' \in 0..logins /\ (pc # "auth" => authSeq' = authSeq) /\ granted' = granted
    BY <1>1, <1>t DEF RouterAnswersInTheClear
  <2>3. PICK payload \in {Absent, IF pc = "auth" THEN authSeq' ELSE 0} :
          reply' = Reply(FALSE, TRUE, "unspecified", payload)
    BY <1>1 DEF RouterAnswersInTheClear
  <2>5. DOMAIN reply' = Fields /\ reply'.code = "unspecified" /\ reply'.payload = payload
    BY <2>3 DEF Reply, Fields
  <2>6. Types'
    BY <1>k, <1>t, <2>2, <2>5 DEF Types
  <2>7. GoodReply'
    BY <1>k, <2>1, <2>2, <2>3, <2>5 DEF GoodReply
  <2> QED BY <1>t, <2>2, <2>6, <2>7
<1>2. CASE RouterGrants
  <2> DEFINE grant == [login |-> logins, seq |-> authSeq, sealed |-> encrypts,
                       hash |-> CredHash(FeaturesFor(device).SHA256Hash)]
  <2>1. Asking /\ LoginVerified /\ granted' = Append(granted, grant) /\ authSeq' = authSeq
    BY <1>2 DEF RouterGrants, Waiting, Asking
  <2>2. grant \in Grants
    <3>1. FeaturesFor(device).SHA256Hash \in BOOLEAN
      BY FeaturesAre
    <3>2. CredHash(FeaturesFor(device).SHA256Hash) \in {CredHash(b) : b \in BOOLEAN}
      BY <3>1
    <3> QED BY <1>t, <3>2, EncryptsIsKnown DEF Grants
  <2>3. /\ grant.seq = authSeq /\ grant.hash = CredHash(FeaturesFor(device).SHA256Hash)
        /\ grant.sealed = encrypts
    OBVIOUS
  <2> HIDE DEF grant
  <2>4. /\ granted' \in Seq(Grants) /\ Len(granted') = Len(granted) + 1
        /\ granted'[Len(granted')] = grant
    BY <1>t, <2>1, <2>2, AppendProperties
  <2>5. PICK payload \in {Absent, Len(granted) + 1} :
          reply' = Reply(encrypts, TRUE, "unspecified", payload)
    BY <1>2 DEF RouterGrants
  <2>7. DOMAIN reply' = Fields /\ reply'.code = "unspecified" /\ reply'.payload = payload
    BY <2>5 DEF Reply, Fields
  <2>8. Types'
    BY <1>k, <1>t, <2>1, <2>4, <2>7 DEF Types
  <2>9. granted' # <<>>
    BY <1>t, <2>4
  <2>10. /\ request.sealed = encrypts
         /\ encrypts => request.hash = grant.hash /\ request.seq = grant.seq
    BY <2>1, <2>3 DEF LoginVerified
  <2>11. request.sealed => features = FeaturesFor(device)
    BY <2>1, EncryptsIsKnown DEF LoginSent
  <2>12. grant.sealed = request.sealed
    BY <2>3, <2>10, Zenon
  <2>13. pc # "auth"
    BY <2>1 DEF Asking
  <2>14. reply'.payload # Absent => reply'.payload = Len(granted')
    BY <2>4, <2>5, <2>7
  <2>15. GoodReply'
    BY <1>k, <2>4, <2>7, <2>9, <2>10, <2>11, <2>12, <2>13, <2>14 DEF GoodReply
  <2> QED BY <1>t, <2>1, <2>4, <2>8, <2>15
<1>3. CASE RouterReportsConflict \/ RouterServes \/ RouterDisowns
  <2>1. /\ authSeq' = authSeq /\ granted' = granted
        /\ reply' = Reply(encrypts, FALSE, "user conflict", Absent)
              \/ (~Asking /\ pc # "auth" /\ reply' = Reply(encrypts, TRUE, "unspecified", 0))
              \/ reply' = Reply(encrypts, FALSE, "timeout", Absent)
    BY <1>3 DEF RouterReportsConflict, RouterServes, RouterDisowns, Waiting, Asking
  <2>3. /\ DOMAIN reply' = Fields
        /\ reply'.Success => ~Asking /\ pc # "auth" /\ reply'.code = "unspecified"
    <3>1. CASE reply' = Reply(encrypts, FALSE, "user conflict", Absent)
      BY <3>1 DEF Reply, Fields
    <3>2. CASE ~Asking /\ pc # "auth" /\ reply' = Reply(encrypts, TRUE, "unspecified", 0)
      BY <3>2 DEF Reply, Fields
    <3>3. CASE reply' = Reply(encrypts, FALSE, "timeout", Absent)
      BY <3>3 DEF Reply, Fields
    <3> QED BY <2>1, <3>1, <3>2, <3>3
  <2>4. Types'
    BY <1>k, <1>t, <2>1, <2>3 DEF Types
  <2>5. GoodReply'
    BY <1>k, <2>3 DEF GoodReply
  <2>6. granted' = granted
    BY <2>1
  <2>7. Len(granted') >= Len(granted)
    BY <1>t, <2>6
  <2> QED BY <2>4, <2>5, <2>6, <2>7, Zenon
<1>4. CASE NothingDone \/ ReplySpoilt \/ SomebodyElse
  <2>1. /\ authSeq' = authSeq /\ granted' = granted
        /\ \/ reply' \in Noise \cup Refusals
           \/ \E s : reply' = [reply EXCEPT !.status = s]
           \/ reply' = reply
    BY <1>4 DEF NothingDone, ReplySpoilt, SomebodyElse
  <2>2. /\ DOMAIN reply' = Fields
        /\ \/ ~reply'.Success
           \/ /\ reply'.Success = reply.Success
              /\ reply'.code = reply.code /\ reply'.payload = reply.payload
    <3>1. CASE reply' \in Noise \cup Refusals BY <3>1, NothingSaid
    <3>2. CASE \E s : reply' = [reply EXCEPT !.status = s] BY <1>t, <3>2, SpoiltReply, Zenon
    <3>3. CASE reply' = reply BY <1>t, <3>3
    <3> QED BY <2>1, <3>1, <3>2, <3>3, Zenon
  <2>3. Types'
    BY <1>k, <1>t, <2>1, <2>2 DEF Types
  <2>4. GoodReply'
    BY <1>k, <2>1, <2>2 DEF GoodReply
  <2> QED BY <1>t, <2>1, <2>3, <2>4
<1> QED BY <1>1, <1>2, <1>3, <1>4 DEF Router

-----------------------------------------------------------------------------
(* Induction.                                                               *)

LEMMA CallErrIs == callErr \in {"nil", "failed", "expired", "unreadable"}
BY DEF callErr, httpErr

LEMMA HashesGrow ==
  ASSUME sent \in Nat, sent' \in Nat, sent' >= sent, hash \in Hashes
  PROVE  hash \in Hashes'
BY DEF Hashes

LEMMA InvInit == Init => IInv
<1> SUFFICES ASSUME Init PROVE IInv
  OBVIOUS
<1>1. /\ pc = "idle" /\ err = "nil" /\ device \in Devices
      /\ features = FeaturesFor({}) /\ mode = 0 /\ seq = 0 /\ hash = NoHash /\ stok = 0
      /\ reply = NoReply /\ logins = 0 /\ sent = 0 /\ authSeq = 0 /\ granted = <<>>
  BY DEF Init
<1>2. loggedIn = FALSE /\ force \in BOOLEAN
  BY Zenon DEF Init
<1>3. loggedIn \in BOOLEAN
  BY <1>2
<1>4. TypeOK
  BY <1>1, <1>3 DEF TypeOK
<1>5. Types
  BY <1>1, <1>2, NothingSaid DEF Types
<1>6. KnownDevice
  BY <1>1 DEF KnownDevice
<1>7. GoodReply
  BY <1>1, NothingSaid DEF GoodReply
<1>8. LoginSent /\ Forced /\ SessionSent
  BY <1>1 DEF LoginSent, Forced, SessionSent, Asking
<1>9. Held
  BY <1>2 DEF Held
<1> QED BY <1>4, <1>5, <1>6, <1>7, <1>8, <1>9 DEF IInv

\* The client's fields and its request are the client's alone.
LEMMA RouterStep == ASSUME IInv, Router PROVE IInv'
<1>0. /\ UNCHANGED <<pc, err, clientVars, callerVars, setup, request>>
      /\ TypeOK /\ Types /\ KnownDevice /\ GoodReply /\ LoginSent /\ Held /\ SessionSent /\ Forced
  BY RouterKeeps DEF IInv
<1>1. /\ Types' /\ GoodReply' /\ Len(granted') >= Len(granted)
      /\ ~Asking => granted' = granted
  BY <1>0, RouterTypes
<1>2. TypeOK'
  <2>1. stok' \in 0..Len(granted')
    BY <1>0, <1>1 DEF TypeOK, Types
  <2> QED BY <1>0, <2>1 DEF TypeOK
<1>3. KnownDevice'
  BY <1>0 DEF KnownDevice
<1>4. LoginSent' /\ Forced'
  BY <1>0 DEF LoginSent, Forced, Asking
<1>5. Held'
  <2>1. CASE ~loggedIn
    BY <1>0, <2>1 DEF Held
  <2>2. CASE loggedIn
    <3>1. granted' = granted
      BY <1>0, <1>1, <2>2 DEF Held, LoginPcs, Asking
    <3> QED BY <1>0, <3>1 DEF Held, Keyed
  <2> QED BY <2>1, <2>2
<1>6. SessionSent'
  BY <1>0 DEF SessionSent, ReplacedHash
<1> QED BY <1>1, <1>2, <1>3, <1>4, <1>5, <1>6 DEF IInv

\* The steps of the client that change none of its fields but features and mode.
LEMMA ClientTypes ==
  ASSUME IInv, Login \/ Session
  PROVE  Types' /\ GoodReply' /\ KnownDevice' /\ Forced'
<1>0. Types /\ GoodReply /\ KnownDevice /\ Forced /\ DOMAIN reply = Fields
  BY DEF IInv, Types
<1>1. /\ UNCHANGED <<routerVars, setup>>
      /\ reply' = NoReply \/ (UNCHANGED reply /\ pc = "idle" /\ pc' = "idle")
      /\ logins' \in Nat /\ logins' >= logins /\ sent' \in Nat /\ sent' >= sent
  BY <1>0, ClientKeeps, ClientCounts
<1>2. Types'
  <2>1. DOMAIN reply' = Fields
    BY <1>0, <1>1, NothingSaid
  <2> QED BY <1>0, <1>1, <2>1 DEF Types
<1>3. GoodReply'
  <2>1. CASE reply' = NoReply
    BY <2>1, NothingSaid DEF GoodReply
  <2>2. CASE UNCHANGED reply /\ pc = "idle" /\ pc' = "idle"
    BY <1>0, <2>2 DEF GoodReply, Asking
  <2> QED BY <1>1, <2>1, <2>2
<1>4. KnownDevice'
  <2>1. CASE FeaturesRead
    BY <1>1, <2>1 DEF FeaturesRead, KnownDevice
  <2>2. CASE ~FeaturesRead
    <3>1. features' = features
      BY <2>2 DEF Login, StartLogin, KeyRead, AuthRead, LoginConflicts, LoginSucceeds,
           LoginFails, Session, StartCall, CallReturns, StartLogout, LogoutReturns,
           CallerLosesSession
    <3> QED BY <1>0, <1>1, <3>1 DEF KnownDevice
  <2> QED BY <2>1, <2>2
<1>5. Forced'
  <2>1. CASE LoginConflicts
    <3>1. (force /\ pc' = "confirm") \/ pc' = "idle"
      BY <2>1, Zenon DEF LoginConflicts, Conflict, LoginReturns
    <3>2. force' = force
      BY <1>1
    <3> QED BY <3>1, <3>2 DEF Forced
  <2>2. CASE ~LoginConflicts
    <3>1. pc' # "confirm"
      BY <2>2 DEF Login, StartLogin, FeaturesRead, KeyRead, AuthRead, LoginSucceeds,
           LoginFails, Session, StartCall, CallReturns, StartLogout, LogoutReturns,
           CallerLosesSession, Ask, LoginReturns, SendSession
    <3> QED BY <3>1 DEF Forced
  <2> QED BY <2>1, <2>2
<1> QED BY <1>2, <1>3, <1>4, <1>5

\* What each request goes out with.
LEMMA ClientSends ==
  ASSUME IInv, Login \/ Session
  PROVE  LoginSent' /\ SessionSent'
<1>0. /\ LoginSent /\ SessionSent /\ Held /\ Types
      /\ features.Encrypt \in BOOLEAN
  BY EncryptsIsKnown DEF IInv
<1>1. CASE StartLogin \/ FeaturesRead \/ KeyRead
  <2>1. pc' \in {"idle", "config", "keys", "auth"}
    BY <1>1 DEF StartLogin, FeaturesRead, KeyRead, Ask, LoginReturns
  <2> QED BY <2>1 DEF LoginSent, SessionSent, Asking
<1>2. CASE AuthRead
  <2>1. /\ pc' = "login" /\ request' = LoginRequest /\ seq' = reply.payload
        /\ hash' = CredHash(features.SHA256Hash) /\ features' = features
    BY <1>2 DEF AuthRead
  <2>2. CASE features.Encrypt
    <3>1. /\ request'.sealed /\ request'.seq = reply.payload
          /\ request'.hash = CredHash(features.SHA256Hash)
      BY <2>1, <2>2 DEF LoginRequest
    <3> QED BY <2>1, <2>2, <3>1 DEF LoginSent, SessionSent, Asking
  <2>3. CASE ~features.Encrypt
    <3>1. ~request'.sealed
      BY <2>1, <2>3 DEF LoginRequest, Plain
    <3>2. request'.sealed = FALSE
      BY <2>1, <2>3 DEF LoginRequest, Plain
    <3>3. request'.sealed = features.Encrypt
      BY <1>0, <2>3, <3>2
    <3> QED BY <2>1, <3>1, <3>3 DEF LoginSent, SessionSent, Asking
  <2> QED BY <1>0, <2>2, <2>3
<1>3. CASE LoginConflicts
  <2>1. /\ pc = "login" /\ UNCHANGED clientVars
        /\ (pc' = "confirm" /\ UNCHANGED request) \/ pc' = "idle"
    BY <1>3 DEF LoginConflicts, Conflict, LoginReturns
  <2> QED BY <1>0, <2>1 DEF LoginSent, SessionSent, Asking
<1>4. CASE LoginSucceeds \/ LoginFails \/ CallReturns \/ LogoutReturns \/ CallerLosesSession
  <2>1. pc' = "idle"
    BY <1>4 DEF LoginSucceeds, LoginFails, LoginReturns, CallReturns, LogoutReturns,
                CallerLosesSession
  <2> QED BY <2>1 DEF LoginSent, SessionSent, Asking
<1>5. CASE StartCall \/ StartLogout
  <2>1. CASE stok = NoStok
    <3>1. pc' = "idle"
      BY <1>5, <2>1 DEF StartCall, StartLogout
    <3> QED BY <3>1 DEF LoginSent, SessionSent, Asking
  <2>2. CASE stok # NoStok
    <3>1. /\ pc' \in {"call", "logout"} /\ (pc' = "call" => loggedIn)
          /\ SendSession(pc') /\ UNCHANGED <<features, mode, seq, stok, loggedIn>>
      BY <1>5, <2>2 DEF StartCall, StartLogout, SendSession
    <3>2. request'.stok = stok /\ request'.sealed = features.Encrypt
      <4>1. CASE features.Encrypt
        <5>1. request'.stok = stok /\ request'.sealed = TRUE
          BY <3>1, <4>1 DEF SendSession
        <5> QED BY <1>0, <4>1, <5>1
      <4>2. CASE ~features.Encrypt
        <5>1. request'.stok = stok /\ request'.sealed = FALSE
          BY <3>1, <4>2 DEF SendSession, Plain
        <5> QED BY <1>0, <4>2, <5>1
      <4> QED BY <4>1, <4>2
    <3>3. ASSUME features.Encrypt
          PROVE  request'.seq = seq' /\ request'.hash = ReplacedHash(request.data)'
      <4>1. /\ request'.seq = seq /\ request'.data = sent + 1
            /\ request'.hash = ReplacedHash(sent + 1) /\ hash' = ReplacedHash(sent + 1)
        BY <3>1, <3>3 DEF SendSession, SignedWith
      <4> QED BY <3>1, <4>1 DEF ReplacedHash
    <3> QED BY <1>0, <2>2, <3>1, <3>2, <3>3 DEF LoginSent, SessionSent, Asking
  <2> QED BY <2>1, <2>2
<1> QED BY <1>1, <1>2, <1>3, <1>4, <1>5 DEF Login, Session

\* A login that returned nil leaves the client with the keys it was granted for.
LEMMA LoginKeys ==
  ASSUME IInv, LoginSucceeds
  PROVE  Keyed' /\ pc' = "idle"
<1>0. /\ Types /\ GoodReply /\ LoginSent /\ KnownDevice
      /\ granted \in Seq(Grants) /\ Len(granted) \in Nat
  BY DEF IInv, Types
<1>1. /\ Asking /\ reply.Success /\ reply.payload # Absent /\ stok' = reply.payload
      /\ pc' = "idle" /\ UNCHANGED <<features, seq, hash, device, granted>>
  BY DEF LoginSucceeds, LoginReturns, Asking, Success
<1>2. /\ stok' = Len(granted) /\ granted # <<>>
      /\ granted[stok'].sealed = request.sealed
      /\ request.sealed => /\ request.seq = granted[stok'].seq
                           /\ request.hash = granted[stok'].hash
                           /\ features = FeaturesFor(device)
  BY <1>0, <1>1 DEF GoodReply
<1>3. /\ request.sealed = features.Encrypt
      /\ request.sealed => request.seq = seq /\ request.hash = hash
  BY <1>0, <1>1 DEF LoginSent
<1>4. stok' \in 1..Len(granted)
  <2>1. Len(granted) # 0
    BY <1>0, <1>2, EmptySeq
  <2> QED BY <1>0, <1>2, <2>1
<1>5. granted[stok'].sealed = features.Encrypt
  BY <1>2, <1>3, Zenon
<1>6. features.Encrypt => /\ granted[stok'].seq = seq /\ features = FeaturesFor(device)
                         /\ hash = granted[stok'].hash
  BY <1>2, <1>3, Zenon
<1> QED BY <1>1, <1>4, <1>5, <1>6, Zenon DEF Keyed

LEMMA ClientHolds ==
  ASSUME IInv, Login \/ Session
  PROVE  Held'
<1>0. Held /\ SessionSent
  BY DEF IInv
<1>1. CASE StartLogin \/ LogoutReturns \/ CallerLosesSession
  <2>1. ~loggedIn'
    BY <1>1 DEF StartLogin, LogoutReturns, CallerLosesSession
  <2> QED BY <2>1 DEF Held
<1>2. CASE FeaturesRead \/ KeyRead \/ AuthRead \/ LoginConflicts \/ LoginFails
  <2>1. pc \in LoginPcs
    BY <1>2 DEF FeaturesRead, KeyRead, AuthRead, LoginConflicts, LoginFails, LoginPcs
  <2>2. ~loggedIn
    BY <1>0, <2>1 DEF Held
  <2>3. UNCHANGED loggedIn \/ \E e : e # "nil" /\ LoginReturns(e)
    BY <1>2 DEF FeaturesRead, KeyRead, AuthRead, LoginConflicts, Conflict, LoginFails
  <2>4. ~loggedIn'
    BY <2>2, <2>3 DEF LoginReturns
  <2> QED BY <2>4 DEF Held
<1>3. CASE LoginSucceeds
  BY <1>3, LoginKeys DEF Held, LoginPcs
<1>4. CASE StartCall \/ StartLogout \/ CallReturns
  <2>1. /\ pc' \notin LoginPcs /\ UNCHANGED <<loggedIn, features, seq, stok, granted, device>>
        /\ hash' = hash \/ \E n : hash' = ReplacedHash(n)
    BY <1>4 DEF StartCall, StartLogout, CallReturns, SendSession, LoginPcs
  <2>2. ~features.ReplaceHash => hash' = hash
    BY <2>1 DEF ReplacedHash
  <2> QED BY <1>0, <2>1, <2>2 DEF Held, Keyed
<1> QED BY <1>1, <1>2, <1>3, <1>4 DEF Login, Session

\* A login that failed may have overwritten any of them but the stok.
LEMMA ClientTypeOK ==
  ASSUME IInv, Login \/ Session
  PROVE  TypeOK'
<1>0. /\ TypeOK /\ Types /\ GoodReply /\ KnownDevice
      /\ logins \in Nat /\ sent \in Nat /\ Len(granted) \in Nat
  BY DEF IInv, Types
<1>1. /\ UNCHANGED <<granted, device>> /\ KnownDevice'
      /\ device \in Devices
      /\ logins' \in Nat /\ logins' >= logins /\ sent' \in Nat /\ sent' >= sent
  BY <1>0, ClientKeeps, ClientCounts, ClientTypes DEF Types
<1>2. pc' \in {"idle", "config", "keys", "auth", "login", "confirm", "call", "logout"}
  BY <1>0 DEF TypeOK, Login, StartLogin, FeaturesRead, KeyRead, AuthRead, LoginConflicts, Conflict,
     LoginSucceeds, LoginFails, Ask, LoginReturns, Session, StartCall, CallReturns, StartLogout,
     LogoutReturns, CallerLosesSession, SendSession
<1>3. loggedIn' \in BOOLEAN
  <2>1. UNCHANGED loggedIn \/ (\E e : LoginReturns(e)) \/ loggedIn' = FALSE
    BY DEF Login, StartLogin, FeaturesRead, KeyRead, AuthRead, LoginConflicts, Conflict,
       LoginSucceeds, LoginFails, Session, StartCall, CallReturns, StartLogout, LogoutReturns,
       CallerLosesSession
  <2> QED BY <1>0, <2>1 DEF TypeOK, LoginReturns
<1>4. features' \in {FeaturesFor(certs) : certs \in Devices \cup {{}}}
  BY <1>1 DEF KnownDevice
<1>5. mode' \in 0..logins'
  <2>1. mode' = mode \/ mode' \in {0, logins}
    BY DEF Login, StartLogin, FeaturesRead, KeyRead, AuthRead, LoginConflicts, LoginSucceeds,
       LoginFails, Session, StartCall, CallReturns, StartLogout, LogoutReturns, CallerLosesSession
  <2>2. mode \in 0..logins
    BY <1>0 DEF TypeOK
  <2> QED BY <1>0, <1>1, <2>1, <2>2
<1>6. seq' \in 0..logins'
  <2>1. CASE AuthRead
    BY <1>0, <1>1, <2>1 DEF AuthRead, Success, GoodReply
  <2>2. CASE ~AuthRead
    <3>1. seq' = seq
      BY <2>2 DEF Login, StartLogin, FeaturesRead, KeyRead, LoginConflicts, LoginSucceeds,
         LoginFails, Session, StartCall, CallReturns, StartLogout, LogoutReturns,
         CallerLosesSession
    <3>2. seq \in 0..logins
      BY <1>0 DEF TypeOK
    <3> QED BY <1>0, <1>1, <3>1, <3>2
  <2> QED BY <2>1, <2>2
<1>7. stok' \in 0..Len(granted')
  <2>1. CASE LoginSucceeds
    BY <1>0, <1>1, <2>1, LoginKeys DEF Keyed
  <2>2. CASE ~LoginSucceeds
    <3>1. stok' \in {stok, 0}
      BY <2>2 DEF Login, StartLogin, FeaturesRead, KeyRead, AuthRead, LoginConflicts,
         LoginFails, Session, StartCall, CallReturns, StartLogout, LogoutReturns,
         CallerLosesSession, StokAfterLogout
    <3>2. stok \in 0..Len(granted)
      BY <1>0 DEF TypeOK
    <3> QED BY <1>0, <1>1, <3>1, <3>2
  <2> QED BY <2>1, <2>2
<1>8. hash' \in Hashes'
  <2>0. hash \in Hashes'
    BY <1>0, <1>1, HashesGrow DEF TypeOK, Hashes
  <2>1. CASE AuthRead
    <3>1. features.SHA256Hash \in BOOLEAN
      BY <1>0, FeaturesAre DEF KnownDevice
    <3>2. hash' = CredHash(features.SHA256Hash)
      BY <2>1 DEF AuthRead
    <3> QED BY <3>1, <3>2 DEF Hashes
  <2>2. CASE ~AuthRead
    <3>1. hash' = hash \/ (sent' = sent + 1 /\ hash' = ReplacedHash(sent + 1))
      BY <2>2 DEF Login, StartLogin, FeaturesRead, KeyRead, LoginConflicts, LoginSucceeds,
         LoginFails, Session, StartCall, CallReturns, StartLogout, LogoutReturns,
         CallerLosesSession, SendSession
    <3>2. CASE sent' = sent + 1 /\ hash' = DataHash(sent + 1)
      <4>1. sent' \in 1..sent'
        BY <1>0, <3>2
      <4> QED BY <3>2, <4>1 DEF Hashes
    <3> QED BY <2>0, <3>1, <3>2 DEF ReplacedHash
  <2> QED BY <2>1, <2>2
<1>9. err' \in {"nil", "failed", "busy", "expired", "unreadable"}
  BY <1>0, CallErrIs DEF TypeOK, Login, StartLogin, FeaturesRead, KeyRead, AuthRead, LoginConflicts,
     Conflict, LoginSucceeds, LoginFails, Ask, LoginReturns, Session, StartCall, CallReturns,
     StartLogout, LogoutReturns, CallerLosesSession, SendSession
<1> QED BY <1>2, <1>3, <1>4, <1>5, <1>6, <1>7, <1>8, <1>9 DEF TypeOK, Hashes

LEMMA InvStep == IInv /\ [Next]_vars => IInv'
<1> SUFFICES ASSUME IInv, [Next]_vars PROVE IInv'
  OBVIOUS
<1>1. CASE Login \/ Session
  BY <1>1, ClientTypes, ClientSends, ClientHolds, ClientTypeOK DEF IInv
<1>2. CASE Router
  BY <1>2, RouterStep
<1>3. CASE UNCHANGED vars
  <2>1. /\ UNCHANGED <<pc, err, clientVars, callerVars, routerVars, setup, request, reply>>
    BY <1>3 DEF vars
  <2> QED BY <2>1 DEF IInv, TypeOK, Types, KnownDevice, GoodReply, LoginSent, Asking, Held, Keyed,
             SessionSent, ReplacedHash, Forced
<1> QED BY <1>1, <1>2, <1>3 DEF Next

LEMMA Invariance == Spec => []IInv
BY InvInit, InvStep, PTL DEF Spec

-----------------------------------------------------------------------------
(* What the client promises.                                                *)

\* Client's fields have their types, whatever replies came: its stok is one the
\* router granted.
THEOREM ClientTypeCorrect == Spec => []TypeOK
<1>1. IInv => TypeOK
  BY DEF IInv
<1> QED BY <1>1, Invariance, PTL

LEMMA CallsVerify == IInv => SignedForItsSession
<1> SUFFICES ASSUME IInv, pc = "call" PROVE Verifies(granted[request.stok])
  BY DEF SignedForItsSession
<1>1. SessionSent /\ Held /\ KnownDevice
  BY DEF IInv
<1>2. /\ request.stok = stok /\ stok # NoStok /\ request.sealed = features.Encrypt
      /\ request.sealed => request.seq = seq /\ request.hash = ReplacedHash(request.data)
      /\ Keyed
  BY <1>1 DEF SessionSent, Held
<1>3. request.sealed = granted[stok].sealed
  BY <1>2, Zenon DEF Keyed
<1>4. ASSUME granted[stok].sealed
      PROVE  /\ request.seq = granted[stok].seq
             /\ request.hash = IF FeaturesFor(device).ReplaceHash THEN DataHash(request.data)
                               ELSE granted[stok].hash
  <2>1. features.Encrypt /\ request.sealed
    BY <1>2, <1>3, <1>4, Zenon
  <2>2. /\ granted[stok].seq = seq /\ features = FeaturesFor(device)
        /\ ~features.ReplaceHash => hash = granted[stok].hash
    BY <1>2, <2>1 DEF Keyed
  <2> QED BY <1>2, <2>1, <2>2 DEF ReplacedHash
<1> QED BY <1>2, <1>3, <1>4 DEF Verifies

\* Login, call: a call is signed with the keys of the login that gave its stok,
\* for every device and however many logins failed in between.
THEOREM SignedForItsSessionHolds == Spec => []SignedForItsSession
BY CallsVerify, Invariance, PTL

\* Login: a browser on another device loses the session only to a login sent again
\* under Force, never to the first one and never with Force off.  Of one on this
\* machine nothing is said: the router gives its session to any login.
NoRemoteEvictionWithoutForce ==
    [][session = "remote" /\ session' = "client" => force /\ pc = "confirm"]_vars

LEMMA EvictionStep ==
  IInv /\ [Next]_vars => [session = "remote" /\ session' = "client" => force /\ pc = "confirm"]_vars
<1> SUFFICES ASSUME IInv, Next, session = "remote", session' = "client"
             PROVE  force /\ pc = "confirm"
  OBVIOUS
<1>1. CASE Login \/ Session
  BY <1>1, ClientKeeps
<1>2. CASE Router
  <2>1. RouterGrants
    BY <1>2 DEF Router, RouterAnswersInTheClear, RouterReportsConflict, RouterServes, RouterDisowns,
       NothingDone, ReplySpoilt, SomebodyElse
  <2>2. pc = "confirm"
    BY <2>1 DEF RouterGrants
  <2> QED BY <2>2 DEF IInv, Forced
<1> QED BY <1>1, <1>2 DEF Next

\* Login: a browser on another device loses the session only to the login sent again
\* under Force.
THEOREM NoRemoteEvictionHolds == Spec => NoRemoteEvictionWithoutForce
BY EvictionStep, Invariance, PTL DEF Spec, NoRemoteEvictionWithoutForce

-----------------------------------------------------------------------------
(* What a Login takes.                                                      *)

\* Every session was granted to a login made; the one under way has been granted none
\* until a reply to one of its two requests says so or is lost, and then the last.
Taken ==
    /\ \A i \in DOMAIN granted : granted[i].login <= logins
    /\ pc \in {"config", "keys", "auth"} => OfThisLogin = {}
    /\ Asking => /\ OfThisLogin \subseteq {Len(granted)}
                 /\ ~Arrived \/ reply.code = "user conflict" => OfThisLogin = {}
                 /\ reply.Success => OfThisLogin = {Len(granted)}

LEMMA TakenInit == Init => Taken
BY EmptySeq DEF Init, Taken, Asking, OfThisLogin

\* What noise makes of a reply is a reply, and no conflict.
LEMMA NoiseIsNoConflict ==
  \A r \in Noise \cup Refusals : r # NoReply /\ r.code # "user conflict"
<1>1. NoReply.body = "none" /\ NoReply.code = "unspecified"
  BY DEF NoReply
<1>2. Lost.body = "lost" /\ Lost.code = "unspecified"
  BY DEF Lost, NoReply
<1>3. \A body, status : /\ Garbled(body, status).body = body
                        /\ Garbled(body, status).code = "unspecified"
  BY DEF Garbled, NoReply
<1>4. \A body, status, code : /\ Refusal(body, status, code).body = body
                              /\ Refusal(body, status, code).code = code
  BY DEF Refusal, Garbled, NoReply
<1>5. ASSUME NEW r \in Noise PROVE r.body # "none" /\ r.code = "unspecified"
  <2>1. CASE r = Lost
    BY <1>2, <2>1
  <2>2. CASE \E body \in {"notJSON", "wrongKey", "sealedNotJSON"}, status \in Statuses :
               r = Garbled(body, status)
    BY <1>3, <2>2
  <2> QED BY <2>1, <2>2 DEF Noise
<1>6. ASSUME NEW r \in Refusals PROVE r.body # "none" /\ r.code # "user conflict"
  <2>1. PICK body \in {"clear", "sealed"}, status \in Statuses,
             code \in {"unspecified", "timeout", "other"} : r = Refusal(body, status, code)
    BY DEF Refusals
  <2> QED BY <1>4, <2>1
<1> QED BY <1>1, <1>5, <1>6

LEMMA TakenRouter ==
  ASSUME IInv, Taken, Router
  PROVE  Taken'
<1>0. /\ pc' = pc /\ logins' = logins /\ Asking' = Asking
      /\ DOMAIN reply = Fields /\ granted \in Seq(Grants) /\ logins \in Nat
  BY RouterKeeps DEF IInv, Types, Asking
<1>1. CASE RouterGrants
  <2> DEFINE grant == [login |-> logins, seq |-> authSeq, sealed |-> encrypts,
                       hash |-> CredHash(FeaturesFor(device).SHA256Hash)]
  <2>1. Asking /\ ~Arrived /\ granted' = Append(granted, grant) /\ OfThisLogin = {}
    BY <1>1 DEF RouterGrants, Waiting, Asking, Taken
  <2>2. grant.login = logins
    OBVIOUS
  <2> HIDE DEF grant
  <2>3. /\ Len(granted) \in Nat /\ DOMAIN granted = 1..Len(granted)
        /\ Len(granted') = Len(granted) + 1 /\ DOMAIN granted' = 1..(Len(granted) + 1)
        /\ \A i \in 1..Len(granted) : granted'[i] = granted[i]
        /\ granted'[Len(granted) + 1] = grant
    <3>1. Len(granted) \in Nat /\ DOMAIN granted = 1..Len(granted)
      BY <1>0, LenProperties
    <3> QED BY <2>1, <3>1
  <2>4. OfThisLogin' = {Len(granted')}
    BY <1>0, <2>1, <2>2, <2>3 DEF OfThisLogin
  <2>5. reply' # NoReply /\ reply'.code = "unspecified"
    BY <1>1 DEF RouterGrants, Reply, NoReply
  <2>6. \A i \in DOMAIN granted' : granted'[i].login <= logins'
    <3>1. \A i \in 1..Len(granted) : granted'[i].login <= logins
      BY <2>3 DEF Taken
    <3>2. granted'[Len(granted) + 1].login <= logins
      BY <1>0, <2>2, <2>3
    <3>3. \A i \in DOMAIN granted' : i \in 1..Len(granted) \/ i = Len(granted) + 1
      BY <2>3
    <3> QED BY <1>0, <3>1, <3>2, <3>3
  <2> QED BY <1>0, <2>1, <2>4, <2>5, <2>6 DEF Taken, Arrived, Asking
<1>2. CASE ~RouterGrants
  <2>1. granted' = granted /\ OfThisLogin' = OfThisLogin
    BY <1>0, <1>2 DEF Router, RouterAnswersInTheClear, RouterReportsConflict, RouterServes,
       RouterDisowns, NothingDone, ReplySpoilt, SomebodyElse, OfThisLogin
  <2>2. ASSUME Asking
        PROVE  /\ reply' = NoReply \/ reply'.code = "user conflict" => OfThisLogin = {}
               /\ reply'.Success => OfThisLogin = {Len(granted)}
    <3>1. CASE RouterReportsConflict
      BY <2>2, <3>1 DEF RouterReportsConflict, Waiting, Taken, Reply
    <3>2. CASE NothingDone
      BY <2>2, <3>2, NothingSaid, NoiseIsNoConflict DEF NothingDone, Taken
    <3>3. CASE ReplySpoilt
      <4>1. OfThisLogin = {Len(granted)} /\ reply.code # "user conflict" /\ reply # NoReply
        BY <2>2, <3>3 DEF ReplySpoilt, Taken, Arrived
      <4>2. CASE reply' \in Noise
        BY <4>1, <4>2, NothingSaid, NoiseIsNoConflict
      <4>3. CASE \E s \in Statuses : reply' = [reply EXCEPT !.status = s]
        <5>1. reply'.code = reply.code /\ reply'.Success = reply.Success
          BY <1>0, <4>3, SpoiltReply
        <5>2. reply'.Success /\ ~NoReply.Success
          BY <3>3, <5>1, NothingSaid DEF ReplySpoilt
        <5> QED BY <4>1, <5>1, <5>2
      <4> QED BY <3>3, <4>2, <4>3 DEF ReplySpoilt
    <3>4. CASE SomebodyElse
      BY <2>2, <3>4 DEF SomebodyElse, Taken, Arrived
    <3> QED BY <1>2, <2>2, <3>1, <3>2, <3>3, <3>4
        DEF Router, RouterAnswersInTheClear, RouterServes, RouterDisowns, Waiting, Asking
  <2> QED BY <1>0, <2>1, <2>2 DEF Taken, Arrived
<1> QED BY <1>1, <1>2

LEMMA TakenClient ==
  ASSUME IInv, Taken, Login \/ Session
  PROVE  Taken'
<1>0. /\ granted' = granted /\ granted \in Seq(Grants) /\ logins \in Nat
      /\ DOMAIN granted = 1..Len(granted)
      /\ \A i \in DOMAIN granted : granted[i].login \in Nat
  <2>1. granted' = granted /\ granted \in Seq(Grants) /\ logins \in Nat
    BY ClientKeeps DEF IInv, Types
  <2>2. DOMAIN granted = 1..Len(granted) /\ \A i \in DOMAIN granted : granted[i] \in Grants
    BY <2>1, LenProperties, ElementOfSeq
  <2> QED BY <2>1, <2>2 DEF Grants
<1>1. CASE StartLogin
  <2>1. logins' = logins + 1 /\ pc' = "config"
    BY <1>1 DEF StartLogin, Ask
  <2>2. \A i \in DOMAIN granted : granted[i].login <= logins'
                                 /\ granted[i].login # logins'
    <3> TAKE i \in DOMAIN granted
    <3>1. granted[i].login \in Nat /\ granted[i].login <= logins
      BY <1>0 DEF Taken
    <3> QED BY <1>0, <2>1, <3>1
  <2>3. OfThisLogin' = {}
    BY <1>0, <2>2 DEF OfThisLogin
  <2>4. ~Asking'
    BY <2>1 DEF Asking
  <2> QED BY <1>0, <2>2, <2>3, <2>4 DEF Taken
<1>2. CASE ~StartLogin
  <2>1. logins' = logins /\ OfThisLogin' = OfThisLogin
    BY <1>0, <1>2 DEF Login, FeaturesRead, KeyRead, AuthRead, LoginConflicts, LoginSucceeds,
       LoginFails, Session, StartCall, CallReturns, StartLogout, LogoutReturns,
       CallerLosesSession, OfThisLogin
  <2>2. \/ pc' \in {"idle", "call", "logout"}
        \/ pc \in {"config", "keys"} /\ pc' \in {"keys", "auth"}
        \/ AuthRead
        \/ LoginConflicts /\ pc' = "confirm" /\ reply' = NoReply
    BY <1>2 DEF Login, FeaturesRead, KeyRead, LoginConflicts, Conflict, LoginSucceeds,
       LoginFails, Ask, LoginReturns, Session, StartCall, CallReturns, StartLogout,
       LogoutReturns, CallerLosesSession, SendSession
  <2>3. CASE AuthRead
    BY <1>0, <2>1, <2>3, NothingSaid DEF AuthRead, Taken, Asking
  <2>4. CASE LoginConflicts /\ pc' = "confirm" /\ reply' = NoReply
    <3>1. pc = "login" /\ reply.code = "user conflict"
      BY <2>4 DEF LoginConflicts, errCode
    <3>2. OfThisLogin = {}
      BY <3>1 DEF Taken, Asking
    <3> QED BY <1>0, <2>1, <2>4, <3>2, NothingSaid DEF Taken, Asking
  <2>5. CASE pc' \in {"idle", "call", "logout"}
    BY <1>0, <2>1, <2>5 DEF Taken, Asking
  <2>6. CASE pc \in {"config", "keys"} /\ pc' \in {"keys", "auth"}
    BY <1>0, <2>1, <2>6 DEF Taken, Asking
  <2> QED BY <2>2, <2>3, <2>4, <2>5, <2>6
<1> QED BY <1>1, <1>2

LEMMA TakenStep == IInv /\ Taken /\ [Next]_vars => Taken'
<1>1. ASSUME Taken, UNCHANGED vars PROVE Taken'
  BY <1>1 DEF vars, Taken, OfThisLogin, Asking, Arrived
<1> QED BY <1>1, TakenRouter, TakenClient DEF Next

LEMMA TakenAtTheEnd ==
  ASSUME IInv, Taken, Next, pc' = "idle", Asking
  PROVE  /\ OfThisLogin \subseteq {Len(granted)}
         /\ err' = "nil" => OfThisLogin = {stok'}
         /\ err' = "busy" => OfThisLogin = {}
<1>1. OfThisLogin \subseteq {Len(granted)}
  BY DEF Taken
<1>2. LoginConflicts \/ LoginFails \/ LoginSucceeds
  <2>1. ~Router
    BY RouterKeeps DEF Asking
  <2> QED BY <2>1 DEF Next, Login, StartLogin, FeaturesRead, KeyRead, AuthRead, Session, StartCall,
         CallReturns, StartLogout, LogoutReturns, CallerLosesSession, Asking
<1>3. CASE LoginConflicts
  <2>1. err' = "busy" /\ reply.code = "user conflict"
    BY <1>3 DEF LoginConflicts, Conflict, LoginReturns, errCode
  <2> QED BY <1>1, <2>1 DEF Taken
<1>4. CASE LoginFails
  <2>1. err' = IF callErr = "nil" THEN "failed" ELSE callErr
    BY <1>4 DEF LoginFails, LoginReturns
  <2>2. err' \notin {"nil", "busy"}
    BY <2>1, CallErrIs
  <2> QED BY <1>1, <2>2
<1>5. CASE LoginSucceeds
  <2>1. err' = "nil" /\ stok' = reply.payload /\ reply.payload # Absent /\ reply.Success
    BY <1>5 DEF LoginSucceeds, LoginReturns, Success
  <2>2. reply.payload = Len(granted)
    BY <2>1 DEF IInv, GoodReply
  <2> QED BY <1>1, <2>1, <2>2 DEF Taken
<1> QED BY <1>2, <1>3, <1>4, <1>5

\* Login: whatever becomes of its requests and replies, it is granted one session at
\* most, and none when it returns busy; when it returns nil, the one it holds.
THEOREM OneSessionPerLoginHolds == Spec => OneSessionPerLogin
<1>1. Spec => []Taken
  BY TakenInit, TakenStep, Invariance, PTL DEF Spec
<1>2. IInv /\ Taken /\ [Next]_vars =>
        [pc' = "idle" /\ pc \in {"login", "confirm"} =>
           /\ OfThisLogin \subseteq {Len(granted)}
           /\ err' = "nil" => OfThisLogin = {stok'}
           /\ err' = "busy" => OfThisLogin = {}]_vars
  BY TakenAtTheEnd DEF Asking
<1> QED BY <1>1, <1>2, Invariance, PTL DEF Spec, OneSessionPerLogin

-----------------------------------------------------------------------------
(* How a reply is judged.                                                   *)

Judged ==
  /\ err' = "expired" => \/ Readable /\ reply.code = "timeout"
                         \/ reply.status = 403 /\ errCode = "unspecified"
  /\ err' = "unreadable" =>
       /\ request.sealed
       /\ reply.body = "sealedNotJSON" \/ (reply.body = "wrongKey" /\ reply.status = 200)
  /\ err' = "nil" <=> Success /\ reply.status = 200

LEMMA CallReturnsJudged == IInv /\ CallReturns => Judged
<1> SUFFICES ASSUME IInv, CallReturns PROVE Judged
  OBVIOUS
<1>1. Success => Readable /\ reply.code = "unspecified" /\ errCode = "unspecified"
  BY DEF IInv, GoodReply, Success, errCode
<1>2. Success => reply.body \in {"clear", "sealed"}
  BY DEF Success, Readable
<1>3. err' = CASE callErr # "nil" -> callErr
               [] callErr = "nil" /\ Success -> "nil"
               [] OTHER -> IF errCode = "timeout" THEN "expired" ELSE "failed"
  BY DEF CallReturns
<1>4. callErr = "expired" => reply.status = 403 /\ (Success \/ errCode = "unspecified")
  BY DEF callErr, httpErr
<1>5. callErr = "unreadable" =>
        /\ request.sealed
        /\ reply.body = "sealedNotJSON" \/ (reply.body = "wrongKey" /\ reply.status = 200)
  BY DEF callErr, httpErr
<1>6. Success => (callErr = "nil" <=> reply.status = 200)
  BY <1>1, <1>2 DEF callErr, httpErr
<1>7. errCode = "timeout" => Readable /\ reply.code = "timeout"
  BY DEF errCode
<1> QED BY <1>1, <1>3, <1>4, <1>5, <1>6, <1>7, CallErrIs DEF Judged

LEMMA OnlyCallReturns == Next /\ pc = "call" /\ pc' = "idle" => CallReturns
<1> SUFFICES ASSUME Next, pc = "call", pc' = "idle" PROVE CallReturns
  OBVIOUS
<1>1. ~Router
  BY RouterKeeps
<1> QED BY <1>1 DEF Next, Login, StartLogin, FeaturesRead, KeyRead, AuthRead, LoginConflicts,
       LoginSucceeds, LoginFails, Session, StartCall, StartLogout, LogoutReturns, CallerLosesSession

\* call, httpErr, Call: a session is declared dead on the UI's two signs alone, and a
\* reply good only if an envelope said so under 200.
THEOREM CallClassifiesHolds == Spec => CallClassifies
<1>1. IInv /\ [Next]_vars => [pc = "call" /\ pc' = "idle" =>
         /\ err' = "expired" =>
              \/ Readable /\ reply.code = "timeout"
              \/ reply.status = 403 /\ errCode = "unspecified"
         /\ err' = "unreadable" =>
              /\ request.sealed
              /\ reply.body = "sealedNotJSON" \/ (reply.body = "wrongKey" /\ reply.status = 200)
         /\ err' = "nil" <=> Success /\ reply.status = 200]_vars
  BY CallReturnsJudged, OnlyCallReturns DEF Judged
<1> QED BY <1>1, Invariance, PTL DEF Spec, CallClassifies

-----------------------------------------------------------------------------
(* The contract: each step of the client is a step of WebSession, or none     *)
(* that its caller sees.                                                    *)

LEMMA ContractInit == Init => Contract!Init
BY DEF Init, Contract!Init, Operation

LEMMA OperationOf ==
  /\ pc = "idle" => Operation = "nothing"
  /\ pc = "call" => Operation = "Call"
  /\ pc = "logout" => Operation = "Logout"
  /\ pc \in LoginPcs => Operation = "Login"
BY DEF Operation, LoginPcs

LEMMA OperationNext ==
  /\ pc' = "idle" => Operation' = "nothing"
  /\ pc' = "call" => Operation' = "Call"
  /\ pc' = "logout" => Operation' = "Logout"
  /\ pc' \in LoginPcs => Operation' = "Login"
BY DEF Operation, LoginPcs

LEMMA LoginKeepsTheContract ==
  ASSUME IInv, Login
  PROVE  [Contract!Next]_<<Operation, stok # NoStok, err>>
<1> DEFINE Quiet == UNCHANGED <<Operation, stok # NoStok, err>>
<1>1. CASE StartLogin
  <2>1. pc = "idle" /\ pc' \in LoginPcs /\ UNCHANGED <<stok, err>>
    BY <1>1 DEF StartLogin, Ask, LoginPcs
  <2> QED BY <2>1, OperationOf, OperationNext
      DEF Contract!Next, Contract!Begin, Contract!Operations
<1>2. ASSUME pc \in LoginPcs, pc' \in LoginPcs, UNCHANGED <<stok, err>>
      PROVE  Quiet
  BY <1>2, OperationOf, OperationNext
<1>3. ASSUME NEW e \in {"failed", "busy", "expired", "unreadable"},
             pc \in LoginPcs, UNCHANGED stok, LoginReturns(e)
      PROVE  Contract!Next
  <2>1. pc' = "idle" /\ err' = e
    BY <1>3 DEF LoginReturns
  <2> QED BY <1>3, <2>1, OperationOf, OperationNext
      DEF Contract!Next, Contract!LoginReturns, Contract!Return
<1>4. CASE FeaturesRead \/ AuthRead
  <2>1. pc \in LoginPcs /\ pc' \in LoginPcs /\ UNCHANGED <<stok, err>>
    BY <1>4 DEF FeaturesRead, AuthRead, Ask, LoginPcs
  <2> QED BY <1>2, <2>1
<1>5. CASE KeyRead
  <2>1. pc \in LoginPcs /\ UNCHANGED stok /\ (LoginReturns("failed") \/ (Ask("auth") /\ UNCHANGED err))
    BY <1>5 DEF KeyRead, LoginPcs
  <2>2. CASE LoginReturns("failed")
    BY <1>3, <2>1, <2>2
  <2>3. CASE Ask("auth") /\ UNCHANGED err
    BY <1>2, <2>1, <2>3 DEF Ask, LoginPcs
  <2> QED BY <2>1, <2>2, <2>3
<1>6. CASE LoginConflicts
  <2>1. pc \in LoginPcs /\ UNCHANGED stok /\ (LoginReturns("busy") \/ (pc' = "confirm" /\ UNCHANGED err))
    BY <1>6 DEF LoginConflicts, Conflict, LoginPcs
  <2>2. CASE LoginReturns("busy")
    BY <1>3, <2>1, <2>2
  <2>3. CASE pc' = "confirm" /\ UNCHANGED err
    BY <1>2, <2>1, <2>3 DEF LoginPcs
  <2> QED BY <2>1, <2>2, <2>3
<1>7. CASE LoginFails
  <2> DEFINE e == IF callErr = "nil" THEN "failed" ELSE callErr
  <2>1. pc \in LoginPcs /\ UNCHANGED stok /\ LoginReturns(e)
    BY <1>7 DEF LoginFails, LoginPcs
  <2>2. e \in {"failed", "busy", "expired", "unreadable"}
    BY CallErrIs
  <2> QED BY <1>3, <2>1, <2>2
<1>8. CASE LoginSucceeds
  <2>1. pc \in LoginPcs /\ err' = "nil" /\ pc' = "idle"
    BY <1>8 DEF LoginSucceeds, LoginReturns, LoginPcs
  <2>2. stok' # NoStok
    <3>1. granted' = granted /\ Len(granted) \in Nat
      BY <1>8 DEF LoginSucceeds, IInv, Types
    <3> QED BY <1>8, <3>1, LoginKeys DEF Keyed
  <2> QED BY <2>1, <2>2, OperationOf, OperationNext
      DEF Contract!Next, Contract!LoginReturns, Contract!Return
<1> QED BY <1>1, <1>4, <1>5, <1>6, <1>7, <1>8 DEF Login

LEMMA SessionKeepsTheContract ==
  ASSUME IInv, Session
  PROVE  [Contract!Next]_<<Operation, stok # NoStok, err>>
<1>0. pc \in {"call", "logout"} => stok # NoStok
  BY DEF IInv, SessionSent
<1>1. CASE (StartCall \/ StartLogout) /\ stok = NoStok
  <2>1. pc = "idle" /\ pc' = "idle" /\ UNCHANGED stok /\ err' \in {"nil", "failed"}
    BY <1>1 DEF StartCall, StartLogout
  <2> QED BY <1>1, <2>1, OperationOf, OperationNext
      DEF Contract!Next, Contract!NothingToAsk
<1>2. CASE (StartCall \/ StartLogout) /\ stok # NoStok
  <2>1. pc = "idle" /\ pc' \in {"call", "logout"} /\ UNCHANGED <<stok, err>>
    BY <1>2 DEF StartCall, StartLogout, SendSession
  <2> QED BY <2>1, OperationOf, OperationNext
      DEF Contract!Next, Contract!Begin, Contract!Operations
<1>3. CASE CallReturns
  <2>1. /\ pc = "call" /\ pc' = "idle" /\ UNCHANGED stok
        /\ err' \in {"nil", "failed", "expired", "unreadable"}
    BY <1>3, CallErrIs DEF CallReturns
  <2> QED BY <1>0, <2>1, OperationOf, OperationNext
      DEF Contract!Next, Contract!CallReturns, Contract!Return
<1>4. CASE LogoutReturns
  <2>1. /\ pc = "logout" /\ pc' = "idle" /\ stok' = NoStok
        /\ err' \in {"nil", "failed", "expired", "unreadable"}
    BY <1>4, CallErrIs DEF LogoutReturns, StokAfterLogout
  <2> QED BY <1>0, <2>1, OperationOf, OperationNext
      DEF Contract!Next, Contract!LogoutReturns, Contract!Return
<1>5. CASE CallerLosesSession
  BY <1>5, OperationOf, OperationNext DEF CallerLosesSession
<1> QED BY <1>1, <1>2, <1>3, <1>4, <1>5 DEF Session

LEMMA ContractStep ==
  IInv /\ [Next]_vars => [Contract!Next]_<<Operation, stok # NoStok, err>>
<1> SUFFICES ASSUME IInv, [Next]_vars
             PROVE  [Contract!Next]_<<Operation, stok # NoStok, err>>
  OBVIOUS
<1>1. CASE Router \/ UNCHANGED vars
  <2>1. UNCHANGED <<pc, stok, err>>
    BY <1>1, RouterKeeps DEF vars
  <2> QED BY <2>1 DEF Operation
<1> QED BY <1>1, LoginKeepsTheContract, SessionKeepsTheContract DEF Next

\* Login, Call, Logout: whatever the replies, each returns what the poller counts on
\* and leaves the stok as it counts on.
THEOREM KeepsTheContractHolds == Spec => KeepsTheContract
BY ContractInit, ContractStep, Invariance, PTL DEF Spec, KeepsTheContract, Contract!Spec

=============================================================================
