------------------------------- MODULE Client -------------------------------
(***************************************************************************)
(* tpapi.Client of internal/tpapi/client.go against the router: the four or *)
(* five requests of Login, Call, Logout, how each is signed and how each    *)
(* reply is judged.  Its caller is the polling loop (or recon), which calls *)
(* one operation at a time, and makes a Call only between a Login that      *)
(* returned nil and the next Logout or lost session.                        *)
(*                                                                          *)
(* Hashes, sequence numbers and stoks are names of the thing they come      *)
(* from; a ciphertext is the number of the request that carries it.  The    *)
(* cipher is one per client and never changes, so it is left out, and OAEP, *)
(* which goes with ReplaceHash, with it.                                    *)
(***************************************************************************)
EXTENDS Integers, Sequences, FiniteSets

CONSTANTS
    Devices,        \* the certification lists a device may answer with
    MaxLogins,      \* bound on Login calls
    MaxRequests     \* bound on sealed and unsealed requests other than Login's

ASSUME ClientAssumption ==
    /\ \A certs \in Devices : certs \subseteq {"RG", "SGL1S2", "CERED"}
    /\ MaxLogins \in Nat \ {0} /\ MaxRequests \in Nat \ {0}

VARIABLES
    pc,             \* the request in flight, or "idle"
    loggedIn,       \* the caller's: the last Login succeeded, no loss since
    force,          \* Client.Force
    features, mode, seq, hash, stok,    \* the fields of Client that change
    err,            \* what the last operation returned
    request, reply, \* the request in flight; the last reply
    logins, sent,   \* counters behind MaxLogins and MaxRequests
    \* The router.
    device,         \* its certifications
    authSeq,        \* the sequence number it last handed out
    session,        \* whose its one web session is: "client", that of the last stok
                    \* granted; a browser's, on another device ("remote") or on this
                    \* one ("local"); or nobody's, "free"
    granted         \* what it remembers of each login it granted, by stok

clientVars == <<features, mode, seq, hash, stok>>
callerVars == <<loggedIn, logins, sent>>
routerVars == <<authSeq, session, granted>>
setup      == <<force, device>>
vars == <<pc, err, clientVars, callerVars, routerVars, setup, request, reply>>

NoStok == 0
Absent == -1        \* a payload without the field, or not of its shape

FeaturesFor(certs) ==
    [SHA256Hash  |-> certs # {},
     Encrypt     |-> certs \cap {"SGL1S2", "CERED"} # {},
     ReplaceHash |-> "SGL1S2" \in certs]

CredHash(sha256) == <<"credentials", sha256>>
DataHash(data)   == <<"data", data>>
NoHash           == <<"none", 0>>

Plain == [sealed |-> FALSE, stok |-> NoStok, data |-> 0, hash |-> NoHash, seq |-> 0]

\* Replies: what the body is once the wrapper is off, and what it says.
NoReply == [body |-> "none", status |-> 0, Success |-> FALSE, code |-> "unspecified",
            payload |-> Absent]
Lost    == [NoReply EXCEPT !.body = "lost"]

Reply(sealed, success, code, payload) ==
    [body |-> IF sealed THEN "sealed" ELSE "clear", status |-> 200,
     Success |-> success, code |-> code, payload |-> payload]

Statuses == {200, 403, 500}
\* Noise the way makes of a reply, and what a router that did nothing may say.
Garbled(body, status)       == [NoReply EXCEPT !.body = body, !.status = status]
Refusal(body, status, code) == [Garbled(body, status) EXCEPT !.code = code]

Noise == {Lost} \cup {Garbled(body, status) :
                        body \in {"notJSON", "wrongKey", "sealedNotJSON"}, status \in Statuses}
Refusals == {Refusal(body, status, code) : body \in {"clear", "sealed"}, status \in Statuses,
                                           code \in {"unspecified", "timeout", "other"}}

-----------------------------------------------------------------------------
(* call: how a request is sealed and a reply judged.                        *)

\* The hash after sealing a session request, which the next one inherits.
ReplacedHash(data) == IF features.ReplaceHash /\ stok # NoStok THEN DataHash(data) ELSE hash

\* Slip: signed first, replaced after.
SignedWithTheLast(data) == hash

\* The hash a session request is signed with: replaced before it is signed.
SignedWith(data) == ReplacedHash(data)

LoginRequest ==
    IF features.Encrypt
    THEN [sealed |-> TRUE, stok |-> NoStok, data |-> sent + 1,
          hash |-> CredHash(features.SHA256Hash), seq |-> reply.payload]
    ELSE Plain

\* A request of call under modeSession.
SendSession(place) ==
    /\ pc' = place /\ sent' = sent + 1 /\ reply' = NoReply
    /\ IF features.Encrypt
       THEN /\ hash' = ReplacedHash(sent + 1)
            /\ request' = [sealed |-> TRUE, stok |-> stok, data |-> sent + 1,
                           hash |-> SignedWith(sent + 1), seq |-> seq]
       ELSE /\ request' = [Plain EXCEPT !.stok = stok]
            /\ UNCHANGED hash

Arrived == reply # NoReply

\* The envelope call returns: the inner one of a sealed reply, else the wrapper,
\* which says nothing when its payload is sealed.
Readable == reply.body = "clear" \/ (reply.body = "sealed" /\ request.sealed)
Success  == Readable /\ reply.Success
errCode  == IF Readable THEN reply.code ELSE "unspecified"

httpErr == CASE reply.status = 200 -> "nil"
             [] reply.status # 200 /\ ~Success /\ errCode # "unspecified" -> "nil"
             [] OTHER -> IF reply.status = 403 THEN "expired" ELSE "failed"

\* Slip: every reply that does not decrypt is one unreadable reply.
CallErrAnyStatus ==
    CASE reply.body \in {"lost", "notJSON"} -> "failed"
      [] request.sealed /\ reply.body \in {"sealedNotJSON", "wrongKey"} -> "unreadable"
      [] OTHER -> httpErr

callErr ==
    CASE reply.body \in {"lost", "notJSON"} -> "failed"
      [] request.sealed /\ reply.body = "sealedNotJSON" -> "unreadable"
      [] request.sealed /\ reply.body = "wrongKey" /\ reply.status = 200 -> "unreadable"
      [] OTHER -> httpErr

-----------------------------------------------------------------------------
(* Login.                                                                   *)

Init ==
    /\ pc = "idle" /\ err = "nil" /\ loggedIn = FALSE
    /\ force \in BOOLEAN /\ device \in Devices
    /\ features = FeaturesFor({}) /\ mode = 0 /\ seq = 0 /\ hash = NoHash /\ stok = NoStok
    /\ request = Plain /\ reply = NoReply /\ logins = 0 /\ sent = 0
    /\ authSeq = 0 /\ session \in {"free", "remote", "local"} /\ granted = <<>>

Ask(place) == pc' = place /\ request' = Plain /\ reply' = NoReply

LoginReturns(e) ==
    /\ pc' = "idle" /\ err' = e /\ request' = Plain /\ reply' = NoReply
    /\ loggedIn' = (e = "nil")

StartLogin ==
    /\ pc = "idle" /\ ~loggedIn /\ logins < MaxLogins
    /\ logins' = logins + 1
    /\ Ask("config")
    /\ UNCHANGED <<err, clientVars, loggedIn, sent, routerVars, setup>>

\* Any of the requests of Login fails, or is refused where that is looked at.
LoginFails ==
    /\ Arrived
    /\ \/ pc \in {"config", "keys", "auth", "login", "confirm"} /\ callErr # "nil"
       \/ pc \in {"keys", "auth", "confirm"} /\ ~Success
       \/ pc = "login" /\ ~Success /\ errCode # "user conflict"
       \/ pc \in {"keys", "auth", "login", "confirm"} /\ Success /\ reply.payload = Absent
    /\ LoginReturns(IF callErr = "nil" THEN "failed" ELSE callErr)
    /\ UNCHANGED <<clientVars, logins, sent, routerVars, setup>>

\* fetchFeatures does not ask whether the router refused: a device without the
\* endpoint is one that encrypts nothing.
FeaturesRead ==
    /\ pc = "config" /\ Arrived /\ callErr = "nil"
    /\ features' = FeaturesFor(IF reply.payload = Absent THEN {} ELSE device)
    /\ Ask("keys")
    /\ UNCHANGED <<err, mode, seq, hash, stok, callerVars, routerVars, setup>>

\* fetchKey: the mode of this reply, or none, replaces the last login's, even
\* when the key beside it is no key.
KeyRead ==
    /\ pc = "keys" /\ Arrived /\ callErr = "nil" /\ Success
    /\ mode' \in {0, logins}
    /\ \/ Ask("auth") /\ UNCHANGED <<err, loggedIn>>
       \/ LoginReturns("failed")
    /\ UNCHANGED <<features, seq, hash, stok, logins, sent, routerVars, setup>>

\* fetchAuth, the credential hash, and the login itself.
AuthRead ==
    /\ pc = "auth" /\ Arrived /\ callErr = "nil" /\ Success /\ reply.payload # Absent
    /\ seq' = reply.payload /\ hash' = CredHash(features.SHA256Hash)
    /\ pc' = "login" /\ request' = LoginRequest /\ reply' = NoReply
    /\ UNCHANGED <<err, features, mode, stok, callerVars, routerVars, setup>>

\* Somebody else holds the session: evicted under Force, left alone without.
Conflict ==
    \/ force /\ pc' = "confirm" /\ reply' = NoReply /\ UNCHANGED <<request, err, loggedIn>>
    \/ ~force /\ LoginReturns("busy")

\* Slip: any login that was not granted, as far as is known, taken for a conflict.
ConfirmsWhatFailed ==
    /\ pc = "login" /\ Arrived /\ ~Success
    /\ Conflict
    /\ UNCHANGED <<clientVars, logins, sent, routerVars, setup>>

LoginConflicts ==
    /\ pc = "login" /\ Arrived /\ callErr = "nil" /\ ~Success /\ errCode = "user conflict"
    /\ Conflict
    /\ UNCHANGED <<clientVars, logins, sent, routerVars, setup>>

\* Slip: a reply without a stok taken for one with it.
LoginSucceedsUnread ==
    /\ pc \in {"login", "confirm"} /\ Arrived /\ callErr = "nil" /\ Success
    /\ stok' = reply.payload
    /\ LoginReturns("nil")
    /\ UNCHANGED <<features, mode, seq, hash, logins, sent, routerVars, setup>>

LoginSucceeds ==
    /\ pc \in {"login", "confirm"} /\ Arrived /\ callErr = "nil" /\ Success
    /\ reply.payload # Absent
    /\ stok' = reply.payload
    /\ LoginReturns("nil")
    /\ UNCHANGED <<features, mode, seq, hash, logins, sent, routerVars, setup>>
-----------------------------------------------------------------------------
(* Call and Logout, and the caller between them.                            *)

\* The caller holds a session, or has none and is told so.
StartCall ==
    /\ pc = "idle" /\ (loggedIn \/ stok = NoStok)
    /\ IF stok = NoStok
       THEN err' = "failed" /\ UNCHANGED <<pc, hash, sent, request, reply>>
       ELSE sent < MaxRequests /\ SendSession("call") /\ UNCHANGED err
    /\ UNCHANGED <<features, mode, seq, stok, loggedIn, logins, routerVars, setup>>

CallReturns ==
    /\ pc = "call" /\ Arrived
    /\ pc' = "idle"
    /\ err' = CASE callErr # "nil" -> callErr
                [] callErr = "nil" /\ Success -> "nil"
                [] OTHER -> IF errCode = "timeout" THEN "expired" ELSE "failed"
    /\ request' = Plain /\ reply' = NoReply
    /\ UNCHANGED <<clientVars, callerVars, routerVars, setup>>

StartLogout ==
    /\ pc = "idle"
    /\ IF stok = NoStok
       THEN err' = "nil" /\ UNCHANGED <<pc, hash, sent, request, reply>>
       ELSE sent < MaxRequests /\ SendSession("logout") /\ UNCHANGED err
    /\ UNCHANGED <<features, mode, seq, stok, loggedIn, logins, routerVars, setup>>

\* Slip: a logout that failed keeps its stok.
KeepStokOnError == IF callErr = "nil" THEN NoStok ELSE stok
StokAfterLogout == NoStok

\* The stok goes whatever came back, and what the envelope says is not read.
LogoutReturns ==
    /\ pc = "logout" /\ Arrived
    /\ pc' = "idle" /\ err' = callErr
    /\ stok' = StokAfterLogout /\ loggedIn' = FALSE
    /\ request' = Plain /\ reply' = NoReply
    /\ UNCHANGED <<features, mode, seq, hash, logins, sent, routerVars, setup>>

\* The poller decides the session is lost: its stok stays in the client.
CallerLosesSession ==
    /\ pc = "idle" /\ loggedIn
    /\ loggedIn' = FALSE
    /\ UNCHANGED <<pc, err, clientVars, logins, sent, request, reply, routerVars, setup>>

-----------------------------------------------------------------------------
(* The router, the way to it, and whoever else opens its web UI.            *)

Waiting(places) == pc \in places /\ ~Arrived

encrypts == FeaturesFor(device).Encrypt

RouterAnswersInTheClear ==
    /\ Waiting({"config", "keys", "auth"})
    /\ authSeq' \in IF pc = "auth" THEN {authSeq, logins} ELSE {authSeq}
    /\ \E payload \in {Absent, IF pc = "auth" THEN authSeq' ELSE 0} :
         reply' = Reply(FALSE, TRUE, "unspecified", payload)
    /\ UNCHANGED <<pc, err, clientVars, callerVars, setup, request, session, granted>>

LoginVerified ==
    /\ request.sealed = encrypts
    /\ encrypts => /\ request.hash = CredHash(FeaturesFor(device).SHA256Hash)
                   /\ request.seq = authSeq

\* The firmware defends a session against other devices only: a login from the
\* address that holds it, a browser's or the client's own, replaces it in silence.
RouterGrants ==
    /\ Waiting({"login", "confirm"}) /\ LoginVerified
    /\ session = "remote" => pc = "confirm"
    /\ granted' = Append(granted, [login |-> logins, seq |-> authSeq, sealed |-> encrypts,
                                   hash |-> CredHash(FeaturesFor(device).SHA256Hash)])
    /\ session' = "client"
    /\ \E payload \in {Absent, Len(granted) + 1} :
         reply' = Reply(encrypts, TRUE, "unspecified", payload)
    /\ UNCHANGED <<pc, err, clientVars, callerVars, setup, request, authSeq>>

RouterReportsConflict ==
    /\ Waiting({"login"}) /\ LoginVerified /\ session = "remote"
    /\ reply' = Reply(encrypts, FALSE, "user conflict", Absent)
    /\ UNCHANGED <<pc, err, clientVars, callerVars, setup, request, routerVars>>

\* What a login's session request must carry for the router to take it.
Verifies(login) ==
    /\ request.sealed = login.sealed
    /\ login.sealed =>
         /\ request.seq = login.seq
         /\ request.hash = IF FeaturesFor(device).ReplaceHash THEN DataHash(request.data)
                           ELSE login.hash

Honoured == session = "client" /\ request.stok = Len(granted)

RouterServes ==
    /\ Waiting({"call", "logout"}) /\ Honoured /\ Verifies(granted[request.stok])
    /\ session' = IF pc = "logout" THEN "free" ELSE session
    /\ reply' = Reply(encrypts, TRUE, "unspecified", 0)
    /\ UNCHANGED <<pc, err, clientVars, callerVars, setup, request, authSeq, granted>>

RouterDisowns ==
    /\ Waiting({"call", "logout"}) /\ ~Honoured
    /\ reply' = Reply(encrypts, FALSE, "timeout", Absent)
    /\ UNCHANGED <<pc, err, clientVars, callerVars, setup, request, routerVars>>

\* The router refuses, or the request never arrives.
NothingDone ==
    /\ pc # "idle" /\ ~Arrived
    /\ reply' \in Noise \cup Refusals
    /\ UNCHANGED <<pc, err, clientVars, callerVars, setup, request, routerVars>>

\* It did what was asked, and its reply does not arrive as it was sent.
ReplySpoilt ==
    /\ pc # "idle" /\ Arrived /\ reply.Success
    /\ reply' \in Noise \cup {[reply EXCEPT !.status = s] : s \in Statuses \ {200}}
    /\ UNCHANGED <<pc, err, clientVars, callerVars, setup, request, routerVars>>

\* Between the router's reply and the client reading it, nothing the client does
\* depends on the session, so the change may as well come after.
SomebodyElse ==
    /\ pc = "idle" \/ ~Arrived
    /\ session' \in {"free", "remote", "local"} \ {session}
    /\ UNCHANGED <<pc, err, clientVars, callerVars, setup, request, reply, authSeq, granted>>

-----------------------------------------------------------------------------
Login  == StartLogin \/ FeaturesRead \/ KeyRead \/ AuthRead \/ LoginConflicts
          \/ LoginSucceeds \/ LoginFails
Session == StartCall \/ CallReturns \/ StartLogout \/ LogoutReturns \/ CallerLosesSession
Router == RouterAnswersInTheClear \/ RouterGrants \/ RouterReportsConflict \/ RouterServes
          \/ RouterDisowns \/ NothingDone \/ ReplySpoilt \/ SomebodyElse

Next == Login \/ Session \/ Router

Spec == Init /\ [][Next]_vars
-----------------------------------------------------------------------------
(* Properties.                                                              *)

\* Client's fields have their types: its stok is one the router granted, and
\* the hash and the number it signs with come from a login or a request made.
TypeOK ==
    /\ pc \in {"idle", "config", "keys", "auth", "login", "confirm", "call", "logout"}
    /\ loggedIn \in BOOLEAN /\ features \in {FeaturesFor(certs) : certs \in Devices \cup {{}}}
    /\ mode \in 0..logins /\ seq \in 0..logins /\ stok \in 0..Len(granted)
    /\ hash \in {NoHash} \cup {CredHash(b) : b \in BOOLEAN} \cup {DataHash(n) : n \in 1..sent}
    /\ err \in {"nil", "failed", "busy", "expired", "unreadable"}

\* Login, call: a Call is signed with the sequence number and the hash of the
\* login that gave its stok, whatever logins failed and requests were lost in
\* between, so the router that granted it can check it.
SignedForItsSession == pc = "call" => Verifies(granted[request.stok])

\* The stoks the router has granted to the Login under way.
OfThisLogin == {i \in DOMAIN granted : granted[i].login = logins}

\* Login: however often it asks, and whatever becomes of the replies, it is granted
\* one session at most; returning nil it holds that one, and returning busy it was
\* granted none.  So it leaves a session nobody can log out of only when it fails,
\* and then one.
OneSessionPerLogin ==
    [][pc' = "idle" /\ pc \in {"login", "confirm"} =>
         /\ OfThisLogin \subseteq {Len(granted)}
         /\ err' = "nil" => OfThisLogin = {stok'}
         /\ err' = "busy" => OfThisLogin = {}]_vars

\* call, httpErr, Call: a session is declared dead only on the two signs the UI
\* takes for it, a reply unreadable only under HTTP 200 or once decrypted, and
\* good only when an envelope said so under 200.
CallClassifies ==
    [][pc = "call" /\ pc' = "idle" =>
         /\ err' = "expired" =>
              \/ Readable /\ reply.code = "timeout"
              \/ reply.status = 403 /\ errCode = "unspecified"
         /\ err' = "unreadable" =>
              /\ request.sealed
              /\ reply.body = "sealedNotJSON" \/ (reply.body = "wrongKey" /\ reply.status = 200)
         /\ err' = "nil" <=> Success /\ reply.status = 200]_vars

\* The operation of the client that is under way.
Operation == CASE pc = "idle" -> "nothing" [] pc = "call" -> "Call"
               [] pc = "logout" -> "Logout" [] OTHER -> "Login"

\* The contract the polling loop is written against.
Contract == INSTANCE WebSession WITH
    Errors  <- {"failed", "busy", "expired", "unreadable"},
    hasStok <- stok # NoStok,
    doing   <- Operation

\* Login, Call, Logout: whatever the replies, each returns what the poller
\* counts on and leaves the stok as it counts on.
KeepsTheContract == Contract!Spec

-----------------------------------------------------------------------------
(* What the documentation says and the code does not do.                    *)

\* client.go:248, client_test.go:540: the session is reported gone on an HTTP
\* 403 that no envelope explains.
Unexplained403IsExpired ==
    [][pc = "call" /\ pc' = "idle" /\ reply.status = 403 /\ errCode = "unspecified"
         /\ reply.body \notin {"sealed", "sealedNotJSON"} => err' = "expired"]_vars

\* client.go:420: Logout frees the router's single web session.  Read leniently,
\* one that returned nil did not leave the session it was asked to free.
LogoutNilMeansFreed ==
    [][pc = "logout" /\ pc' = "idle" /\ err' = "nil" => ~Honoured]_vars
=============================================================================
