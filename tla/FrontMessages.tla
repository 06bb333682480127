---------------------------- MODULE FrontMessages ----------------------------
(***************************************************************************)
(* Requests and responses on the connection of a client that has been      *)
(* admitted (for that see VersionHandshake).  Several requests are under   *)
(* way at once, messages overtake each other, and the connection may be    *)
(* lost at any time and made again.                                        *)
(*                                                                         *)
(* The messages, their limits and types are those of FrontSchema, error_   *)
(* has the numbers of ErrorCatalog.  mprpc and the programs at the ends    *)
(* are not in this repository.  Of mprpc the messages need that a response *)
(* finds its request by the header that Message(_rreq) copies, and that    *)
(* what is over a limit, when it is written or when it is read, closes the *)
(* connection, which ends every request on it.  Of the server, that it     *)
(* keeps what requests give it and shows it in the fields that responses   *)
(* have for it.                                                            *)
(***************************************************************************)
EXTENDS FrontSchema, ErrorCatalog, FiniteSets

CONSTANTS
  Requests,   \* the types of requests the client makes
  Varied,     \* the fields that are not always empty
  Sizes,      \* the sizes they have
  Releases,   \* the releases that the server and the client may be of
  Causes,     \* the errors that handlers find
  MaxCalls,   \* bound on the number of requests
  MaxLosses   \* bound on the losses of the connection

ASSUME MessagesAssumption ==
  /\ Requests \subseteq Plain \cup DOMAIN OwnResponse
  /\ Sizes \subseteq Nat
  /\ Releases \subseteq [server : 0..Len(Later), client : 0..Len(Later)]
  /\ {MaxCalls, MaxLosses} \subseteq Nat
  /\ Causes \subseteq Known(Len(Later)) \ {"none"}

(***************************************************************************)
(* Where what a request gives, <<type, field, what>>, is shown again; the  *)
(* containers that get longer with every request of a type; and the one    *)
(* that is as long as the request wants.                                   *)
(***************************************************************************)
Kept ==
  {<<"CreateRequest", "user", "user">>, <<"CreateRequest", "email", "email">>,
   <<"AmendRequest", "new_user", "user">>, <<"AmendRequest", "new_email", "email">>,
   <<"CreateAppRequest", "application.name", "application.name">>,
   <<"CreateBuildRequest", "unique", "unique">>, <<"CreateMediaRequest", "unique", "unique">>}
  \cup {<<"CreateBuildRequest", f, f>> : f \in Build \cup {"image_blob"}}

Shown ==
  {<<"FetchResponse", "user", "user">>, <<"FetchResponse", "email", "email">>,
   <<"ListAppsResponse", "item.name", "application.name">>,
   <<"FetchAppResponse", "application.name", "application.name">>,
   <<"FetchAppResponse", "entry.name", "unique">>,
   <<"FetchBuildUpdatesResponse", "build_unique", "unique">>,
   <<"FetchBuildConfigurationResponse", "build_unique", "unique">>}
  \cup {<<"FetchBuildResponse", f, f>> : f \in Build \cup {"image_blob"}}
  \cup {<<"FetchBuildConfigurationResponse", f, f>> : f \in Configuration \cup {"image_blob"}}

Counted ==
  {<<"CreateAppRequest", "ListAppsResponse", "app_vec">>,
   <<"CreateBuildRequest", "FetchAppResponse", "item_vec">>,
   <<"CreateMediaRequest", "FetchAppResponse", "item_vec">>}

Asked == {<<"FetchBuildUpdatesResponse", "app_vec", "app_id_vec">>}

Own(t) ==
  {f \in Sized(t) : /\ \A s \in Shown \cup Asked : s[1] # t \/ s[2] # f
                    /\ \A c \in Counted : c[2] # t \/ c[3] # f}

VARIABLES
  release,   \* the release of the server and that of the client
  up,        \* the connection stands
  calls,     \* the client's requests, in the order it made them
  toServer,  \* the requests on the way
  toClient,  \* the responses on the way
  kept,      \* the size of everything the server has been given
  counts,    \* how long its lists have become
  closedBy,  \* the fields that have closed the connection
  losses     \* how often it was lost otherwise

vars == <<release, up, calls, toServer, toClient, kept, counts, closedBy, losses>>

Success == 0

\* Variant: error_ is 0 as a response is constructed.
ConstructedZero == Success

\* error_ = -1, of 32 bits: a number beyond those of all errors.
Constructed == Len(ErrorE(Len(Later))) + 1

Init ==
  /\ release \in Releases
  /\ up = TRUE
  /\ calls = <<>> /\ toServer = {} /\ toClient = {}
  /\ kept = [d \in {k[3] : k \in Kept} |-> 0]
  /\ \E n \in {0, Small} : counts = [c \in {<<k[2], k[3]>> : k \in Counted} |-> n]
  /\ closedBy = {} /\ losses = 0

Waiting == {i \in DOMAIN calls : calls[i].at = "waiting"}

\* The bodies of a message that vary in one field of F.
Bodies(t, F) ==
  {[g \in Sized(t) |-> 0]} \cup
  {[g \in Sized(t) |-> IF g = f THEN n ELSE 0] : f \in F \cap Varied, n \in Sizes}

-----------------------------------------------------------------------------
\* The connection ends, and with it every request that waits.
Disconnect(all) ==
  /\ up' = FALSE
  /\ toServer' = {} /\ toClient' = {}
  /\ calls' = [i \in DOMAIN all |->
                 IF all[i].at = "waiting" THEN [all[i] EXCEPT !.at = "failed"] ELSE all[i]]

Refuse(side, m, all) ==
  /\ Disconnect(all)
  /\ closedBy' = closedBy \cup {[side |-> side, type |-> TypeOf(m.id), field |-> f, size |-> m.body[f]] :
                                  f \in Overlong(side, TypeOf(m.id), m.body)}

Fits(side, m) == Overlong(side, TypeOf(m.id), m.body) = {}

\* A request: where it is, how its handler ended, what the client was told.
Call(t) == [type |-> t, at |-> "waiting", end |-> "none", error |-> Constructed]

\* The client makes a request.
Send(t) ==
  /\ up /\ Len(calls) < MaxCalls
  /\ \E body \in Bodies(t, Sized(t)) :
       LET m == [id |-> TypeId(t), body |-> Written(t, body), from |-> Len(calls) + 1]
           all == Append(calls, Call(t))
       IN  IF Fits("writer", m)
           THEN /\ calls' = all /\ toServer' = toServer \cup {m}
                /\ UNCHANGED <<up, toClient, closedBy>>
           ELSE Refuse("writer", m, all)
  /\ UNCHANGED <<release, kept, counts, losses>>

\* Variant: the response is made without its request; mprpc has the number of
\* the last one it has sent.
ResponseToLast(m) == Len(calls)

\* The header of a response: that of the request it was made from.
ResponseTo(m) == m.from

(***************************************************************************)
(* What the server shows in a response of type t to m: all it was given,   *)
(* and in fields of its own whatever it likes.                             *)
(***************************************************************************)
Filled(t, m, own) ==
  [f \in Sized(t) |->
     IF \E s \in Shown : s[1] = t /\ s[2] = f
     THEN kept'[(CHOOSE s \in Shown : s[1] = t /\ s[2] = f)[3]]
     ELSE IF <<t, f>> \in DOMAIN counts THEN counts'[<<t, f>>]
     ELSE IF \E a \in Asked : a[1] = t /\ a[2] = f
     THEN m.body[(CHOOSE a \in Asked : a[1] = t /\ a[2] = f)[3]]
     ELSE own[f]]

Learn(t, m) ==
  /\ kept' = [d \in DOMAIN kept |->
                IF \E k \in Kept : k[1] = t /\ k[3] = d
                THEN m.body[(CHOOSE k \in Kept : k[1] = t /\ k[3] = d)[2]]
                ELSE kept[d]]
  /\ counts' = [c \in DOMAIN counts |->
                  IF <<t, c[1], c[2]>> \in Counted THEN counts[c] + 1 ELSE counts[c]]

(***************************************************************************)
(* The server's handlers.  They succeed; or they find an error and tell it *)
(* by a response that has an error_; or they leave the response as it was  *)
(* constructed.                                                            *)
(***************************************************************************)
Respond(m, end, r, error, own) ==
  LET a == [id |-> TypeId(r), to |-> ResponseTo(m), error |-> error,
            body |-> IF end = "Success" THEN Filled(r, m, own) ELSE [f \in Sized(r) |-> 0]]
      all == [calls EXCEPT ![m.from].end = end]
  IN  IF Fits("writer", a)
      THEN /\ calls' = all /\ toClient' = toClient \cup {a} /\ toServer' = toServer \ {m}
           /\ UNCHANGED <<up, closedBy>>
      ELSE Refuse("writer", a, all)

Handle(m) ==
  LET t == TypeOf(m.id)
      typed == IF t \in Plain THEN "Response" ELSE OwnResponse[t]
  IN  \/ /\ Learn(t, m)
         /\ \E own \in Bodies(typed, Own(typed)) : Respond(m, "Success", typed, Success, own)
      \/ /\ \E r \in ResponseTypes(t), e \in Causes \cap Known(release.server) :
              HasError(r) /\ Respond(m, e, r, Condition(release.server, e), <<>>)
         /\ UNCHANGED <<kept, counts>>
      \/ /\ Respond(m, "Unknown", typed, Constructed, <<>>)
         /\ UNCHANGED <<kept, counts>>

\* The server reads a request and, at some time, answers it.
Serve(m) ==
  /\ IF Fits("reader", m) THEN Handle(m) ELSE Refuse("reader", m, calls) /\ UNCHANGED <<kept, counts>>
  /\ UNCHANGED <<release, losses>>

\* What a client makes of a response that has no error_.
ErrorOf(a) == IF HasError(TypeOf(a.id)) THEN a.error ELSE Success

\* The client reads a response and its request ends.
Receive(a) ==
  /\ IF Fits("reader", a)
     THEN /\ toClient' = toClient \ {a}
          /\ calls' = IF a.to \in Waiting
                      THEN [calls EXCEPT ![a.to].at = "told",
                                         ![a.to].error = MakeError(ErrorOf(a))]
                      ELSE calls
          /\ UNCHANGED <<up, toServer, closedBy>>
     ELSE Refuse("reader", a, calls)
  /\ UNCHANGED <<release, kept, counts, losses>>

\* The connection is lost.  What the server has done by then stays done.
Lose ==
  /\ up /\ losses < MaxLosses
  /\ losses' = losses + 1
  /\ Disconnect(calls)
  /\ UNCHANGED <<release, kept, counts, closedBy>>

Connect ==
  /\ ~ up
  /\ up' = TRUE
  /\ UNCHANGED <<release, calls, toServer, toClient, kept, counts, closedBy, losses>>

-----------------------------------------------------------------------------
Transfer == (\E m \in toServer : Serve(m)) \/ (\E a \in toClient : Receive(a))

Next == (\E t \in Requests : Send(t)) \/ Transfer \/ Lose \/ Connect

Spec == Init /\ [][Next]_vars

-----------------------------------------------------------------------------
TypeOK ==
  /\ release \in Releases /\ up \in BOOLEAN
  /\ \A i \in DOMAIN calls :
       /\ calls[i].type \in Requests
       /\ calls[i].at \in {"waiting", "told", "failed"}
       /\ calls[i].end \in Causes \cup {"none", "Success", "Unknown"}
       /\ calls[i].error \in Nat
  /\ {m.from : m \in toServer} \cup {a.to : a \in toClient} \subseteq Waiting
  /\ kept \in [DOMAIN kept -> Nat] /\ counts \in [DOMAIN counts -> Nat]
  /\ \A c \in closedBy : c.size > MaxSizeOf(c.side, c.type, c.field)
  /\ losses \in Nat

(***************************************************************************)
(* What a client was able to give in a request can be shown to all: no     *)
(* response exceeds a limit by it, as it would, and take the connection    *)
(* and all other requests with it every time, if the limits of the two     *)
(* differed.  Lists that requests only add to are not protected by this.   *)
(***************************************************************************)
AcceptedIsServable ==
  \A c \in closedBy : c.type \in Requests \/ c.field \in Own(c.type)
                        \/ <<c.type, c.field>> \in DOMAIN counts

\* What was written can be read: limits stop messages only where they are
\* made, in UploadRequest too, which has one for writing and one for reading.
ReaderTakes == \A c \in closedBy : c.side = "writer"

\* What the client shows of a request's error.
Message(i) == message(release.client, calls[i].error)

(***************************************************************************)
(* A client that reads a success has had one, even if the server forgets   *)
(* to say how it ended; but CaptchaResponse and FetchResponse cannot say.  *)
(***************************************************************************)
NoFalseSuccess ==
  \A i \in DOMAIN calls :
    Message(i) = "Success"
      => calls[i].end = "Success" \/ calls[i].type \in {"CaptchaRequest", "FetchRequest"}

(***************************************************************************)
(* An error keeps its name from a server of one release to a client of     *)
(* another, and is the one the client finds it equal to among the          *)
(* conditions of error.hpp; or the client has no such name, shows it as    *)
(* unknown and finds it equal to none.                                     *)
(***************************************************************************)
ToldAsRaised ==
  \A i \in DOMAIN calls :
    (calls[i].at = "told" /\ calls[i].end \in Causes)
      => LET e == calls[i].end
             known == Known(release.client)
         IN  /\ Message(i) = IF e \in known THEN e ELSE "Unknown"
             /\ {c \in known : Condition(release.client, c) = calls[i].error} = {e} \cap known

=============================================================================
