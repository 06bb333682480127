-------------------------- MODULE FrontMessagesProofs --------------------------
(***************************************************************************)
(* The safety properties of FrontMessages, proved for every choice of      *)
(* requests, sizes, limits and releases, and for any number of requests    *)
(* under way and of lost connections.                                      *)
(***************************************************************************)
EXTENDS FrontMessages, SequenceTheorems, TLAPS

-----------------------------------------------------------------------------
(***************************************************************************)
(* The tables of FrontSchema.                                              *)
(***************************************************************************)

\* The types with a number.
Travelling == DOMAIN CoreNumbers \cup DOMAIN AuthNumbers \cup DOMAIN MainNumbers

\* The types in the order of their numbers.
CoreTypes == <<"InitResponse", "AuthRequest", "AuthResponse", "Response">>

AuthTypes ==
  <<"auth_InitRequest", "CreateRequest", "ValidateRequest", "AmendRequest", "FetchRequest",
    "FetchResponse", "ResetRequest", "CaptchaRequest", "CaptchaResponse", "DeleteRequest">>

MainTypes ==
  <<"main_InitRequest", "ListOSesRequest", "ListOSesResponse", "ListAppsRequest",
    "ListAppsResponse", "ListStoreRequest", "ListStoreResponse", "FetchStoreRequest",
    "FetchStoreResponse", "CreateBuildRequest", "CreateMediaRequest", "UploadRequest",
    "FetchAppRequest", "FetchAppResponse", "ChangeAppItemStateRequest", "FetchBuildRequest",
    "FetchBuildResponse", "FetchBuildConfigurationRequest", "FetchBuildConfigurationResponse",
    "FetchBuildUpdatesRequest", "FetchBuildUpdatesResponse", "CreateAppRequest",
    "AcquireAppRequest">>

LEMMA OneProtocol ==
  ASSUME NEW p \in 0..2, NEW t \in DOMAIN Numbers(p)
  PROVE  Protocol(t) = p
<1>1. \A q \in 0..2 : t \in DOMAIN Numbers(q) => q = p
  BY DEF Numbers, CoreNumbers, AuthNumbers, MainNumbers
<1> QED
  BY <1>1 DEF Protocol

LEMMA OneNumber ==
  ASSUME NEW p \in 0..2, NEW t \in DOMAIN Numbers(p), NEW u \in DOMAIN Numbers(p),
         Numbers(p)[t] = Numbers(p)[u]
  PROVE  t = u
<1> DEFINE types == IF p = 0 THEN CoreTypes ELSE IF p = 1 THEN AuthTypes ELSE MainTypes
<1>1. ASSUME NEW v \in DOMAIN Numbers(p) PROVE types[Numbers(p)[v]] = v
  <2>1. CASE p = 0
    BY <1>1, <2>1 DEF Numbers, CoreNumbers, CoreTypes
  <2>2. CASE p = 1
    BY <1>1, <2>2 DEF Numbers, AuthNumbers, AuthTypes
  <2>3. CASE p = 2
    BY <1>1, <2>3 DEF Numbers, MainNumbers, MainTypes
  <2> QED
    BY <2>1, <2>2, <2>3
<1> HIDE DEF types
<1> QED
  BY <1>1

\* A number has one type, in all three protocols.
LEMMA OneType ==
  ASSUME NEW t \in Travelling
  PROVE  TypeOf(TypeId(t)) = t
<1>1. PICK p \in 0..2 : t \in DOMAIN Numbers(p)
  BY DEF Travelling, Numbers
<1>2. TypeId(t) = <<p, Numbers(p)[t]>>
  BY <1>1, OneProtocol DEF TypeId
<1>3. TypeOf(TypeId(t)) = CHOOSE u \in DOMAIN Numbers(p) : Numbers(p)[u] = Numbers(p)[t]
  BY <1>2 DEF TypeOf
<1>4. \A u \in DOMAIN Numbers(p) : Numbers(p)[u] = Numbers(p)[t] => u = t
  BY <1>1, OneNumber
<1> QED
  BY <1>1, <1>3, <1>4

\* The limit of the fields that what is kept is given in and shown in.
KeptLimit(d) == IF d = "image_blob" THEN Blob ELSE Small

\* The types of requests and those of their responses have fields and numbers.
LEMMA TypesKnown ==
  ASSUME NEW t \in Plain \cup DOMAIN OwnResponse
  PROVE  /\ t \in DOMAIN Fields \cap Travelling
         /\ ResponseTypes(t) \subseteq DOMAIN Fields \cap Travelling
         /\ "UploadRequest" \notin ResponseTypes(t)
  BY DEF ResponseTypes, Plain, OwnResponse, Travelling, CoreNumbers, AuthNumbers, MainNumbers, Fields,
         CoreMessages, AuthMessages, ListMessages, StoreMessages,
         FetchMessages, CreateMessages

\* The responses that have no error_.
LEMMA WithoutError ==
  ASSUME NEW t \in Plain \cup DOMAIN OwnResponse, NEW r \in ResponseTypes(t), ~ HasError(r)
  PROVE  t \in {"CaptchaRequest", "FetchRequest"}
  BY DEF ResponseTypes, HasError, Plain, OwnResponse, Fields, CoreMessages, AuthMessages,
         ListMessages, StoreMessages, FetchMessages, CreateMessages,
         Application, ApplicationListItem, ListStoreNode, AppItemEntry, Shortcut, Media,
         Configuration, Build, Told, Captcha

LEMMA KeptFields ==
  ASSUME NEW k \in Kept
  PROVE  k[2] \in Sized(k[1])
  BY DEF Kept, Sized, Fields, CoreMessages, AuthMessages, ListMessages, StoreMessages,
         FetchMessages, CreateMessages,
         Application, ApplicationListItem, ListStoreNode, AppItemEntry, Shortcut, Media,
         Configuration, Build, Told, Captcha

\* What is kept has the same limit where it is read and where it is shown.
LEMMA KeptLimits ==
  ASSUME NEW k \in Kept
  PROVE  MaxSizeOf("reader", k[1], k[2]) = KeptLimit(k[3])
  BY DEF Kept, KeptLimit, MaxSizeOf, Blobs, Build, Configuration, Shortcut, Media

LEMMA ShownLimits ==
  ASSUME NEW s \in Shown
  PROVE  MaxSizeOf("writer", s[1], s[2]) = KeptLimit(s[3])
  BY DEF Shown, KeptLimit, MaxSizeOf, Blobs, Build, Configuration, Shortcut, Media

LEMMA ShownIsKept ==
  ASSUME NEW s \in Shown
  PROVE  \E k \in Kept : k[3] = s[3]
<1>1. CASE s[3] \in Build \cup {"image_blob"}
  <2>1. <<"CreateBuildRequest", s[3], s[3]>> \in Kept
    BY <1>1 DEF Kept
  <2> QED
    BY <2>1
<1>2. CASE s[3] \in {"user", "email", "application.name", "unique"}
  <2>1. /\ <<"CreateRequest", "user", "user">> \in Kept
        /\ <<"CreateRequest", "email", "email">> \in Kept
        /\ <<"CreateAppRequest", "application.name", "application.name">> \in Kept
        /\ <<"CreateBuildRequest", "unique", "unique">> \in Kept
    BY DEF Kept
  <2> QED
    BY <1>2, <2>1
<1> QED
  BY <1>1, <1>2 DEF Shown, Build

LEMMA AskedFits ==
  ASSUME NEW t \in Plain \cup DOMAIN OwnResponse, NEW r \in ResponseTypes(t),
         NEW a \in Asked, a[1] = r
  PROVE  /\ a[3] \in Sized(t)
         /\ MaxSizeOf("writer", t, a[3]) = MaxSizeOf("writer", r, a[2])
<1>1. t = "FetchBuildUpdatesRequest" /\ a = <<"FetchBuildUpdatesResponse", "app_vec", "app_id_vec">>
  BY DEF Asked, ResponseTypes, Plain, OwnResponse
<1>2. "app_id_vec" \in Sized("FetchBuildUpdatesRequest")
  BY DEF Sized, Fields, CoreMessages, AuthMessages, ListMessages
<1> QED
  BY <1>1, <1>2 DEF MaxSizeOf, Blobs

-----------------------------------------------------------------------------
(***************************************************************************)
(* The numbers of ErrorCatalog.                                            *)
(***************************************************************************)

\* The enumeration of all releases; that of one is a prefix of it.
AllErrors == ErrorE(Len(Later))

\* Whatever the names of errors are made of.
Names == {ErrorNames[i] : i \in 1..31} \cup STRING

LEMMA NamesSeq ==
  ErrorNames \in Seq(Names) /\ Len(ErrorNames) = 31 /\ Later \in Seq(Names)
<1>1. ErrorNames = [i \in 1..31 |-> ErrorNames[i]] /\ Len(ErrorNames) = 31
  BY DEF ErrorNames
<1>2. \A i \in 1..31 : ErrorNames[i] \in Names
  BY DEF Names
<1>3. ErrorNames \in [1..31 -> Names]
  BY <1>1, <1>2
<1>4. ErrorNames \in Seq(Names)
  BY <1>3, SeqDef
<1>5. Later \in Seq(Names)
  BY CatalogAssumption, SeqMonotonic DEF Names
<1> QED
  BY <1>1, <1>4, <1>5
LEMMA Enumeration ==
  ASSUME NEW n \in 0..Len(Later)
  PROVE  /\ Len(AllErrors) \in Nat /\ DOMAIN AllErrors = 1..Len(AllErrors)
         /\ \E k \in 0..Len(AllErrors) : DOMAIN ErrorE(n) = 1..k
         /\ \A i \in DOMAIN ErrorE(n) : ErrorE(n)[i] = AllErrors[i]
<1>1. ErrorNames \in Seq(Names) /\ Len(ErrorNames) = 31
  BY NamesSeq
<1>2. Later \in Seq(Names) /\ Len(Later) \in Nat
  BY NamesSeq, LenProperties
<1>3. ASSUME NEW k \in 0..Len(Later)
      PROVE  /\ SubSeq(Later, 1, k) \in Seq(Names) /\ Len(SubSeq(Later, 1, k)) = k
             /\ \A i \in 1..k : SubSeq(Later, 1, k)[i] = Later[i]
  BY <1>2, <1>3, SubSeqProperties
<1>4. ASSUME NEW k \in 0..Len(Later)
      PROVE  /\ Len(ErrorE(k)) = 31 + k /\ DOMAIN ErrorE(k) = 1..(31 + k)
             /\ \A i \in 1..(31 + k) :
                  ErrorE(k)[i] = IF i <= 31 THEN ErrorNames[i] ELSE Later[i - 31]
  <2>1. /\ ErrorE(k) \in Seq(Names) /\ Len(ErrorE(k)) = 31 + k
        /\ \A i \in 1..(31 + k) :
             ErrorE(k)[i] = IF i <= 31 THEN ErrorNames[i] ELSE SubSeq(Later, 1, k)[i - 31]
    <3> DEFINE tail == SubSeq(Later, 1, k)
    <3>1. tail \in Seq(Names) /\ Len(tail) = k /\ k \in Nat
      BY <1>2, <1>3
    <3> HIDE DEF tail
    <3>2. /\ ErrorNames \o tail \in Seq(Names)
          /\ Len(ErrorNames \o tail) = Len(ErrorNames) + Len(tail)
          /\ \A i \in 1..Len(ErrorNames) + Len(tail) :
               (ErrorNames \o tail)[i]
                 = IF i <= Len(ErrorNames) THEN ErrorNames[i] ELSE tail[i - Len(ErrorNames)]
      BY <1>1, <3>1, ConcatProperties
    <3> QED
      BY <1>1, <3>1, <3>2 DEF ErrorE, tail
  <2>2. DOMAIN ErrorE(k) = 1..(31 + k)
    BY <2>1, LenProperties
  <2>3. ASSUME NEW i \in 1..(31 + k)
        PROVE  ErrorE(k)[i] = IF i <= 31 THEN ErrorNames[i] ELSE Later[i - 31]
    <3>1. k \in Nat /\ \A j \in 1..k : SubSeq(Later, 1, k)[j] = Later[j]
      BY <1>2, <1>3
    <3>2. i <= 31 \/ i - 31 \in 1..k
      BY <3>1
    <3> QED
      BY <2>1, <3>1, <3>2
  <2> QED
    BY <2>1, <2>2, <2>3
<1>5. Len(AllErrors) = 31 + Len(Later) /\ DOMAIN AllErrors = 1..Len(AllErrors)
  BY <1>2, <1>4 DEF AllErrors
<1>6. DOMAIN ErrorE(n) = 1..(31 + n) /\ 31 + n \in 0..Len(AllErrors)
  BY <1>2, <1>4, <1>5
<1>7. \A i \in 1..(31 + n) : ErrorE(n)[i] = AllErrors[i]
  <2>1. \A i \in 1..(31 + n) : i \in 1..(31 + Len(Later))
    BY <1>2
  <2> QED
    BY <1>2, <1>4, <2>1 DEF AllErrors
<1> QED
  BY <1>2, <1>5, <1>6, <1>7

LEMMA ConstructedNumber == Constructed \in Nat \ {0}
<1>1. Len(Later) \in 0..Len(Later)
  BY CatalogAssumption, LenProperties
<1> QED
  BY <1>1, Enumeration DEF Constructed, AllErrors

\* The number of an error, in a release that has it, is its place among all.
LEMMA CastPlaces ==
  ASSUME NEW n \in 0..Len(Later), NEW e \in Known(n)
  PROVE  /\ Condition(n, e) \in DOMAIN ErrorE(n) /\ ErrorE(n)[Condition(n, e)] = e
         /\ Condition(n, e) \in DOMAIN AllErrors /\ AllErrors[Condition(n, e)] = e
         /\ Condition(n, e) \in Nat \ {0} /\ Condition(n, e) # Constructed
         /\ e \in Known(Len(Later))
<1>1. \E i \in DOMAIN ErrorE(n) : ErrorE(n)[i] = e
  BY DEF Known
<1>2. Condition(n, e) \in DOMAIN ErrorE(n) /\ ErrorE(n)[Condition(n, e)] = e
  BY <1>1 DEF Condition, cast
<1>3. Condition(n, e) \in DOMAIN AllErrors /\ AllErrors[Condition(n, e)] = e
  BY <1>2, Enumeration
<1> QED
  BY <1>2, <1>3, Enumeration DEF Constructed, Known, AllErrors

LEMMA Distinct ==
  ASSUME NEW i \in DOMAIN AllErrors, NEW j \in DOMAIN AllErrors, AllErrors[i] = AllErrors[j]
  PROVE  i = j
  BY CatalogAssumption DEF AllErrors

\* A condition means to every release what it means to the one that made it,
\* or nothing.
LEMMA ConditionTravels ==
  ASSUME NEW s \in 0..Len(Later), NEW c \in 0..Len(Later), NEW e \in Known(s)
  PROVE  /\ message(c, Condition(s, e)) = IF e \in Known(c) THEN e ELSE "Unknown"
         /\ {d \in Known(c) : Condition(c, d) = Condition(s, e)} = {e} \cap Known(c)
<1> DEFINE i == Condition(s, e)
<1>1. i \in DOMAIN AllErrors /\ AllErrors[i] = e /\ i # 0
  BY CastPlaces
<1>2. ASSUME NEW d \in Known(c) PROVE (Condition(c, d) = i) <=> (d = e)
  <2>1. Condition(c, d) \in DOMAIN AllErrors /\ AllErrors[Condition(c, d)] = d
    BY CastPlaces
  <2> QED
    BY <1>1, <2>1, Distinct
<1>3. CASE i \in DOMAIN ErrorE(c)
  <2>1. ErrorE(c)[i] = e
    BY <1>1, <1>3, Enumeration
  <2>2. e \in Known(c)
    BY <1>3, <2>1 DEF Known
  <2> QED
    BY <1>1, <1>2, <1>3, <2>1, <2>2 DEF message
<1>4. CASE i \notin DOMAIN ErrorE(c)
  <2>1. e \notin Known(c)
    <3>1. ASSUME e \in Known(c) PROVE FALSE
      <4>1. Condition(c, e) = i /\ Condition(c, e) \in DOMAIN ErrorE(c)
        BY <1>2, <3>1, CastPlaces
      <4> QED
        BY <1>4, <4>1
    <3> QED
      BY <3>1
  <2> QED
    BY <1>1, <1>2, <1>4, <2>1 DEF message
<1> QED
  BY <1>3, <1>4

\* Only 0 reads as a success.
LEMMA SuccessIsZero ==
  ASSUME NEW c \in 0..Len(Later), NEW ev, message(c, ev) = "Success"
  PROVE  ev = Success
<1>1. ASSUME ev # 0 PROVE FALSE
  <2>1. ASSUME ev \in DOMAIN ErrorE(c) PROVE ErrorE(c)[ev] # "Success"
    <3>1. ErrorE(c)[ev] \in Known(c)
      BY <2>1 DEF Known
    <3>2. ErrorE(c)[ev] \in Known(Len(Later))
      BY <3>1, CastPlaces
    <3> QED
      BY <3>2, CatalogAssumption
  <2> QED
    BY <1>1, <2>1 DEF message
<1> QED
  BY <1>1 DEF Success

-----------------------------------------------------------------------------
(***************************************************************************)
(* The inductive invariant.  What is given to the server stays below the   *)
(* limits of the fields that show it.                                      *)
(***************************************************************************)
StoreInv ==
  /\ kept \in [{k[3] : k \in Kept} -> Nat]
  /\ \A d \in DOMAIN kept : kept[d] <= KeptLimit(d)
  /\ counts \in [{<<k[2], k[3]>> : k \in Counted} -> Nat]

\* A request.
CallRecord ==
  [type : Requests, at : {"waiting", "told", "failed"},
   end : Causes \cup {"none", "Success", "Unknown"}, error : Nat]

\* How a handler ended, from the error that its client reads.
Tells(c, error) ==
  \/ c.end = "Success" /\ error = Success
  \/ c.end = "Unknown" /\ error = Constructed
  \/ c.end = "Unknown" /\ error = Success /\ c.type \in {"CaptchaRequest", "FetchRequest"}
  \/ c.end \in Causes /\ error = Condition(release.server, c.end)

CallFine(c) ==
  /\ c.at = "told" => Tells(c, c.error)
  /\ c.at # "told" => c.error = Constructed
  /\ c.end \in Causes => c.end \in Known(release.server)

CallsFine(all) ==
  /\ all \in Seq(CallRecord)
  /\ \A i \in 1..Len(all) : CallFine(all[i])

\* A message whose type is t and that both ends can take.
Sound(t, m) ==
  /\ t \in Travelling /\ m.id = TypeId(t) /\ m.body \in [Sized(t) -> Nat]
  /\ Fits("writer", m) /\ Fits("reader", m)

RequestFine(m) == m.from \in Waiting /\ Sound(calls[m.from].type, m)

ResponseFine(a) ==
  /\ a.to \in Waiting
  /\ \E r \in ResponseTypes(calls[a.to].type) : Sound(r, a)
  /\ Tells(calls[a.to], ErrorOf(a))

\* Every request that waits has one message under way, and no other.
WireInv ==
  /\ \A m \in toServer : RequestFine(m)
  /\ \A a \in toClient : ResponseFine(a)
  /\ \A m, n \in toServer : m.from = n.from => m = n
  /\ \A a, b \in toClient : a.to = b.to => a = b
  /\ \A m \in toServer, a \in toClient : m.from # a.to
  /\ \A i \in Waiting : (\E m \in toServer : m.from = i) \/ (\E a \in toClient : a.to = i)
  /\ ~ up => toServer = {} /\ toClient = {}

ClosedFine(c) ==
  /\ c.side = "writer" /\ c.type \in DOMAIN Fields /\ c.field \in Sized(c.type)
  /\ c.size \in Nat /\ c.size > MaxSizeOf("writer", c.type, c.field)
  /\ \/ c.type \in Requests
     \/ c.field \in Own(c.type)
     \/ <<c.type, c.field>> \in DOMAIN counts

IInv ==
  /\ release \in Releases /\ up \in BOOLEAN /\ losses \in Nat
  /\ StoreInv
  /\ CallsFine(calls)
  /\ WireInv
  /\ \A c \in closedBy : ClosedFine(c)

-----------------------------------------------------------------------------
(***************************************************************************)
(* Sequences, bodies and limits.                                           *)
(***************************************************************************)
LEMMA ChangeOne ==
  ASSUME NEW S, NEW s \in Seq(S), NEW i \in 1..Len(s), NEW e \in S
  PROVE  /\ [s EXCEPT ![i] = e] \in Seq(S) /\ Len([s EXCEPT ![i] = e]) = Len(s)
         /\ [s EXCEPT ![i] = e][i] = e
         /\ \A j \in 1..Len(s) : j # i => [s EXCEPT ![i] = e][j] = s[j]
<1> DEFINE r == [s EXCEPT ![i] = e]
<1>1. s \in [1..Len(s) -> S] /\ Len(s) \in Nat
  BY LenProperties
<1>2. r \in [1..Len(s) -> S]
  BY <1>1
<1>3. r \in Seq(S)
  BY <1>1, <1>2, SeqDef
<1>4. DOMAIN r = 1..Len(r) /\ Len(r) \in Nat
  BY <1>3, LenProperties
<1>5. Len(r) = Len(s)
  BY <1>1, <1>2, <1>4
<1> QED
  BY <1>1, <1>3, <1>5

LEMMA BodiesTyped ==
  ASSUME NEW t, NEW F, NEW b \in Bodies(t, F)
  PROVE  b \in [Sized(t) -> Nat]
  BY MessagesAssumption DEF Bodies

\* One end takes what the other does, of everything but UploadRequest.
LEMMA SameLimits ==
  ASSUME NEW t, t # "UploadRequest", NEW f
  PROVE  MaxSizeOf("reader", t, f) = MaxSizeOf("writer", t, f)
  BY DEF MaxSizeOf

LEMMA WrittenIsSound ==
  ASSUME NEW t \in Travelling, NEW b \in [Sized(t) -> Nat], NEW m, m.id = TypeId(t),
         m.body = Written(t, b), Fits("writer", m)
  PROVE  Sound(t, m)
<1>1. TypeOf(m.id) = t
  BY OneType
<1>2. UploadCut \in Nat
  BY SchemaAssumption
<1>3. m.body \in [Sized(t) -> Nat]
  BY <1>2 DEF Written
<1>4. ASSUME NEW f \in Sized(t) PROVE ~ (m.body[f] > MaxSizeOf("reader", t, f))
  <2>1. ~ (m.body[f] > MaxSizeOf("writer", t, f))
    BY <1>1, <1>3, <1>4 DEF Fits, Overlong
  <2>2. CASE t = "UploadRequest" /\ f = "stream"
    BY <1>2, <1>3, <2>2 DEF MaxSizeOf, Written
  <2>3. CASE ~ (t = "UploadRequest" /\ f = "stream")
    BY <2>1, <2>3 DEF MaxSizeOf
  <2> QED
    BY <2>2, <2>3
<1> QED
  BY <1>1, <1>3, <1>4 DEF Sound, Fits, Overlong

LEMMA CallTypes ==
  ASSUME CallsFine(calls), NEW i \in Waiting
  PROVE  /\ i \in 1..Len(calls) /\ calls[i] \in CallRecord /\ CallFine(calls[i])
         /\ calls[i].type \in Requests /\ calls[i].type \in Plain \cup DOMAIN OwnResponse
<1>1. DOMAIN calls = 1..Len(calls)
  BY LenProperties DEF CallsFine
<1>2. i \in 1..Len(calls)
  BY <1>1 DEF Waiting
<1>3. calls[i] \in CallRecord
  BY <1>2, ElementOfSeq DEF CallsFine
<1> QED
  BY <1>2, <1>3, MessagesAssumption DEF CallsFine, CallRecord

\* What a client can be told is a number.
LEMMA TellsNumber ==
  ASSUME IInv, NEW i \in Waiting, NEW error, Tells(calls[i], error)
  PROVE  error \in Nat
<1>1. CallFine(calls[i])
  BY CallTypes DEF IInv
<1>2. release.server \in 0..Len(Later)
  BY MessagesAssumption DEF IInv
<1>3. CASE calls[i].end \in Causes /\ error = Condition(release.server, calls[i].end)
  BY <1>1, <1>2, <1>3, CastPlaces DEF CallFine
<1> QED
  BY <1>3, ConstructedNumber DEF Tells, Success

\* What ends a connection leaves nothing under way and nobody waiting.
LEMMA DisconnectEnds ==
  ASSUME NEW all, CallsFine(all), Disconnect(all), release' = release
  PROVE  CallsFine(calls)' /\ WireInv' /\ up' \in BOOLEAN
<1>1. /\ all \in Seq(CallRecord) /\ Len(all) \in Nat /\ DOMAIN all = 1..Len(all)
      /\ \A i \in 1..Len(all) : all[i] \in CallRecord
  BY LenProperties, ElementOfSeq DEF CallsFine
<1>2. calls' = [i \in 1..Len(all) |->
                  IF all[i].at = "waiting" THEN [all[i] EXCEPT !.at = "failed"] ELSE all[i]]
  BY <1>1 DEF Disconnect
<1>3. calls' \in [1..Len(all) -> CallRecord]
  BY <1>1, <1>2 DEF CallRecord
<1>4. calls' \in Seq(CallRecord)
  BY <1>1, <1>3, SeqDef
<1>5. Len(calls') = Len(all)
  BY <1>1, <1>3, <1>4, LenProperties
<1>6. ASSUME NEW i \in 1..Len(all)
      PROVE  /\ calls'[i].at # "waiting"
             /\ calls'[i].type = all[i].type /\ calls'[i].end = all[i].end
             /\ calls'[i].error = all[i].error
             /\ calls'[i].at = "told" <=> all[i].at = "told"
  BY <1>1, <1>2 DEF CallRecord
<1>7. CallsFine(calls)'
  <2>1. ASSUME NEW i \in 1..Len(all) PROVE CallFine(calls[i])'
    BY <1>6, <2>1 DEF CallsFine, CallFine, Tells
  <2> QED
    BY <1>4, <1>5, <2>1 DEF CallsFine
<1>8. Waiting' = {}
  BY <1>3, <1>6 DEF Waiting
<1> QED
  BY <1>7, <1>8 DEF WireInv, Disconnect

\* What closes a connection is over a limit of its writer.
LEMMA WriterRefuses ==
  ASSUME NEW t \in DOMAIN Fields \cap Travelling, NEW m, NEW all, m.id = TypeId(t),
         m.body \in [Sized(t) -> Nat], Refuse("writer", m, all),
         \A c \in closedBy : ClosedFine(c), DOMAIN counts' = DOMAIN counts,
         \A f \in Sized(t) : m.body[f] > MaxSizeOf("writer", t, f) =>
            t \in Requests \/ f \in Own(t) \/ <<t, f>> \in DOMAIN counts
  PROVE  \A c \in closedBy' : ClosedFine(c)'
<1>1. TypeOf(m.id) = t
  BY OneType
<1>2. ASSUME NEW c \in closedBy' PROVE ClosedFine(c)'
  <2>1. CASE c \in closedBy
    BY <2>1 DEF ClosedFine
  <2>2. CASE c \notin closedBy
    <3>1. PICK f \in Overlong("writer", t, m.body) :
            c = [side |-> "writer", type |-> t, field |-> f, size |-> m.body[f]]
      BY <1>1, <1>2, <2>2 DEF Refuse
    <3>2. f \in Sized(t) /\ m.body[f] > MaxSizeOf("writer", t, f)
      BY <3>1 DEF Overlong
    <3> QED
      BY <3>1, <3>2 DEF ClosedFine
  <2> QED
    BY <2>1, <2>2
<1> QED
  BY <1>2

-----------------------------------------------------------------------------
(***************************************************************************)
(* One lemma for each action.                                              *)
(***************************************************************************)
LEMMA InitIInv == Init => IInv
<1> SUFFICES ASSUME Init PROVE IInv
  OBVIOUS
<1>1. Small \in Nat /\ \A d : KeptLimit(d) \in Nat
  BY SchemaAssumption DEF KeptLimit
<1>2. StoreInv
  BY <1>1 DEF Init, StoreInv
<1>3. CallsFine(calls) /\ Waiting = {}
  BY EmptySeq DEF Init, CallsFine, Waiting
<1> QED
  BY <1>2, <1>3 DEF Init, IInv, WireInv

LEMMA StutterIInv == IInv /\ UNCHANGED vars => IInv'
<1> SUFFICES ASSUME IInv, UNCHANGED vars PROVE IInv'
  OBVIOUS
<1>1. StoreInv' /\ \A c \in closedBy' : ClosedFine(c)'
  BY DEF vars, IInv, StoreInv, ClosedFine
<1>2. CallsFine(calls)'
  BY DEF vars, IInv, CallsFine, CallFine, Tells
<1>3. WireInv'
  BY DEF vars, IInv, WireInv, RequestFine, ResponseFine, Waiting, Sound, Fits, ErrorOf, Tells
<1> QED
  BY <1>1, <1>2, <1>3 DEF vars, IInv

LEMMA LoseIInv == IInv /\ Lose => IInv'
<1> SUFFICES ASSUME IInv, Lose PROVE IInv'
  OBVIOUS
<1>1. CallsFine(calls)' /\ WireInv' /\ up' \in BOOLEAN
  BY DisconnectEnds DEF IInv, Lose
<1> QED
  BY <1>1 DEF Lose, IInv, StoreInv, ClosedFine

LEMMA ConnectIInv == IInv /\ Connect => IInv'
  BY DEF Connect, IInv, StoreInv, CallsFine, CallFine, Tells, WireInv, RequestFine, ResponseFine,
         Waiting, Sound, Fits, ErrorOf, ClosedFine

LEMMA SendIInv == ASSUME IInv, NEW t \in Requests, Send(t) PROVE IInv'
<1> DEFINE all == Append(calls, Call(t))
<1>0. PICK n : n = Len(calls) + 1
  OBVIOUS
<1>1. t \in Plain \cup DOMAIN OwnResponse
  BY MessagesAssumption
<1>2. t \in DOMAIN Fields \cap Travelling
  BY <1>1, TypesKnown
<1>3. PICK body \in Bodies(t, Sized(t)) :
        LET m == [id |-> TypeId(t), body |-> Written(t, body), from |-> n]
        IN  IF Fits("writer", m)
            THEN /\ calls' = all /\ toServer' = toServer \cup {m}
                 /\ UNCHANGED <<up, toClient, closedBy>>
            ELSE Refuse("writer", m, all)
  BY <1>0, <1>2 DEF Send
<1> DEFINE m == [id |-> TypeId(t), body |-> Written(t, body), from |-> n]
<1>4. /\ UNCHANGED <<release, kept, counts, losses>> /\ up
      /\ body \in [Sized(t) -> Nat] /\ m.body \in [Sized(t) -> Nat]
  BY BodiesTyped, SchemaAssumption DEF Send, Written
<1>5. /\ calls \in Seq(CallRecord) /\ Len(calls) \in Nat /\ DOMAIN calls = 1..Len(calls)
      /\ \A i \in 1..Len(calls) : calls[i] \in CallRecord
  BY LenProperties, ElementOfSeq DEF IInv, CallsFine
<1>6. Constructed \in Nat
  BY ConstructedNumber
<1>7. Call(t) \in CallRecord
  BY <1>6 DEF Call, CallRecord
<1>8. /\ all \in Seq(CallRecord) /\ Len(all) = n /\ all[n] = Call(t)
      /\ \A i \in 1..Len(calls) : all[i] = calls[i]
  BY <1>0, <1>5, <1>7, AppendProperties
<1>9. CallsFine(all)
  <2>1. CallFine(Call(t))
    BY MessagesAssumption DEF CallFine, Call
  <2>2. ASSUME NEW i \in 1..n PROVE CallFine(all[i])
    <3>1. i \in 1..Len(calls) \/ i = n
      BY <1>0, <1>5
    <3> QED
      BY <1>8, <2>1, <3>1 DEF IInv, CallsFine
  <2> QED
    BY <1>8, <2>2 DEF CallsFine
<1>10. CASE Fits("writer", m)
  <2> HIDE DEF all
  <2>1. calls' = all /\ toServer' = toServer \cup {m} /\ UNCHANGED <<up, toClient, closedBy>>
    BY <1>3, <1>10
  <2>2. Sound(t, m)
    BY <1>2, <1>4, <1>10, WrittenIsSound
  <2>3. DOMAIN all = 1..n
    BY <1>8, LenProperties
  <2>4. Waiting' = Waiting \cup {n}
    <3>1. \A i \in 1..n : i \in 1..Len(calls) \/ i = n
      BY <1>0, <1>5
    <3>2. n \in 1..n /\ 1..Len(calls) \subseteq 1..n /\ all[n].at = "waiting"
      BY <1>0, <1>5, <1>8 DEF Call
    <3> QED
      BY <1>5, <1>8, <2>1, <2>3, <3>1, <3>2 DEF Waiting
  <2>5. n \notin Waiting
    BY <1>0, <1>5 DEF Waiting
  <2>6. \A i \in Waiting : calls'[i] = calls[i]
    BY <1>5, <1>8, <2>1 DEF Waiting
  <2>7. RequestFine(m)'
    BY <1>8, <2>1, <2>2, <2>4 DEF RequestFine, Call, Sound, Fits
  <2>8. \A q \in toServer : RequestFine(q)'
    BY <2>4, <2>6 DEF IInv, WireInv, RequestFine, Sound, Fits
  <2>9. \A a \in toClient : ResponseFine(a)'
    BY <1>4, <2>4, <2>6 DEF IInv, WireInv, ResponseFine, Sound, Fits, Tells, ErrorOf
  <2>10. \A q \in toServer : q.from # n
    BY <2>5 DEF IInv, WireInv, RequestFine
  <2>11. \A a \in toClient : a.to # n
    BY <2>5 DEF IInv, WireInv, ResponseFine
  <2>12. WireInv'
    <3>1. m.from = n
      OBVIOUS
    <3> HIDE DEF m
    <3> QED
      BY <1>4, <2>1, <2>4, <2>7, <2>8, <2>9, <2>10, <2>11, <3>1 DEF IInv, WireInv
  <2>13. CallsFine(calls)'
    BY <1>4, <1>9, <2>1 DEF CallsFine, CallFine, Tells
  <2> QED
    BY <1>4, <2>1, <2>12, <2>13 DEF IInv, StoreInv, ClosedFine
<1>11. CASE ~ Fits("writer", m)
  <2>1. Refuse("writer", m, all)
    BY <1>3, <1>11
  <2>2. CallsFine(calls)' /\ WireInv' /\ up' \in BOOLEAN
    BY <1>4, <1>9, <2>1, DisconnectEnds DEF Refuse
  <2>3. \A c \in closedBy' : ClosedFine(c)'
    <3> HIDE DEF m, all
    <3>1. m.id = TypeId(t) /\ m.body \in [Sized(t) -> Nat]
      BY <1>4 DEF m
    <3> QED
      BY <1>2, <1>4, <2>1, <3>1, WriterRefuses DEF IInv
  <2> QED
    BY <1>4, <2>2, <2>3 DEF IInv, StoreInv
<1> QED
  BY <1>10, <1>11

\* A response that fits is under way in place of its request; one that does not
\* is over a limit by what the server says of its own, or by the length of a list.
LEMMA RespondIInv ==
  ASSUME IInv, NEW m \in toServer, NEW end \in Causes \cup {"Success", "Unknown"},
         NEW r \in ResponseTypes(TypeOf(m.id)), NEW error, NEW own,
         Respond(m, end, r, error, own), UNCHANGED <<release, losses>>, StoreInv',
         end \in Causes => end \in Known(release.server),
         Tells([calls[m.from] EXCEPT !.end = end], IF HasError(r) THEN error ELSE Success),
         end = "Success" =>
           /\ Filled(r, m, own) \in [Sized(r) -> Nat]
           /\ \A f \in Sized(r) : Filled(r, m, own)[f] > MaxSizeOf("writer", r, f)
                => f \in Own(r) \/ <<r, f>> \in DOMAIN counts
  PROVE  IInv'
<1> DEFINE i == m.from
           t == calls[i].type
           called == [calls[i] EXCEPT !.end = end]
           all == [calls EXCEPT ![i].end = end]
<1>1. /\ i \in Waiting /\ Sound(t, m) /\ i \in 1..Len(calls) /\ calls[i] \in CallRecord
      /\ CallFine(calls[i]) /\ t \in Plain \cup DOMAIN OwnResponse
  BY CallTypes DEF IInv, WireInv, RequestFine
<1>2. TypeOf(m.id) = t
  BY <1>1, OneType DEF Sound
<1>3. /\ r \in ResponseTypes(t) /\ r \in DOMAIN Fields \cap Travelling /\ r # "UploadRequest"
  BY <1>1, <1>2, TypesKnown
<1>4. PICK b : b = IF end = "Success" THEN Filled(r, m, own) ELSE [f \in Sized(r) |-> 0]
  OBVIOUS
<1>5. /\ b \in [Sized(r) -> Nat]
      /\ \A f \in Sized(r) : b[f] > MaxSizeOf("writer", r, f)
           => f \in Own(r) \/ <<r, f>> \in DOMAIN counts
  <2>1. CASE end = "Success"
    BY <1>4, <2>1
  <2>2. CASE end # "Success"
    <3>1. b = [f \in Sized(r) |-> 0]
      BY <1>4, <2>2
    <3>2. \A f : MaxSizeOf("writer", r, f) \in Nat
      BY SchemaAssumption DEF MaxSizeOf
    <3> QED
      BY <3>1, <3>2
  <2> QED
    BY <2>1, <2>2
<1>6. PICK a : a = [id |-> TypeId(r), to |-> ResponseTo(m), error |-> error, body |-> b]
  OBVIOUS
<1>7. a.id = TypeId(r) /\ a.to = i /\ a.error = error /\ a.body = b /\ TypeOf(a.id) = r
  BY <1>3, <1>6, OneType DEF ResponseTo
<1>8. IF Fits("writer", a)
      THEN /\ calls' = all /\ toClient' = toClient \cup {a} /\ toServer' = toServer \ {m}
           /\ UNCHANGED <<up, closedBy>>
      ELSE Refuse("writer", a, all)
  BY <1>4, <1>6 DEF Respond
<1>9. /\ calls \in Seq(CallRecord) /\ Len(calls) \in Nat /\ DOMAIN calls = 1..Len(calls)
      /\ called \in CallRecord
      /\ called.type = t /\ called.at = "waiting" /\ called.end = end
      /\ called.error = calls[i].error
  <2>1. calls \in Seq(CallRecord) /\ Len(calls) \in Nat /\ DOMAIN calls = 1..Len(calls)
    BY LenProperties DEF IInv, CallsFine
  <2>2. calls[i].at = "waiting"
    BY <1>1 DEF Waiting
  <2> QED
    BY <1>1, <2>1, <2>2 DEF CallRecord
<1>10. /\ all \in Seq(CallRecord) /\ Len(all) = Len(calls) /\ all[i] = called
       /\ \A j \in 1..Len(calls) : j # i => all[j] = calls[j]
       /\ DOMAIN all = 1..Len(calls)
  <2>1. all = [calls EXCEPT ![i] = called]
    BY <1>1, <1>9
  <2> HIDE DEF all, called, i
  <2> QED
    BY <1>1, <1>9, <2>1, ChangeOne, LenProperties
<1>11. CallsFine(all)
  <2>1. CallFine(called)
    BY <1>1, <1>9 DEF CallFine
  <2>2. ASSUME NEW j \in 1..Len(calls) PROVE CallFine(all[j])
    BY <1>10, <2>1 DEF IInv, CallsFine
  <2> QED
    BY <1>10, <2>2 DEF CallsFine
<1>12. CASE Fits("writer", a)
  <2> HIDE DEF all, called
  <2>1. /\ calls' = all /\ toClient' = toClient \cup {a} /\ toServer' = toServer \ {m}
        /\ UNCHANGED <<up, closedBy>>
    BY <1>8, <1>12
  <2>2. CallsFine(calls)'
    BY <1>11, <2>1 DEF CallsFine, CallFine, Tells
  <2>3. Waiting' = Waiting
    <3>1. ASSUME NEW j \in 1..Len(calls) PROVE calls'[j].at = calls[j].at
      <4>1. calls[i].at = "waiting"
        BY <1>1 DEF Waiting
      <4> QED
        BY <1>9, <1>10, <2>1, <4>1
    <3> QED
      BY <1>9, <1>10, <2>1, <3>1 DEF Waiting
  <2>4. Sound(r, a)
    BY <1>3, <1>5, <1>7, <1>12, SameLimits DEF Sound, Fits, Overlong
  <2>5. ResponseFine(a)'
    <3>1. Tells(calls[a.to], ErrorOf(a))'
      <4>1. ErrorOf(a) = IF HasError(r) THEN error ELSE Success
        BY <1>7 DEF ErrorOf
      <4> QED
        BY <1>7, <1>10, <2>1, <4>1 DEF called, Tells, ErrorOf
    <3>2. calls'[a.to].type = t
      BY <1>7, <1>9, <1>10, <2>1
    <3> QED
      BY <1>1, <1>3, <1>7, <2>3, <2>4, <3>1, <3>2 DEF ResponseFine, Sound, Fits
  <2>6. ASSUME NEW q \in toServer' PROVE RequestFine(q)' /\ q.from # i
    <3>1. q \in toServer /\ q # m
      BY <2>1
    <3>2. RequestFine(q) /\ q.from # i
      BY <3>1 DEF IInv, WireInv
    <3>3. q.from \in 1..Len(calls) /\ calls'[q.from] = calls[q.from]
      BY <1>9, <1>10, <2>1, <3>2 DEF RequestFine, Waiting
    <3> QED
      BY <2>3, <3>2, <3>3 DEF RequestFine, Sound, Fits
  <2>7. ASSUME NEW q \in toClient PROVE ResponseFine(q)' /\ q.to # i
    <3>1. ResponseFine(q) /\ q.to # i
      BY DEF IInv, WireInv
    <3>2. q.to \in 1..Len(calls) /\ calls'[q.to] = calls[q.to]
      BY <1>9, <1>10, <2>1, <3>1 DEF ResponseFine, Waiting
    <3> QED
      BY <2>1, <2>3, <3>1, <3>2 DEF ResponseFine, Sound, Fits, Tells, ErrorOf
  <2>8. ASSUME NEW j \in Waiting'
        PROVE  (\E q \in toServer' : q.from = j) \/ (\E q \in toClient' : q.to = j)
    <3>1. CASE j = i
      BY <1>7, <2>1, <3>1
    <3>2. CASE j # i
      BY <2>1, <2>3, <3>2 DEF IInv, WireInv
    <3> QED
      BY <3>1, <3>2
  <2>9. up
    BY DEF IInv, WireInv
  <2>10. WireInv'
    <3> HIDE DEF i, t
    <3>1. \A q \in toServer' : q \in toServer
      BY <2>1
    <3>2. \A q \in toClient' : q \in toClient \/ q = a
      BY <2>1
    <3> QED
      BY <1>7, <2>1, <2>5, <2>6, <2>7, <2>8, <2>9, <3>1, <3>2 DEF IInv, WireInv
  <2> QED
    BY <2>1, <2>2, <2>10 DEF IInv, ClosedFine, StoreInv
<1>13. CASE ~ Fits("writer", a)
  <2> HIDE DEF all, called, i, t
  <2>1. Refuse("writer", a, all)
    BY <1>8, <1>13
  <2>2. CallsFine(calls)' /\ WireInv' /\ up' \in BOOLEAN
    BY <1>11, <2>1, DisconnectEnds DEF Refuse
  <2>3. DOMAIN counts' = DOMAIN counts
    BY DEF IInv, StoreInv
  <2>4. \A c \in closedBy' : ClosedFine(c)'
    BY <1>3, <1>5, <1>7, <2>1, <2>3, WriterRefuses DEF IInv
  <2> QED
    BY <2>2, <2>4 DEF IInv
<1> QED
  BY <1>12, <1>13

\* The server keeps no more than the limit of the field it was given in.
LEMMA LearnBounds ==
  ASSUME IInv, NEW m \in toServer, Learn(TypeOf(m.id), m)
  PROVE  StoreInv'
<1> DEFINE t == TypeOf(m.id)
<1>1. Sound(t, m)
  BY OneType DEF IInv, WireInv, RequestFine, Sound
<1>2. kept \in [{k[3] : k \in Kept} -> Nat] /\ DOMAIN kept = {k[3] : k \in Kept}
  BY DEF IInv, StoreInv
<1>3. ASSUME NEW d \in DOMAIN kept PROVE kept'[d] \in Nat /\ kept'[d] <= KeptLimit(d)
  <2>1. CASE \E k \in Kept : k[1] = t /\ k[3] = d
    <3>1. PICK k \in Kept : k[1] = t /\ k[3] = d /\ kept'[d] = m.body[k[2]]
      BY <2>1 DEF Learn
    <3>2. k[2] \in Sized(t) /\ MaxSizeOf("reader", t, k[2]) = KeptLimit(d)
      BY <3>1, KeptFields, KeptLimits
    <3>3. m.body[k[2]] \in Nat /\ ~ (m.body[k[2]] > MaxSizeOf("reader", t, k[2]))
      BY <1>1, <3>2 DEF Sound, Fits, Overlong
    <3>4. KeptLimit(d) \in Nat
      BY SchemaAssumption DEF KeptLimit
    <3> QED
      BY <3>1, <3>2, <3>3, <3>4
  <2>2. CASE ~ \E k \in Kept : k[1] = t /\ k[3] = d
    BY <2>2 DEF Learn, IInv, StoreInv
  <2> QED
    BY <2>1, <2>2
<1>4. DOMAIN kept' = DOMAIN kept /\ kept' \in [{k[3] : k \in Kept} -> Nat]
  BY <1>2, <1>3 DEF Learn
<1>5. counts' \in [{<<k[2], k[3]>> : k \in Counted} -> Nat]
  BY DEF Learn, IInv, StoreInv
<1> QED
  BY <1>3, <1>4, <1>5 DEF StoreInv

\* What a response shows of what was kept or asked is within its limits.
LEMMA FilledBounds ==
  ASSUME IInv, StoreInv', NEW m \in toServer, NEW r \in ResponseTypes(TypeOf(m.id)),
         NEW own \in [Sized(r) -> Nat]
  PROVE  /\ Filled(r, m, own) \in [Sized(r) -> Nat]
         /\ \A f \in Sized(r) : Filled(r, m, own)[f] > MaxSizeOf("writer", r, f)
              => f \in Own(r) \/ <<r, f>> \in DOMAIN counts
<1> DEFINE t == TypeOf(m.id)
           B == Filled(r, m, own)
<1>1. Sound(t, m) /\ t \in Plain \cup DOMAIN OwnResponse
  BY OneType, CallTypes DEF IInv, WireInv, RequestFine, Sound
<1>2. DOMAIN counts = {<<k[2], k[3]>> : k \in Counted} /\ DOMAIN counts' = DOMAIN counts
  BY DEF IInv, StoreInv
<1>3. ASSUME NEW f \in Sized(r)
      PROVE  /\ B[f] \in Nat
             /\ B[f] > MaxSizeOf("writer", r, f) => f \in Own(r) \/ <<r, f>> \in DOMAIN counts
  <2>1. CASE \E s \in Shown : s[1] = r /\ s[2] = f
    <3>1. PICK s \in Shown : s[1] = r /\ s[2] = f /\ B[f] = kept'[s[3]]
      BY <2>1 DEF Filled
    <3>2. PICK k \in Kept : k[3] = s[3]
      BY ShownIsKept
    <3>3. kept'[s[3]] \in Nat /\ kept'[s[3]] <= KeptLimit(s[3])
      BY <3>2 DEF StoreInv
    <3>4. MaxSizeOf("writer", r, f) = KeptLimit(s[3]) /\ KeptLimit(s[3]) \in Nat
      BY <3>1, ShownLimits, SchemaAssumption DEF KeptLimit
    <3> QED
      BY <3>1, <3>3, <3>4
  <2>2. CASE ~ (\E s \in Shown : s[1] = r /\ s[2] = f) /\ <<r, f>> \in DOMAIN counts
    <3>1. B[f] = counts'[<<r, f>>]
      BY <1>2, <2>2 DEF Filled
    <3> QED
      BY <1>2, <2>2, <3>1 DEF StoreInv
  <2>3. CASE /\ ~ \E s \in Shown : s[1] = r /\ s[2] = f
             /\ <<r, f>> \notin DOMAIN counts
             /\ \E a \in Asked : a[1] = r /\ a[2] = f
    <3>1. PICK a \in Asked : a[1] = r /\ a[2] = f /\ B[f] = m.body[a[3]]
      BY <1>2, <2>3 DEF Filled
    <3>2. a[3] \in Sized(t) /\ MaxSizeOf("writer", t, a[3]) = MaxSizeOf("writer", r, f)
      BY <1>1, <3>1, AskedFits
    <3>3. m.body[a[3]] \in Nat /\ ~ (m.body[a[3]] > MaxSizeOf("writer", t, a[3]))
      BY <1>1, <3>2 DEF Sound, Fits, Overlong
    <3> QED
      BY <3>1, <3>2, <3>3
  <2>4. CASE /\ ~ \E s \in Shown : s[1] = r /\ s[2] = f
             /\ <<r, f>> \notin DOMAIN counts
             /\ ~ \E a \in Asked : a[1] = r /\ a[2] = f
    <3>1. B[f] = own[f]
      BY <1>2, <2>4 DEF Filled
    <3>2. \A c \in Counted : c[2] # r \/ c[3] # f
      BY <1>2, <2>4
    <3>3. f \in Own(r)
      BY <2>4, <3>2 DEF Own
    <3> QED
      BY <3>1, <3>3
  <2> QED
    BY <2>1, <2>2, <2>3, <2>4
<1>4. Filled(r, m, own) = [f \in Sized(r) |-> B[f]]
  BY DEF Filled
<1> HIDE DEF B
<1>5. Filled(r, m, own) = B
  BY DEF B
<1> QED
  BY <1>3, <1>4, <1>5

LEMMA ServeIInv == ASSUME IInv, NEW m \in toServer, Serve(m) PROVE IInv'
<1> DEFINE t == TypeOf(m.id)
           typed == IF t \in Plain THEN "Response" ELSE OwnResponse[t]
<1>1. /\ Sound(t, m) /\ t = calls[m.from].type /\ m.from \in Waiting
      /\ t \in Requests /\ t \in Plain \cup DOMAIN OwnResponse
      /\ calls[m.from] \in CallRecord
  BY OneType, CallTypes DEF IInv, WireInv, RequestFine, Sound
<1>2. Handle(m) /\ UNCHANGED <<release, losses>>
  BY <1>1 DEF Serve, Sound
<1>3. typed \in ResponseTypes(t)
  BY <1>1 DEF ResponseTypes
<1>4. /\ \A end : [calls[m.from] EXCEPT !.end = end].end = end
      /\ \A end : [calls[m.from] EXCEPT !.end = end].type = t
  BY <1>1 DEF CallRecord
<1>5. CASE /\ Learn(t, m)
           /\ \E own \in Bodies(typed, Own(typed)) : Respond(m, "Success", typed, Success, own)
  <2>1. PICK own \in Bodies(typed, Own(typed)) : Respond(m, "Success", typed, Success, own)
    BY <1>5
  <2>2. StoreInv' /\ own \in [Sized(typed) -> Nat]
    BY <1>5, <2>1, LearnBounds, BodiesTyped
  <2>3. Tells([calls[m.from] EXCEPT !.end = "Success"], Success)
    BY <1>4 DEF Tells
  <2>4. "Success" \in Causes => "Success" \in Known(release.server)
    BY MessagesAssumption, CatalogAssumption
  <2> HIDE DEF typed
  <2> QED
    BY <1>2, <1>3, <2>1, <2>2, <2>3, <2>4, FilledBounds, RespondIInv DEF Success
<1>6. ASSUME NEW r \in ResponseTypes(t), NEW e \in Causes \cap Known(release.server), HasError(r),
             Respond(m, e, r, Condition(release.server, e), <<>>), UNCHANGED <<kept, counts>>
      PROVE  IInv'
  <2>1. PICK error : error = Condition(release.server, e)
    OBVIOUS
  <2>2. StoreInv'
    BY <1>6 DEF IInv, StoreInv
  <2>3. Tells([calls[m.from] EXCEPT !.end = e], error)
    BY <1>4, <1>6, <2>1 DEF Tells
  <2>4. e # "Success"
    BY <1>6, MessagesAssumption, CatalogAssumption
  <2>5. Respond(m, e, r, error, <<>>)
    BY <1>6, <2>1
  <2> QED
    BY <1>2, <1>6, <2>2, <2>3, <2>4, <2>5, RespondIInv
<1>7. CASE Respond(m, "Unknown", typed, Constructed, <<>>) /\ UNCHANGED <<kept, counts>>
  <2>1. PICK error : error = Constructed
    OBVIOUS
  <2>2. StoreInv'
    BY <1>7 DEF IInv, StoreInv
  <2>3. Tells([calls[m.from] EXCEPT !.end = "Unknown"], IF HasError(typed) THEN error ELSE Success)
    <3>1. CASE HasError(typed)
      BY <1>4, <2>1, <3>1 DEF Tells
    <3>2. CASE ~ HasError(typed)
      BY <1>1, <1>3, <1>4, <3>2, WithoutError DEF Tells
    <3> QED
      BY <3>1, <3>2
  <2>4. "Unknown" \in Causes => "Unknown" \in Known(release.server)
    BY MessagesAssumption, CatalogAssumption
  <2>5. Respond(m, "Unknown", typed, error, <<>>)
    BY <1>7, <2>1
  <2> HIDE DEF typed
  <2> QED
    BY <1>2, <1>3, <2>2, <2>3, <2>4, <2>5, RespondIInv
<1> QED
  BY <1>2, <1>5, <1>6, <1>7 DEF Handle

LEMMA ReceiveIInv == ASSUME IInv, NEW a \in toClient, Receive(a) PROVE IInv'
<1> DEFINE i == a.to
           c == [calls[i] EXCEPT !.at = "told", !.error = ErrorOf(a)]
<1>1. /\ i \in Waiting /\ Tells(calls[i], ErrorOf(a))
      /\ \E r \in ResponseTypes(calls[i].type) : Sound(r, a)
  BY DEF IInv, WireInv, ResponseFine
<1>2. i \in 1..Len(calls) /\ calls[i] \in CallRecord /\ CallFine(calls[i])
  BY <1>1, CallTypes DEF IInv
<1>3. /\ toClient' = toClient \ {a}
      /\ calls' = [calls EXCEPT ![a.to].at = "told",
                                ![a.to].error = MakeError(ErrorOf(a))]
      /\ UNCHANGED <<up, toServer, closedBy, release, kept, counts, losses>>
  BY <1>1 DEF Receive, Sound
<1>4. /\ calls \in Seq(CallRecord) /\ Len(calls) \in Nat /\ DOMAIN calls = 1..Len(calls)
  BY LenProperties DEF IInv, CallsFine
<1>5. calls' = [calls EXCEPT ![i] = c]
  BY <1>1, <1>2, <1>3, <1>4 DEF MakeError
<1>6. ErrorOf(a) \in Nat
  BY <1>1, TellsNumber DEF IInv
<1>7. /\ c \in CallRecord /\ c.type = calls[i].type /\ c.end = calls[i].end
      /\ c.at = "told" /\ c.error = ErrorOf(a)
  <2>1. i \in Nat
    BY <1>2, <1>4
  <2> DEFINE e == ErrorOf(a)
  <2> HIDE DEF i, e
  <2> QED
    BY <1>2, <1>6, <2>1 DEF CallRecord, e
<1> HIDE DEF c
<1>8. /\ calls' \in Seq(CallRecord) /\ Len(calls') = Len(calls) /\ calls'[i] = c
      /\ \A j \in 1..Len(calls) : j # i => calls'[j] = calls[j]
      /\ DOMAIN calls' = 1..Len(calls)
  <2> HIDE DEF i
  <2> QED
    BY <1>2, <1>4, <1>5, <1>7, ChangeOne, LenProperties
<1>9. CallsFine(calls)'
  <2>1. CallFine(calls[i])'
    BY <1>1, <1>2, <1>3, <1>7, <1>8 DEF CallFine, Tells
  <2>2. ASSUME NEW j \in 1..Len(calls), j # i PROVE CallFine(calls[j])'
    <3>1. CallFine(calls[j]) /\ calls'[j] = calls[j]
      BY <1>8, <2>2 DEF IInv, CallsFine
    <3> QED
      BY <1>3, <3>1 DEF CallFine, Tells
  <2> QED
    BY <1>8, <2>1, <2>2 DEF CallsFine
<1>10. Waiting' = Waiting \ {i}
  <2>1. ASSUME NEW j \in 1..Len(calls) PROVE (j \in Waiting') <=> (j \in Waiting /\ j # i)
    BY <1>4, <1>7, <1>8 DEF Waiting
  <2>2. Waiting' \subseteq 1..Len(calls) /\ Waiting \subseteq 1..Len(calls)
    BY <1>4, <1>8 DEF Waiting
  <2> QED
    BY <2>1, <2>2
<1>11. \A j \in Waiting' : j # i /\ j \in 1..Len(calls) /\ calls'[j] = calls[j]
  BY <1>4, <1>8, <1>10 DEF Waiting
<1>12. \A q \in toServer' : RequestFine(q)'
  <2>1. ASSUME NEW q \in toServer PROVE RequestFine(q) /\ q.from # i
    BY DEF IInv, WireInv
  <2> QED
    BY <1>3, <1>10, <1>11, <2>1 DEF RequestFine, Sound, Fits
<1>13. \A q \in toClient' : ResponseFine(q)'
  <2>1. ASSUME NEW q \in toClient' PROVE q \in toClient /\ ResponseFine(q) /\ q.to # i
    BY <1>3 DEF IInv, WireInv
  <2>2. ASSUME NEW q \in toClient' PROVE ResponseFine(q)'
    <3>1. q.to \in Waiting' /\ calls'[q.to] = calls[q.to]
      BY <1>10, <1>11, <2>1 DEF ResponseFine
    <3> QED
      BY <1>3, <2>1, <3>1 DEF ResponseFine, Sound, Fits, Tells, ErrorOf
  <2> QED
    BY <2>2
<1>14. WireInv'
  <2>1. ASSUME NEW j \in Waiting'
        PROVE  (\E q \in toServer' : q.from = j) \/ (\E q \in toClient' : q.to = j)
    BY <1>3, <1>10, <1>11 DEF IInv, WireInv
  <2>2. \A q \in toClient' : q \in toClient
    BY <1>3
  <2> HIDE DEF i
  <2> QED
    BY <1>3, <1>12, <1>13, <2>1, <2>2 DEF IInv, WireInv
<1> QED
  BY <1>3, <1>9, <1>14 DEF IInv, StoreInv, ClosedFine

-----------------------------------------------------------------------------
(***************************************************************************)
(* FrontMessages keeps its invariant.                                      *)
(***************************************************************************)
THEOREM MessagesInvariant == Spec => []IInv
<1>1. IInv /\ [Next]_vars => IInv'
  BY StutterIInv, LoseIInv, ConnectIInv, SendIInv, ServeIInv, ReceiveIInv DEF Next, Transfer
<1> QED
  BY InitIInv, <1>1, PTL DEF Spec

(***************************************************************************)
(* Values have their types, and messages belong to requests that wait.     *)
(***************************************************************************)
THEOREM MessagesTyped == Spec => []TypeOK
<1>1. IInv => TypeOK
  <2> SUFFICES ASSUME IInv PROVE TypeOK
    OBVIOUS
  <2>1. /\ calls \in Seq(CallRecord) /\ Len(calls) \in Nat /\ DOMAIN calls = 1..Len(calls)
        /\ \A i \in 1..Len(calls) : calls[i] \in CallRecord /\ CallFine(calls[i])
    BY LenProperties, ElementOfSeq DEF IInv, CallsFine
  <2>2. ASSUME NEW i \in DOMAIN calls
        PROVE  /\ calls[i].type \in Requests
               /\ calls[i].at \in {"waiting", "told", "failed"}
               /\ calls[i].end \in Causes \cup {"none", "Success", "Unknown"}
               /\ calls[i].error \in Nat
    <3>1. calls[i] \in CallRecord /\ CallFine(calls[i]) /\ i \in 1..Len(calls)
      BY <2>1
    <3> QED
      BY <2>1, <3>1 DEF CallRecord
  <2>3. {m.from : m \in toServer} \cup {a.to : a \in toClient} \subseteq Waiting
    BY DEF IInv, WireInv, RequestFine, ResponseFine
  <2>4. kept \in [DOMAIN kept -> Nat] /\ counts \in [DOMAIN counts -> Nat]
    BY DEF IInv, StoreInv
  <2>5. \A c \in closedBy : c.size > MaxSizeOf(c.side, c.type, c.field)
    BY DEF IInv, ClosedFine
  <2> QED
    BY <2>2, <2>3, <2>4, <2>5 DEF IInv, TypeOK
<1> QED
  BY <1>1, MessagesInvariant, PTL

(***************************************************************************)
(* What a client could give in a request can be shown to all.              *)
(***************************************************************************)
THEOREM GivenCanBeShown == Spec => []AcceptedIsServable
<1>1. IInv => AcceptedIsServable
  BY DEF IInv, ClosedFine, AcceptedIsServable
<1> QED
  BY <1>1, MessagesInvariant, PTL

(***************************************************************************)
(* No reader refuses what a writer has let pass.                           *)
(***************************************************************************)
THEOREM WrittenIsRead == Spec => []ReaderTakes
<1>1. IInv => ReaderTakes
  BY DEF IInv, ClosedFine, ReaderTakes
<1> QED
  BY <1>1, MessagesInvariant, PTL

LEMMA ReleaseBounds ==
  IInv => release.server \in 0..Len(Later) /\ release.client \in 0..Len(Later)
  BY MessagesAssumption DEF IInv

(***************************************************************************)
(* A success that a client reads is one, but for two responses.            *)
(***************************************************************************)
THEOREM SuccessIsTrue == Spec => []NoFalseSuccess
<1>1. IInv => NoFalseSuccess
  <2> SUFFICES ASSUME IInv, NEW i \in DOMAIN calls, Message(i) = "Success"
               PROVE  \/ calls[i].end = "Success"
                      \/ calls[i].type \in {"CaptchaRequest", "FetchRequest"}
    BY DEF NoFalseSuccess
  <2>1. calls[i].error = Success /\ Success = 0
    BY ReleaseBounds, SuccessIsZero DEF Message, Success
  <2>2. CallFine(calls[i])
    BY LenProperties DEF IInv, CallsFine
  <2>3. Constructed # 0
    BY ConstructedNumber
  <2>4. calls[i].at = "told" /\ Tells(calls[i], 0)
    BY <2>1, <2>2, <2>3 DEF CallFine
  <2>5. ASSUME calls[i].end \in Causes, 0 = Condition(release.server, calls[i].end) PROVE FALSE
    <3>1. calls[i].end \in Known(release.server)
      BY <2>2, <2>5 DEF CallFine
    <3> QED
      BY <2>5, <3>1, ReleaseBounds, CastPlaces
  <2> QED
    BY <2>3, <2>4, <2>5 DEF Tells
<1> QED
  BY <1>1, MessagesInvariant, PTL

(***************************************************************************)
(* An error keeps its name between releases, or is shown as unknown.       *)
(***************************************************************************)
THEOREM ErrorsKeepNames == Spec => []ToldAsRaised
<1>1. IInv => ToldAsRaised
  <2> SUFFICES ASSUME IInv, NEW i \in DOMAIN calls, calls[i].at = "told", calls[i].end \in Causes
               PROVE  LET e == calls[i].end
                          known == Known(release.client)
                      IN  /\ Message(i) = IF e \in known THEN e ELSE "Unknown"
                          /\ {c \in known : Condition(release.client, c) = calls[i].error}
                               = {e} \cap known
    BY DEF ToldAsRaised
  <2>1. CallFine(calls[i])
    BY LenProperties DEF IInv, CallsFine
  <2>2. calls[i].end \notin {"Success", "Unknown"}
    BY MessagesAssumption, CatalogAssumption
  <2>3. calls[i].error = Condition(release.server, calls[i].end)
    BY <2>1, <2>2 DEF CallFine, Tells
  <2>4. calls[i].end \in Known(release.server)
    BY <2>1 DEF CallFine
  <2> QED
    BY <2>3, <2>4, ReleaseBounds, ConditionTravels DEF Message
<1> QED
  BY <1>1, MessagesInvariant, PTL

=============================================================================
