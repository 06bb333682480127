----------------------------- MODULE FrontSchema -----------------------------
(***************************************************************************)
(* The messages of the front protocols: what each of them holds, how much  *)
(* of it may travel, under which number its type does, and which answers   *)
(* can be made from which requests (front_protocol_core.hpp,               *)
(* front_protocol_auth.hpp, front_protocol_main.hpp, utility/protocol.hpp).*)
(*                                                                         *)
(* A field here is a string, a container or a stream, by the name it has   *)
(* in its `reflect' section, together with "error".  Integers travel       *)
(* whole.  The fields of a record inside a message are fields of the       *)
(* message; for a container of strings one field stands for their number   *)
(* and their lengths, which have the same limit.                           *)
(***************************************************************************)
EXTENDS Naturals, Sequences

CONSTANTS
  Small,      \* 1024 * 4, the limit metadata_factory gives
  UploadCut,  \* 100 * 1024, the stream of an UploadRequest
  Blob,       \* 1024 * 1024, the images
  Unlimited   \* more than anything has

ASSUME SchemaAssumption ==
  /\ {Small, UploadCut, Blob, Unlimited} \subseteq Nat
  /\ Small < UploadCut /\ UploadCut < Blob /\ Blob < Unlimited

-----------------------------------------------------------------------------
\* Records inside messages.
Application == {"application.name"}
ApplicationListItem == {"item.id", "item.unique", "item.name"}
ListStoreNode == {"node.name"}
AppItemEntry == {"entry.name"}
Shortcut == {"shortcut.name", "command", "arguments", "run_folder", "icon"}
Media == {"media.name", "entry_vec", "thumbnail_path", "media.path"}
Configuration ==
  {"configuration.name", "directory", "os_vec", "mount_vec", "exe_vec", "shortcut_vec",
   "property_vec"} \cup Shortcut \cup Media
Build ==
  {"build.name", "tag", "dictionary_dq", "build.property_vec", "configuration_vec"}
    \cup Configuration

Told == {"error", "message"}
Captcha == {"captcha_text", "captcha_token"}

CoreMessages ==
  [AuthRequest  |-> {"pass", "user"} \cup Captcha,
   AuthResponse |-> Told,
   InitResponse |-> Told,
   Response     |-> Told]

AuthMessages ==
  [CaptchaRequest  |-> {},
   CaptchaResponse |-> {"captcha_token", "captcha_image", "captcha_audio"},
   CreateRequest   |-> {"pass", "user", "email"} \cup Captcha,
   FetchRequest    |-> {},
   FetchResponse   |-> {"user", "email"},
   AmendRequest    |-> {"ticket", "new_pass", "new_user", "new_email", "pass"} \cup Captcha,
   DeleteRequest   |-> {"ticket", "pass", "reason"},
   ValidateRequest |-> {"ticket", "text"} \cup Captcha,
   ResetRequest    |-> {"login", "pass"} \cup Captcha]

ListMessages ==
  [ListOSesRequest           |-> {},
   ListOSesResponse          |-> Told \cup {"osvec"},
   ListAppsRequest           |-> {},
   ListAppsResponse          |-> Told \cup {"app_vec"} \cup ApplicationListItem,
   FetchBuildUpdatesRequest  |-> {"lang", "os_id", "app_id_vec"},
   FetchBuildUpdatesResponse |-> Told \cup {"app_vec", "build_unique"}]

StoreMessages ==
  [ListStoreRequest   |-> {"storage_id", "path"},
   ListStoreResponse  |-> Told \cup {"node_dq"} \cup ListStoreNode,
   FetchStoreRequest  |-> {"storage_id", "path"},
   FetchStoreResponse |-> Told \cup {"stream"},
   UploadRequest      |-> {"stream"}]

FetchMessages ==
  [FetchAppRequest           |-> {"application_id", "os_id"},
   ChangeAppItemStateRequest |-> {"application_id", "os_id"} \cup AppItemEntry,
   FetchAppResponse          |-> Told \cup {"item_vec"} \cup Application \cup AppItemEntry,
   FetchBuildRequest         |-> {"application_id", "build_id"},
   FetchBuildResponse        |-> Told \cup {"storage_id", "image_blob"} \cup Build,
   FetchBuildConfigurationRequest |->
     {"application_id", "build_id", "lang", "os_id", "property_vec"},
   FetchBuildConfigurationResponse |->
     Told \cup {"app_unique", "build_unique", "build_storage_id", "media_storage_id",
                "image_blob"} \cup Configuration]

CreateMessages ==
  [CreateAppRequest   |-> Application,
   CreateBuildRequest |-> {"app_id", "unique", "sha_sum", "image_blob"} \cup Build,
   CreateMediaRequest |-> {"app_id", "unique", "sha_sum"},
   AcquireAppRequest  |-> {"app_id"}]

\* What a message holds, by its type.
Fields ==
  [t \in DOMAIN CoreMessages \cup DOMAIN AuthMessages \cup DOMAIN ListMessages
          \cup DOMAIN StoreMessages \cup DOMAIN FetchMessages \cup DOMAIN CreateMessages |->
     IF t \in DOMAIN CoreMessages THEN CoreMessages[t]
     ELSE IF t \in DOMAIN AuthMessages THEN AuthMessages[t]
     ELSE IF t \in DOMAIN ListMessages THEN ListMessages[t]
     ELSE IF t \in DOMAIN StoreMessages THEN StoreMessages[t]
     ELSE IF t \in DOMAIN FetchMessages THEN FetchMessages[t]
     ELSE CreateMessages[t]]

HasError(t) == "error" \in Fields[t]
Sized(t) == Fields[t] \ {"error"}

-----------------------------------------------------------------------------
\* Variant: the image of an application's build has no limit of its own.
BlobsNoBuildImage == {<<"CaptchaResponse", "captcha_image">>, <<"CreateBuildRequest", "image_blob">>,
                      <<"FetchBuildConfigurationResponse", "image_blob">>}

\* The fields whose maxSize is 1 MiB.
Blobs ==
  {<<"CaptchaResponse", "captcha_image">>, <<"CreateBuildRequest", "image_blob">>,
   <<"FetchBuildResponse", "image_blob">>, <<"FetchBuildConfigurationResponse", "image_blob">>}

\* metadata_factory, and what the messages put in its place.  Only the reader
\* of an UploadRequest has a limit for its stream.
MaxSizeOf(side, t, f) ==
  IF f = "stream"
  THEN IF t = "UploadRequest" /\ side = "reader" THEN UploadCut ELSE Unlimited
  ELSE IF <<t, f>> \in Blobs THEN Blob ELSE Small

Overlong(side, t, body) == {f \in DOMAIN body : body[f] > MaxSizeOf(side, t, f)}

\* Variant: the whole of the file is written.
WrittenWhole(t, body) == body

\* What a writer takes of a body: of the file of an UploadRequest the first
\* 100 KiB, of everything else all.
Written(t, body) ==
  [f \in DOMAIN body |-> IF t = "UploadRequest" /\ body[f] > UploadCut THEN UploadCut ELSE body[f]]

-----------------------------------------------------------------------------
(***************************************************************************)
(* configure_protocol of the three protocols: the numbers that types are   *)
(* registered under, those of requests, of responses and of the messages   *)
(* of VersionHandshake.                                                    *)
(***************************************************************************)
CoreNumbers == [InitResponse |-> 1, AuthRequest |-> 2, AuthResponse |-> 3, Response |-> 4]

AuthNumbers ==
  [auth_InitRequest |-> 1, CreateRequest |-> 2, ValidateRequest |-> 3, AmendRequest |-> 4,
   FetchRequest |-> 5, FetchResponse |-> 6, ResetRequest |-> 7, CaptchaRequest |-> 8,
   CaptchaResponse |-> 9, DeleteRequest |-> 10]

MainNumbers ==
  [main_InitRequest |-> 1, ListOSesRequest |-> 2, ListOSesResponse |-> 3, ListAppsRequest |-> 4,
   ListAppsResponse |-> 5, ListStoreRequest |-> 6, ListStoreResponse |-> 7,
   FetchStoreRequest |-> 8, FetchStoreResponse |-> 9, CreateBuildRequest |-> 10,
   CreateMediaRequest |-> 11, UploadRequest |-> 12, FetchAppRequest |-> 13,
   FetchAppResponse |-> 14, ChangeAppItemStateRequest |-> 15, FetchBuildRequest |-> 16,
   FetchBuildResponse |-> 17, FetchBuildConfigurationRequest |-> 18,
   FetchBuildConfigurationResponse |-> 19, FetchBuildUpdatesRequest |-> 20,
   FetchBuildUpdatesResponse |-> 21, CreateAppRequest |-> 22, AcquireAppRequest |-> 23]

\* By protocol_id, which is 0, 1 and 2.
Numbers(p) == IF p = 0 THEN CoreNumbers ELSE IF p = 1 THEN AuthNumbers ELSE MainNumbers

Protocol(t) == CHOOSE p \in 0..2 : t \in DOMAIN Numbers(p)

\* What a message of type t travels under, and what a reader takes it for.
TypeId(t) == <<Protocol(t), Numbers(Protocol(t))[t]>>

TypeOf(id) == CHOOSE t \in DOMAIN Numbers(id[1]) : Numbers(id[1])[t] = id[2]

-----------------------------------------------------------------------------
\* The requests that some response has a constructor for.
OwnResponse ==
  [AuthRequest |-> "AuthResponse",
   CaptchaRequest |-> "CaptchaResponse", FetchRequest |-> "FetchResponse",
   ListOSesRequest |-> "ListOSesResponse", ListAppsRequest |-> "ListAppsResponse",
   FetchBuildUpdatesRequest |-> "FetchBuildUpdatesResponse",
   ListStoreRequest |-> "ListStoreResponse", FetchStoreRequest |-> "FetchStoreResponse",
   FetchAppRequest |-> "FetchAppResponse", ChangeAppItemStateRequest |-> "FetchAppResponse",
   FetchBuildRequest |-> "FetchBuildResponse",
   FetchBuildConfigurationRequest |-> "FetchBuildConfigurationResponse"]

\* core::Response is made from any message.
Plain == {"CreateRequest", "AmendRequest", "DeleteRequest", "ValidateRequest", "ResetRequest",
          "UploadRequest", "CreateAppRequest", "CreateBuildRequest", "CreateMediaRequest",
          "AcquireAppRequest"}

ResponseTypes(t) == IF t \in Plain THEN {"Response"} ELSE {OwnResponse[t], "Response"}

=============================================================================
