--------------------------- MODULE MCFrontMessages ---------------------------
(***************************************************************************)
(* Every type of request, two at once.  Sizes are on either side of every  *)
(* limit; server and client are of the same release, or one is newer.      *)
(***************************************************************************)
EXTENDS FrontMessages

AllRequests == Plain \cup DOMAIN OwnResponse
SomeFields == {"image_blob", "stream", "captcha_image", "captcha_audio", "unique"}

MCLater == <<"Later">>
MCReleases ==
  {[server |-> 1, client |-> 1], [server |-> 1, client |-> 0], [server |-> 0, client |-> 1]}
MCCauses == {"RequestInvalid", "Later"}

=============================================================================
