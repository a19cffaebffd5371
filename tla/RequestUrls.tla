---------------------------- MODULE RequestUrls ----------------------------
(***************************************************************************)
(* The URL and the credentials of each request to davix: what the methods  *)
(* make of the object's URL and of their path, and what Posix.cc makes of  *)
(* that and of the environment.  A URL is reduced to whether it carries    *)
(* CGI (parameters after a "?").                                           *)
(***************************************************************************)
VARIABLES
  aws,       \* which of the two AWS keys are in the environment
  objectCgi, \* whether the HttpFileSystemPlugIn's own URL has CGI
  request    \* the last request: the davix call, its URL, its credentials

vars == <<aws, objectCgi, request>>

NoRequest == [call |-> "none", cgi |-> FALSE, auth |-> "x509"]

Init ==
  /\ aws \in SUBSET {"AWS_ACCESS_KEY_ID", "AWS_SECRET_ACCESS_KEY"}
  /\ objectCgi \in BOOLEAN
  /\ request = NoRequest

-----------------------------------------------------------------------------
(* Posix.cc *)

HasKeyId == "AWS_ACCESS_KEY_ID" \in aws

SetAuthz == IF HasKeyId /\ "AWS_SECRET_ACCESS_KEY" \in aws THEN "s3" ELSE "x509"

SanitizedURL(cgi) == cgi /\ ~HasKeyId

Send(call, cgi) ==
  /\ request' = [call |-> call, cgi |-> cgi, auth |-> SetAuthz]
  /\ UNCHANGED <<aws, objectCgi>>

-----------------------------------------------------------------------------
(* The methods.  cgi is whether their argument has CGI. *)

\* The object's URL with another path keeps the object's CGI.
WithPath(cgi) == objectCgi \/ cgi

\* A file's Open stats, unlinks and opens the URL it is given; its Stat the same URL.
FileRequest(call, cgi) == Send(call, SanitizedURL(cgi))

\* Protocol, host and port in front of the path: the object's CGI is lost.
Stat(cgi) == Send("stat", SanitizedURL(cgi))
DirList(cgi) == Send("opendirpp", SanitizedURL(cgi))
Mv(cgi) == ~HasKeyId /\ Send("rename", SanitizedURL(cgi))

Rm(cgi) == Send("unlink", SanitizedURL(WithPath(cgi)))
RmDir(cgi) == Send("rmdir", WithPath(cgi))

Next ==
  \E cgi \in BOOLEAN :
    \/ \E call \in {"stat", "unlink", "open"} : FileRequest(call, cgi)
    \/ Stat(cgi) \/ DirList(cgi) \/ Mv(cgi) \/ Rm(cgi) \/ RmDir(cgi)

Spec == Init /\ [][Next]_vars

-----------------------------------------------------------------------------
\* No request signed with AWS keys carries CGI: "for s3 storage using
\* AWS_ACCESS_KEY_ID, filter out all CGIs" (Posix.cc:172).  RmDir hands davix the URL
\* it is given (Posix.cc:289).
CgiFiltered == request.auth = "s3" => ~request.cgi
=============================================================================
