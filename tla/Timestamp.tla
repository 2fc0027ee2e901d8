------------------------------ MODULE Timestamp ------------------------------
(***************************************************************************)
(* RFC 3161 timestamps: the token an authority gives over a digest, the    *)
(* client that asks for one (service/app/tsa.py) and the offline check of  *)
(* a token (tools/counselclear_verify_release_packet.py, verify_tsa_anchor *)
(* and the strict parser under it).  A hash is the value hashed; the bytes *)
(* of a token are abstracted to the part of it, if any, that is not as the *)
(* strict parser wants it: its `odd' part.                                 *)
(***************************************************************************)
EXTENDS Naturals, FiniteSets

CONSTANTS Cert           \* certificates of timestamp authorities

Retries == 1

\* Where a token may differ from the one grammar the verifier reads: another
\* encoding, another version or digest, several signers, another kind of key.
Parts == {"encoding", "signed data", "signer info", "attributes", "certificate", "TSTInfo"}

\* What one attempt of the client comes back with; a part: granted, and odd there
Replies == {"unreachable", "not granted", "granted", "granted for another digest"} \cup Parts
Granted == Replies \ {"unreachable", "not granted"}

\* What a token's signature covers: the signed attributes
Attributes(content) == [type |-> "TSTInfo", digest |-> content]

TokenOf(cert, digest) ==
  LET content == [imprint |-> digest, time |-> "genTime"]
  IN  [odd |-> "nowhere", certs |-> {cert}, sid |-> cert, content |-> content,
       attrs |-> Attributes(content),
       seal |-> [by |-> cert, over |-> Attributes(content)]]

\* The client reads a reply's shell and no deeper
Extracted(reply, cert, digest, other) ==
  CASE reply = "granted" -> TokenOf(cert, digest)
    [] reply = "granted for another digest" -> TokenOf(cert, other)
    [] reply \in Parts -> [TokenOf(cert, digest) EXCEPT !.odd = reply]

\* The parser, part by part: the walk over every byte, then the structures as
\* the check comes to them
CanonicalWalk(token) == token.odd # "encoding"
ParseAttributes(token) == token.odd # "attributes"
ParseSignerInfo(token) == token.odd # "signer info" /\ ParseAttributes(token)
ParseToken(token) == token.odd # "signed data" /\ ParseSignerInfo(token)
ParseCert(token) == token.odd # "certificate"
ParseTstInfo(token) == token.odd # "TSTInfo"

\* _rfc3161_resolve_signer: exactly one certificate answers to the identifier
Resolved(token) ==
  ParseCert(token) /\ Cardinality({c \in token.certs : c = token.sid}) = 1

VerifyToken(token, expected, pins) ==
  LET parses == CanonicalWalk(token) /\ ParseToken(token)
      sealed == token.seal = [by |-> token.sid, over |-> token.attrs]
      covers == token.attrs = Attributes(token.content)
      dates == ParseTstInfo(token) /\ token.content.imprint = expected
  IN  IF ~parses \/ ~Resolved(token) THEN "cannot_verify"
      ELSE IF token.sid \notin pins THEN "unrecognized_tsa_certificate"
      ELSE IF sealed /\ covers /\ dates THEN "verified" ELSE "cannot_verify"

==============================================================================
