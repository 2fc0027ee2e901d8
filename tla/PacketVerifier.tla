---------------------------- MODULE PacketVerifier ----------------------------
(***************************************************************************)
(* The offline verifier, tools/counselclear_verify_release_packet.py: what *)
(* it makes of a packet, of a release result, and of both side by side.    *)
(* A set of files is a function from member names to contents; a content   *)
(* is a record with its `kind', and its hash is itself.                    *)
(*   "packet" is release_packet.json, "nested" and "flat" the two places   *)
(*   the derivative may stand in, "result" release_result.json.            *)
(* What the caller gives is a record: keys, pins, csv, schemas, strict.    *)
(***************************************************************************)
EXTENDS Timestamp, Sequences

CONSTANTS DefaultPins    \* the certificates embedded in the verifier

Absent == [kind |-> "absent"]
Required == {"facts", "hashes", "refs", "generated", "anchor"}
Has(files, name) == name \in DOMAIN files

-----------------------------------------------------------------------------
(* Signature and anchor                                                     *)

Marker(exclude) == IF exclude THEN "excluding-anchor" ELSE "canonical"

\* The bytes a signature covers: the packet less its signature, and less its
\* anchor where the marker says so
Canonical(packet, marker) ==
  [packet EXCEPT !.signature = Absent,
                 !.anchor = IF marker = "excluding-anchor" THEN Absent ELSE @]

\* Mutant: the anchor is never among the signed bytes, whatever the marker
SignatureStatusNoDigest(packet, keys) ==
  LET sig == packet.signature IN
  IF sig = Absent THEN "unsigned"
  ELSE IF keys = {} THEN "no_key"
  ELSE IF sig.keyId \notin keys THEN "unknown_key"
  ELSE IF sig.value.by = sig.keyId THEN "verified" ELSE "mismatch"

SignatureStatus(packet, keys) ==
  LET sig == packet.signature
      covered == Canonical(packet, sig.marker)
  IN  IF sig = Absent THEN "unsigned"
      ELSE IF keys = {} THEN "no_key"
      ELSE IF sig.keyId \notin keys THEN "unknown_key"
      ELSE IF /\ sig.marker \in {"excluding-anchor", "canonical", "none"}
              /\ sig.value = [by |-> sig.keyId, over |-> covered]
              /\ sig.digest = covered
           THEN "verified" ELSE "mismatch"

AnchorStatus(packet, pins) ==
  LET anchor == packet.anchor
      sig == packet.signature
  IN  IF anchor = Absent \/ anchor.type # "rfc3161-tsa" THEN "none"
      ELSE IF sig = Absent \/ anchor.digest # sig.value THEN "cannot_verify"
      ELSE VerifyToken(anchor.token, sig.value, pins \cup DefaultPins)

-----------------------------------------------------------------------------
(* The exported audit chain                                                 *)

\* Every row's hash recomputed, the numbers and the links walked
ChainIntact(rows) ==
  /\ rows # << >>
  /\ \A i \in 1..Len(rows) : rows[i].seq = i /\ rows[i].event = rows[i].sealed

Terminal(rows, job) ==
  {i \in 1..Len(rows) : rows[i].event.action = "job.sanitize" /\ rows[i].event.job = job}

Disagree(a, b) == a # Absent /\ b # Absent /\ a # b

\* Mutant: an export in which the job does not occur is no objection
ChainObjectsIfFound(packet, rows) ==
  LET found == Terminal(rows, packet.facts.job)
      last == rows[CHOOSE i \in found : \A j \in found : j <= i].event
  IN  ~ChainIntact(rows) \/
      (found # {} /\ Disagree(last.derivative, packet.hashes.derivative))

ChainObjects(packet, rows) ==
  LET found == Terminal(rows, packet.facts.job)
      last == rows[CHOOSE i \in found : \A j \in found : j <= i].event
  IN  \/ ~ChainIntact(rows) \/ found = {}
      \/ Disagree(last.manifest, packet.hashes.manifest)
      \/ Disagree(last.derivative, packet.hashes.derivative)

-----------------------------------------------------------------------------
(* The packet                                                               *)

\* _check_hash: one of the places, and only one, holds what was declared
FileMatches(files, places, declared) ==
  LET present == places \cap DOMAIN files
  IN  /\ declared # Absent
      /\ Cardinality(present) = 1
      /\ \A name \in present : files[name] = declared

\* Mutant: the derivative is looked for where the zip has it, and only there
DerivativePlacesNested == {"nested"}

DerivativePlaces == {"nested", "flat"}

FilesMatch(files, hashes) ==
  /\ FileMatches(files, {"manifest"}, hashes.manifest)
  /\ FileMatches(files, {"report"}, hashes.report)
  /\ FileMatches(files, {"certificate"}, hashes.certificate)
  /\ FileMatches(files, {"readme"}, hashes.readme)
  /\ FileMatches(files, DerivativePlaces, hashes.derivative)

\* What manifest.json or report.json says of itself, where it says it
Inner(files, name, field) ==
  IF Has(files, name) /\ files[name].kind = name THEN files[name][field] ELSE Absent

CrossChecksPass(files, packet) ==
  /\ ~Disagree(Inner(files, "manifest", "policy"), packet.facts.policy)
  /\ ~Disagree(Inner(files, "manifest", "derivative"), packet.hashes.derivative)
  /\ Has(files, "original") => files["original"] = packet.facts.original

\* A declared pin is compared with the schemas shipped with the verifier
PinsHold(files, packet, shipped) ==
  shipped # Absent => /\ ~Disagree(packet.schema, shipped)
                      /\ \A name \in {"manifest", "report"} :
                           ~Disagree(Inner(files, name, "schema"), shipped)

SchemaOk(files) ==
  /\ Has(files, "packet") /\ files["packet"].kind = "packet"
  /\ \A field \in Required : files["packet"][field] # Absent

\* verify_release_packet: the packet's verdict, lenient about a missing key
PacketValid(files, given) ==
  /\ SchemaOk(files)
  /\ LET packet == files["packet"] IN
     /\ FilesMatch(files, packet.hashes)
     /\ CrossChecksPass(files, packet)
     /\ PinsHold(files, packet, given.schemas)
     /\ given.csv # << >> => ~ChainObjects(packet, given.csv[1])
     /\ SignatureStatus(packet, given.keys) # "mismatch"
     /\ AnchorStatus(packet, given.pins) \in {"none", "verified"}

Verified(files, given) ==
  SchemaOk(files) /\ SignatureStatus(files["packet"], given.keys) = "verified"

-----------------------------------------------------------------------------
(* The result, both together, and the command line                          *)

ResultValid(files) ==
  /\ files["result"].kind = "result"
  /\ Has(files, "certificate") => files["certificate"] = files["result"].certificate

\* Mutant: the keys the two artifacts name are not compared
AgreementFactsOnly(packet, result) ==
  \A field \in DOMAIN packet.facts \cap DOMAIN result.facts :
    ~Disagree(packet.facts[field], result.facts[field])

\* What both declare is the same, the signing key included
Agreement(packet, result) ==
  /\ \A field \in DOMAIN packet.facts \cap DOMAIN result.facts :
       ~Disagree(packet.facts[field], result.facts[field])
  /\ packet.signature # Absent => packet.signature.keyId = result.keyRef

CombinedValid(files, given) ==
  /\ PacketValid(files, given)
  /\ ResultValid(files)
  /\ Agreement(files["packet"], files["result"])

\* main: which check the files call for, and what strictness adds
ExitCode(files, given) ==
  LET onlyResult == Has(files, "result") /\ ~Has(files, "packet")
      both == Has(files, "result") /\ Has(files, "packet")
      ok == IF onlyResult THEN ResultValid(files)
            ELSE IF both THEN CombinedValid(files, given)
            ELSE PacketValid(files, given)
  IN  IF given.strict /\ onlyResult THEN 2
      ELSE IF ok /\ (given.strict => Verified(files, given)) THEN 0 ELSE 1

==============================================================================
