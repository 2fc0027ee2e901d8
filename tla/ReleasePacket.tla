---------------------------- MODULE ReleasePacket ----------------------------
(***************************************************************************)
(* How a release packet comes about, and what can be shown of it offline:  *)
(* the routes that build packets, results and certificates in              *)
(* service/app/main.py, the signature of security.py, the timestamp of     *)
(* tsa.py, and the verifier every copy is later held against.              *)
(*                                                                         *)
(* A download reads the clock, the job's files, the signing key and the    *)
(* audit chain one after the other; meanwhile other downloads append to    *)
(* the chain, the operator replaces the key and files on disk are damaged. *)
(***************************************************************************)
EXTENDS PacketVerifier, TLC

CONSTANTS Job, Wrapped,      \* the jobs, and those that belong to a Release
          Download,          \* downloads, each by a user of its own
          Requester,         \* the download whose user asked for the releases
          Key,               \* custody signing keys
          Stranger,          \* a key that was never the deployment's
          Sites              \* the deployments looked at, with their bounds

\* A site: its COUNSELCLEAR_TSA_URL (off, not a web address, or an authority)
\* and what its authority replies, the jobs and downloads it sees, whether they
\* may die, whether altered copies are looked at, and how often each of the
\* other things happens
ASSUME SitesAssumption ==
  /\ Wrapped \subseteq Job /\ Requester \in Download /\ Key # {} /\ Stranger \notin Key
  /\ \A s \in Sites :
       /\ s.tsa \in {"off", "bad url"} \cup Cert /\ s.replies \subseteq Replies
       /\ s.jobs \subseteq Job /\ s.downloads \subseteq Download /\ {s.dies, s.copies} \subseteq BOOLEAN
       /\ s.originals \subseteq BOOLEAN
       /\ {s.seconds, s.rotations, s.damage, s.results, s.pulls} \subseteq Nat

VARIABLES now,         \* the second certificates and packets are stamped with
          key,         \* the custody signing key file
          site,        \* the deployment
          ended,       \* what the job has come to: "none", "done", "refused"
          disk,        \* bundle_dir: manifest.json and the derivative's directory
          chain,       \* the matter's audit events
          at,          \* where each download stands
          draft,       \* what it has read and made so far
          delivered,   \* the packets recipients hold: the members of each zip
          results,     \* the release results they hold
          pulled,      \* the certificates pulled on their own
          bounds       \* key replacements and damages so far

store == <<ended, disk>>
issued == <<delivered, results, pulled>>
vars == <<now, key, site, store, chain, at, draft, issued, bounds>>

-----------------------------------------------------------------------------
(* What the artifacts hold                                                  *)

Schema == [kind |-> "schema"]
Derivative(j) == [kind |-> "derivative", job |-> j, damaged |-> FALSE]
Original(j) == [kind |-> "original", job |-> j]
Policy(j) == [kind |-> "policy", job |-> j]
Nothing == [kind |-> "empty"]                      \* a manifest.json that is not there: "{}"
Manifest(j) == [kind |-> "manifest", policy |-> Policy(j), derivative |-> Derivative(j),
                schema |-> Schema, job |-> j, damaged |-> FALSE]
Report(j) == [kind |-> "report", job |-> j, schema |-> Schema]   \* from result_json, not from disk
Readme(j, k) == [kind |-> "readme", job |-> j, keyId |-> k]

Status(is) == [kind |-> "status", is |-> is]
Facts(j, status) ==
  [job |-> j, original |-> Original(j), policy |-> Policy(j), status |-> Status(status),
   release |-> IF j \in Wrapped THEN [kind |-> "release", job |-> j] ELSE Absent]

Event(action, j) == [action |-> action, job |-> j]
Sanitized(j, manifest, derivative) ==
  [action |-> "job.sanitize", job |-> j, manifest |-> manifest, derivative |-> derivative]

Seqs(action, j) == {i \in 1..Len(chain) : chain[i].action = action /\ chain[i].job = j}
Recorded(j) == Seqs("job.sanitize", j) # {}

\* _build_certificate_html: the second and the job's events so far are in it
Certificate(j, user) ==
  [kind |-> "certificate", job |-> j, status |-> ended[j], at |-> now, by |-> user,
   events |-> Cardinality(Seqs("job.sanitize", j))]

\* audit/export: what anyone can recompute the chain from
Export == [i \in 1..Len(chain) |-> [seq |-> i, event |-> chain[i], sealed |-> chain[i]]]

-----------------------------------------------------------------------------
Places == {"idle", "certified", "read", "announced", "assembled", "signed", "labelled",
           "resign", "complete", "delivered", "409", "dead"}
Ended == {"delivered", "409", "dead"}
Draft0 == [job |-> Absent, original |-> FALSE, certificate |-> Absent, manifest |-> Absent,
           derivative |-> Absent, readme |-> Absent, download |-> 0, packet |-> Absent,
           tries |-> 0]

Init ==
  /\ now = 0 /\ key = (CHOOSE k \in Key : TRUE) /\ site \in Sites
  /\ ended = [j \in Job |-> "none"]
  /\ disk = [j \in Job |-> [manifest |-> Absent, derivative |-> Absent]]
  /\ chain = << >>
  /\ at = [d \in Download |-> "idle"] /\ draft = [d \in Download |-> Draft0]
  /\ delivered = {} /\ results = {} /\ pulled = {}
  /\ bounds = [rotations |-> 0, damage |-> 0]

-----------------------------------------------------------------------------
(* The job: its worker ends, and its event is appended afterwards           *)

Finish(j, status) ==
  /\ ended[j] = "none"
  /\ ended' = [ended EXCEPT ![j] = status]
  /\ disk' = IF status = "done"
             THEN [disk EXCEPT ![j] = [manifest |-> Manifest(j), derivative |-> Derivative(j)]]
             ELSE disk
  /\ chain' = IF j \in Wrapped THEN Append(chain, Event("release.created", j)) ELSE chain
  /\ UNCHANGED <<now, key, site, at, draft, issued, bounds>>

\* _terminal_hash_facts: the bytes of manifest.json as they are by then
ManifestOnRecord(j) == disk[j].manifest

\* job.sanitize, with the derivative's hash from result_json; then the event of
\* the release, if there is one
Record(j) ==
  /\ ended[j] # "none" /\ ~Recorded(j)
  /\ chain' = Append(chain, IF ended[j] = "done" THEN Sanitized(j, ManifestOnRecord(j), Derivative(j))
                                                 ELSE Sanitized(j, Absent, Absent))
                \o (IF j \in Wrapped THEN <<Event("release.terminal", j)>> ELSE << >>)
  /\ UNCHANGED <<now, key, site, store, at, draft, issued, bounds>>

\* _build_release_result, at the end of POST and on every GET of the result
Result(j) ==
  /\ j \in Wrapped /\ ended[j] # "none" /\ Cardinality(results) < site.results
  /\ results' = results \cup
       {[kind |-> "result",
         facts |-> Facts(j, IF Recorded(j) THEN ended[j] ELSE "queued"),
         certificate |-> Certificate(j, Requester), keyRef |-> key]}
  /\ UNCHANGED <<now, key, site, store, chain, at, draft, delivered, pulled, bounds>>

\* job_certificate: the standalone certificate, and its event
Pull(j, user) ==
  /\ ended[j] # "none" /\ Cardinality(pulled) < site.pulls
  /\ pulled' = pulled \cup {Certificate(j, user)}
  /\ chain' = Append(chain, Event("certificate.issued", j))
  /\ UNCHANGED <<now, key, site, store, at, draft, delivered, results, bounds>>

-----------------------------------------------------------------------------
(* job_bundle                                                               *)

Go(d, place) == at' = [at EXCEPT ![d] = place]
Set(d, field, value) == draft' = [draft EXCEPT ![d][field] = value]
J(d) == draft[d].job

\* The job is done and asked for; the certificate is made first
Begin(d) == \E j \in site.jobs, original \in site.originals :
  /\ at[d] = "idle" /\ ended[j] = "done"
  /\ draft' = [draft EXCEPT ![d].job = j, ![d].original = original,
                            ![d].certificate = Certificate(j, d)]
  /\ Go(d, "certified")
  /\ UNCHANGED <<now, key, site, store, chain, issued, bounds>>

\* manifest.json or "{}"; no derivative directory is the answer 409
ReadFiles(d) ==
  /\ at[d] = "certified"
  /\ \/ /\ disk[J(d)].derivative # Absent
        /\ draft' = [draft EXCEPT
             ![d].manifest = IF disk[J(d)].manifest = Absent THEN Nothing ELSE disk[J(d)].manifest,
             ![d].derivative = disk[J(d)].derivative]
        /\ Go(d, "read")
     \/ /\ disk[J(d)].derivative = Absent
        /\ Go(d, "409") /\ UNCHANGED draft
  /\ UNCHANGED <<now, key, site, store, chain, issued, bounds>>

\* The README names the key of this moment; then bundle.download is committed
Announce(d) ==
  /\ at[d] = "read"
  /\ chain' = Append(chain, Event("bundle.download", J(d)))
  /\ draft' = [draft EXCEPT ![d].readme = Readme(J(d), key), ![d].download = Len(chain')]
  /\ Go(d, "announced")
  /\ UNCHANGED <<now, key, site, store, issued, bounds>>

CitedDownload(d) == draft[d].download

\* certificate.issued is committed, and the packet written that cites both
Assemble(d) ==
  /\ at[d] = "announced"
  /\ chain' = Append(chain, Event("certificate.issued", J(d)))
  /\ Set(d, "packet",
       [kind |-> "packet", facts |-> Facts(J(d), "done"),
        refs |-> [download |-> CitedDownload(d), issued |-> Len(chain')],
        schema |-> Schema, generated |-> [second |-> now, by |-> d],
        hashes |-> [manifest |-> draft[d].manifest, derivative |-> draft[d].derivative,
                    report |-> Report(J(d)), readme |-> draft[d].readme,
                    certificate |-> draft[d].certificate],
        anchor |-> Absent, signature |-> Absent])
  /\ Go(d, "assembled")
  /\ UNCHANGED <<now, key, site, store, issued, bounds>>

\* sign_release_packet, as far as key.sign: the identifier is read after it
Signed(packet, k, marker) ==
  LET covered == Canonical(packet, marker)
  IN  [packet EXCEPT !.signature = [keyId |-> Absent, marker |-> marker, digest |-> covered,
                                    value |-> [by |-> k, over |-> covered]]]

OperatorAnchor(k) == [type |-> "ed25519-operator", digest |-> Absent, token |-> Absent,
                      reference |-> k]

\* Signed without its anchor where one will be asked for, with the operator's
\* own otherwise
Sign(d) ==
  /\ at[d] = "assembled"
  /\ Set(d, "packet", IF site.tsa = "off"
                      THEN Signed([draft[d].packet EXCEPT !.anchor = OperatorAnchor(key)],
                                  key, Marker(FALSE))
                      ELSE Signed(draft[d].packet, key, Marker(TRUE)))
  /\ Go(d, "signed")
  /\ UNCHANGED <<now, key, site, store, chain, issued, bounds>>

\* The signature names the key that is there by now
Label(d) ==
  /\ at[d] = "signed"
  /\ draft' = [draft EXCEPT ![d].packet.signature.keyId = key]
  /\ Go(d, IF draft[d].packet.anchor = Absent THEN "labelled" ELSE "complete")
  /\ UNCHANGED <<now, key, site, store, chain, issued, bounds>>

\* Mutant: one attempt too many
AfterAttemptMore(d) ==
  <<draft[d].tries + 1, IF draft[d].tries <= Retries THEN "labelled" ELSE "resign">>

\* An attempt that came to nothing: the number of attempts, and what is next
AfterAttempt(d) ==
  <<draft[d].tries + 1, IF draft[d].tries < Retries THEN "labelled" ELSE "resign">>

\* request_anchor: one attempt and one more, then the packet goes on without
Stamp(d) ==
  LET sig == draft[d].packet.signature.value
      Stamped(reply) == [type |-> "rfc3161-tsa", digest |-> sig, reference |-> Absent,
                         token |-> Extracted(reply, site.tsa, sig, Nothing)]
  IN
  /\ at[d] = "labelled"
  /\ \/ site.tsa = "bad url" /\ Go(d, "resign") /\ UNCHANGED draft
     \/ \E reply \in site.replies :
          /\ site.tsa \in Cert
          /\ \/ /\ reply \in Granted
                /\ draft' = [draft EXCEPT ![d].packet.anchor = Stamped(reply)]
                /\ Go(d, "complete")
             \/ /\ reply \notin Granted
                /\ Set(d, "tries", AfterAttempt(d)[1]) /\ Go(d, AfterAttempt(d)[2])
  /\ UNCHANGED <<now, key, site, store, chain, issued, bounds>>

Resigned(packet, k) == Signed([packet EXCEPT !.anchor = OperatorAnchor(k)], k, Marker(FALSE))

\* No timestamp: signed once more, with the operator's anchor inside
FallBack(d) ==
  /\ at[d] = "resign"
  /\ Set(d, "packet", Resigned(draft[d].packet, key))
  /\ Go(d, "signed")
  /\ UNCHANGED <<now, key, site, store, chain, issued, bounds>>

Members(dr) ==
  LET names == {"packet", "manifest", "report", "certificate", "readme", "nested"}
                 \cup (IF dr.original THEN {"original"} ELSE {})
  IN  [name \in names |->
         CASE name = "packet" -> dr.packet
           [] name = "manifest" -> dr.manifest
           [] name = "report" -> Report(dr.job)
           [] name = "certificate" -> dr.certificate
           [] name = "readme" -> dr.readme
           [] name = "nested" -> dr.derivative
           [] OTHER -> Original(dr.job)]

Deliver(d) ==
  /\ at[d] = "complete"
  /\ delivered' = delivered \cup {Members(draft[d])}
  /\ draft' = [draft EXCEPT ![d] = Draft0]
  /\ Go(d, "delivered")
  /\ UNCHANGED <<now, key, site, store, chain, results, pulled, bounds>>

-----------------------------------------------------------------------------
(* What happens meanwhile                                                   *)

Tick ==
  /\ now < site.seconds /\ now' = now + 1
  /\ UNCHANGED <<key, site, store, chain, at, draft, issued, bounds>>

\* The operator replaces the key file
Rotate ==
  /\ bounds.rotations < site.rotations
  /\ key' \in Key \ {key}
  /\ bounds' = [bounds EXCEPT !.rotations = @ + 1]
  /\ UNCHANGED <<now, site, store, chain, at, draft, issued>>

\* A file of a job's bundle is damaged, rewritten or lost
Damage(j) ==
  /\ bounds.damage < site.damage /\ ended[j] = "done"
  /\ disk' \in {[disk EXCEPT ![j].manifest = Absent], [disk EXCEPT ![j].derivative = Absent],
                [disk EXCEPT ![j].manifest = [Manifest(j) EXCEPT !.damaged = TRUE]],
                [disk EXCEPT ![j].derivative.damaged = TRUE]}
  /\ bounds' = [bounds EXCEPT !.damage = @ + 1]
  /\ UNCHANGED <<now, key, site, ended, chain, at, draft, issued>>

\* The process dies, or the caller is gone: the events stay
Die(d) ==
  /\ site.dies /\ at[d] \notin Ended \cup {"idle"}
  /\ Go(d, "dead") /\ draft' = [draft EXCEPT ![d] = Draft0]
  /\ UNCHANGED <<now, key, site, store, chain, issued, bounds>>

Progress ==
  \E d \in Download :
    \/ ReadFiles(d) \/ Announce(d) \/ Assemble(d) \/ Sign(d) \/ Label(d)
    \/ Stamp(d) \/ FallBack(d) \/ Deliver(d)

Next ==
  \/ \E j \in site.jobs :
       \/ \E status \in {"done", "refused"} : Finish(j, status)
       \/ Record(j) \/ Result(j) \/ Damage(j)
       \/ \E user \in site.downloads : Pull(j, user)
  \/ \E d \in site.downloads : Begin(d) \/ Die(d)
  \/ Progress \/ Tick \/ Rotate

Spec == Init /\ [][Next]_vars

-----------------------------------------------------------------------------
(* Copies of what was delivered, in other hands                             *)

\* The airlock writes the derivative beside the other files
Flat(files) ==
  [name \in (DOMAIN files \ {"nested"}) \cup {"flat"} |->
     IF name = "flat" THEN files["nested"] ELSE files[name]]

\* The directory the airlock writes: the result of the POST goes with it
Directory(files, result) ==
  [name \in (DOMAIN Flat(files)) \cup {"result"} |->
     IF name = "result" THEN result ELSE Flat(files)[name]]

Other == [kind |-> "other"]
Hashed == {"manifest", "report", "certificate", "readme", "nested"}
FieldOf(name) == IF name = "nested" THEN "derivative" ELSE name

\* A second derivative, beside the one in its place
Doubled(files) ==
  [name \in DOMAIN files \cup {"flat"} |->
     IF name = "flat" THEN files["nested"] ELSE IF name = "nested" THEN Other ELSE files[name]]

\* Another file in the place of one, with or without its hash put right; a
\* second derivative; another packet's facts or references
Contents(files) ==
  {files, Flat(files), Doubled(files)}
  \cup {[files EXCEPT ![name] = Other] : name \in Hashed}
  \cup {[files EXCEPT ![name] = Other, !["packet"].hashes[FieldOf(name)] = Other] : name \in Hashed}
  \cup {[files EXCEPT !["packet"].facts = f["packet"].facts] : f \in delivered}
  \cup {[files EXCEPT !["packet"].refs = f["packet"].refs] : f \in delivered}

\* The signature dropped, borrowed, moved to other bytes, or made by a stranger
Signatures(packet) ==
  LET sig == packet.signature
      Moved(marker) == [sig EXCEPT !.marker = marker, !.digest = Canonical(packet, marker)]
      Strange(k) == [sig EXCEPT !.keyId = k, !.digest = Canonical(packet, sig.marker),
                                !.value = [by |-> Stranger, over |-> Canonical(packet, sig.marker)]]
  IN  {Absent, Strange(sig.keyId), Strange(Stranger)}
      \cup {Moved(marker) : marker \in {Marker(TRUE), Marker(FALSE)}}
      \cup {f["packet"].signature : f \in delivered}

\* The anchor dropped, borrowed, replaced, or asked for anew
Anchors(packet) ==
  {Absent, packet.anchor, OperatorAnchor(key)}
  \cup {f["packet"].anchor : f \in delivered}
  \cup {[f["packet"].anchor EXCEPT !.digest = packet.signature.value] :
        f \in IF packet.signature = Absent THEN {} ELSE delivered}
  \cup {[type |-> "rfc3161-tsa", digest |-> packet.signature.value, reference |-> Absent,
         token |-> TokenOf(c, packet.signature.value)] :
        c \in IF packet.signature = Absent THEN {} ELSE DefaultPins}

EveryCopy(P(_)) ==
  \A files \in delivered : \A c \in Contents(files) :
    \A sig \in Signatures(c["packet"]) :
      LET p == [c["packet"] EXCEPT !.signature = sig]
      IN  \A anchor \in Anchors(p) : P([c EXCEPT !["packet"] = [p EXCEPT !.anchor = anchor]])

\* A recipient who has every key, certificate and schema, and is strict
Recipient(csv) == [keys |-> Key, pins |-> Cert, csv |-> csv, schemas |-> Schema, strict |-> TRUE]

\* No download is under way; nor has any job something left to record
Quiet == \A d \in Download : at[d] \in Ended \cup {"idle"}
AtRest == Quiet /\ \A j \in site.jobs : Recorded(j)

-----------------------------------------------------------------------------
(* Properties                                                               *)

\* Every variable keeps its type: one type invariant for the module.
TypeOK ==
  /\ now \in 0..site.seconds /\ key \in Key /\ site \in Sites
  /\ ended \in [Job -> {"none", "done", "refused"}]
  /\ \A j \in Job : ended[j] # "done" => disk[j] = [manifest |-> Absent, derivative |-> Absent]
  /\ at \in [Download -> Places]
  /\ \A d \in Download :
       /\ draft[d].tries \in 0..(Retries + 1) /\ draft[d].download \in 0..Len(chain)
       /\ at[d] \notin {"idle", "delivered", "dead"} => draft[d].job \in Job
       /\ at[d] \in {"assembled", "signed", "labelled", "resign", "complete"} =>
            draft[d].packet.kind = "packet"
  /\ \A files \in delivered : files["packet"].signature.keyId \in Key
  /\ Cardinality(results) <= site.results /\ Cardinality(pulled) <= site.pulls
  /\ bounds.rotations \in 0..site.rotations /\ bounds.damage \in 0..site.damage

Undamaged(files) ==
  LET j == files["packet"].facts.job
  IN  files["manifest"] = Manifest(j) /\ files["nested"] = Derivative(j)

\* Its signature names the key it was made with, and its timestamp, if any, is
\* one over its signature
WellMade(packet) ==
  /\ packet.signature.value.by = packet.signature.keyId
  /\ packet.anchor.type = "rfc3161-tsa" =>
       packet.anchor.token = TokenOf(site.tsa, packet.signature.value)

RecordedManifest(j) == chain[CHOOSE i \in Seqs("job.sanitize", j) : TRUE].manifest

\* What the deployment hands out verifies for whoever has its keys, in both
\* layouts, with the audit export as well once the job's event is in it, and
\* whatever was replaced, lost or pulled since.
HonestVerifies ==
  Quiet =>
  \A files \in delivered :
    Undamaged(files) /\ WellMade(files["packet"]) =>
      LET j == files["packet"].facts.job
          exports == IF Recorded(j) /\ RecordedManifest(j) = Manifest(j)
                     THEN {<< >>, <<Export>>} ELSE {<< >>}
      IN  \A layout \in {files, Flat(files)}, csv \in exports :
            ExitCode(layout, Recipient(csv)) = 0

\* What passes the strict check says, and holds, what one issued packet said
\* and held: nothing can be mixed, moved or made up, the anchor apart, which
\* the signature of a timestamped packet does not cover.
StrictMeansIssued ==
  LET FromOneIssue(copy) ==
        ExitCode(copy, Recipient(<< >>)) = 0 =>
          \E files \in delivered :
            /\ Canonical(copy["packet"], Marker(TRUE)) = Canonical(files["packet"], Marker(TRUE))
            /\ \A name \in DOMAIN copy \ {"packet", "flat"} : copy[name] = files[name]
            /\ Has(copy, "flat") => copy["flat"] = files["nested"]
  IN  site.copies /\ AtRest => EveryCopy(FromOneIssue)

\* A timestamp that verifies dates the packet it comes with: content, then
\* signature, then token, each over the one before.
AnchorBinds ==
  LET Dated(copy) ==
        LET packet == copy["packet"] IN
        packet.anchor # Absent /\ packet.anchor.type = "rfc3161-tsa" =>
          (ExitCode(copy, Recipient(<< >>)) = 0 =>
            packet.anchor.token.content.imprint =
              [by |-> packet.signature.keyId, over |-> Canonical(packet, packet.signature.marker)])
  IN  site.copies /\ AtRest => EveryCopy(Dated)

\* Nothing done to a job's files after its event was recorded goes unnoticed
\* by whoever has the audit export, though the deployment itself hashed and
\* signed them later.
CustodyHolds ==
  \A files \in delivered :
    LET j == files["packet"].facts.job IN
    PacketValid(files, Recipient(<<Export>>)) =>
      /\ Recorded(j) /\ files["nested"] = Derivative(j)
      /\ RecordedManifest(j) # Absent => files["manifest"] = RecordedManifest(j)

\* The events a packet cites are its own, in this order, and no other packet's.
CitedEventsExist ==
  \A files \in delivered :
    LET packet == files["packet"]
        Cited(name) == chain[packet.refs[name]]
    IN  /\ packet.refs.download < packet.refs.issued
        /\ Cited("download") = Event("bundle.download", packet.facts.job)
        /\ Cited("issued") = Event("certificate.issued", packet.facts.job)
        /\ \A f \in delivered : f # files =>
             f["packet"].refs.download # packet.refs.download
             /\ f["packet"].refs.issued # packet.refs.issued

\* An outage of the authority leaves a packet as a deployment without one
\* makes it: the operator's anchor is inside the signed bytes.
OutageLooksUnanchored ==
  \A files \in delivered :
    LET packet == files["packet"] IN
    packet.anchor.type = "ed25519-operator" =>
      /\ packet.signature.marker = Marker(FALSE)
      /\ packet.signature.value.over.anchor = packet.anchor

\* Every issue verifies, with a timestamp or without, and the recipient can
\* tell which of them has one.
IssuesVerify == HonestVerifies /\ OutageLooksUnanchored

\* What the strict check accepts is one issue, whole, with its own date.
StrictMeansIssuedWhole == StrictMeansIssued /\ AnchorBinds

\* A packet that verifies with the audit export is what the chain recorded:
\* the files at the job's end, and the two events of this very download.
CitesTheRecord == CustodyHolds /\ CitedEventsExist

\* A result and a packet that verify together were made from the same state
\* of the job, in the same second, for the same user, under the same key.
TogetherMeansSameMoment ==
  \A files \in delivered, result \in results :
    CombinedValid(Directory(files, result), Recipient(<< >>)) =>
      /\ result.certificate = files["certificate"]
      /\ result.keyRef = files["packet"].signature.value.by
      /\ result.facts = files["packet"].facts

\* The airlock's output directory, a packet and the result of the same
\* release, "is a complete, self-verifying packet on its own".
AirlockVerifies ==
  \A files \in delivered, result \in results :
    /\ Undamaged(files) /\ WellMade(files["packet"])
    /\ files["packet"].generated.by = Requester
    /\ result.facts = files["packet"].facts /\ result.keyRef = files["packet"].signature.keyId
    => ExitCode(Directory(files, result), Recipient(<< >>)) = 0

==============================================================================
