------------------------- MODULE ReleasePacket_proofs -------------------------
(***************************************************************************)
(* For any jobs, downloads, keys, authorities and bounds: what is issued   *)
(* verifies (IssuesVerify), what verifies with the audit export is what    *)
(* the chain recorded (CitesTheRecord), a result that verifies with a      *)
(* packet is of its moment (TogetherMeansSameMoment), a copy that passes   *)
(* the strict check is one issue, whole (StrictMeansIssuedWhole), and the  *)
(* types.                                                                  *)
(***************************************************************************)
EXTENDS ReleasePacket, SequenceTheorems, FiniteSetTheorems, TLAPS

-----------------------------------------------------------------------------
(* The chain                                                                *)

Sequence(s) == \E S : s \in Seq(S)

\* A chain c that has become d
Extends(c, d) ==
  /\ Len(c) \in Nat /\ Len(d) \in Nat /\ Len(c) <= Len(d)
  /\ \A i \in 1..Len(c) : d[i] = c[i]

LEMMA Appending ==
  ASSUME NEW s, Sequence(s), NEW e
  PROVE  /\ Sequence(Append(s, e)) /\ Len(s) \in Nat
         /\ Len(Append(s, e)) = Len(s) + 1
         /\ \A i \in 1..Len(s) : Append(s, e)[i] = s[i]
         /\ Append(s, e)[Len(s) + 1] = e
<1>1. PICK S : s \in Seq(S)
  BY DEF Sequence
<1>2. s \in Seq(S \cup {e}) /\ e \in S \cup {e}
  BY <1>1, SeqMonotonic
<1>. QED  BY <1>2, AppendProperties, LenProperties DEF Sequence

\* One end to each job, recorded once, with the derivative it produced.
Recorder(i) == chain[i].action = "job.sanitize"

ChainInv ==
  /\ Sequence(chain) /\ Len(chain) \in Nat
  /\ ended \in [Job -> {"none", "done", "refused"}]
  /\ \A i \in 1..Len(chain) : Recorder(i) =>
       /\ chain[i].job \in Job /\ ended[chain[i].job] # "none"
       /\ ended[chain[i].job] = "done" => chain[i].derivative = Derivative(chain[i].job)
  /\ \A i, k \in 1..Len(chain) :
       Recorder(i) /\ Recorder(k) /\ chain[i].job = chain[k].job => i = k

\* What a step does to the chain
Adds(action) == \E j \in Job : chain' = Append(chain, Event(action, j))
Actions == {"release.created", "bundle.download", "certificate.issued"}
Grown == Extends(chain, chain') /\ \A j \in Job : ended[j] = "done" => ended'[j] = "done"

LEMMA AddsKeepsChain ==
  ASSUME ChainInv, NEW action \in Actions, Adds(action),
         ended' \in [Job -> {"none", "done", "refused"}],
         \A j \in Job : ended[j] # "none" => ended'[j] = ended[j]
  PROVE  ChainInv' /\ Grown
<1>1. PICK j \in Job : chain' = Append(chain, Event(action, j))
  BY DEF Adds
<1>2. Event(action, j).action # "job.sanitize"
  BY DEF Event, Actions
<1>3. /\ Sequence(chain') /\ Len(chain) \in Nat /\ Len(chain') = Len(chain) + 1
      /\ \A i \in 1..Len(chain) : chain'[i] = chain[i]
      /\ chain'[Len(chain) + 1] = Event(action, j)
  BY <1>1, Appending DEF ChainInv
<1>4. \A i \in 1..Len(chain') : Recorder(i)' => i \in 1..Len(chain) /\ Recorder(i) /\ chain'[i] = chain[i]
  BY <1>2, <1>3 DEF Recorder
<1>. QED  BY <1>3, <1>4 DEF ChainInv, Grown, Extends

LEMMA RecordKeepsChain ==
  ASSUME ChainInv, NEW j \in Job, Record(j)
  PROVE  ChainInv' /\ Grown
<1>. DEFINE e == IF ended[j] = "done" THEN Sanitized(j, ManifestOnRecord(j), Derivative(j))
                                      ELSE Sanitized(j, Absent, Absent)
            c == Append(chain, e)
            n == Len(chain)
<1>1. e.action = "job.sanitize" /\ e.job = j /\ (ended[j] = "done" => e.derivative = Derivative(j))
  BY DEF Sanitized
<1>2. /\ Sequence(c) /\ n \in Nat /\ Len(c) = n + 1
      /\ \A i \in 1..n : c[i] = chain[i]
      /\ c[n + 1] = e
  BY Appending DEF ChainInv
<1>3. /\ Sequence(chain') /\ Len(chain') \in {n + 1, n + 2}
      /\ \A i \in 1..(n + 1) : chain'[i] = c[i]
      /\ Len(chain') = n + 2 => chain'[n + 2] = Event("release.terminal", j)
  <2>1. PICK S : c \in Seq(S)
    BY <1>2 DEF Sequence
  <2>2. CASE j \in Wrapped
    <3>1. chain' = c \o <<Event("release.terminal", j)>>
      BY <2>2 DEF Record
    <3>2. chain' = Append(c, Event("release.terminal", j))
      <4>. DEFINE T == S \cup {Event("release.terminal", j)}
      <4>1. c \in Seq(T) /\ Event("release.terminal", j) \in T
        BY <2>1, SeqMonotonic
      <4>. HIDE DEF c, T
      <4>. QED  BY <3>1, <4>1, AppendIsConcat
    <3>. HIDE DEF c
    <3>. QED  BY <1>2, <3>2, Appending
  <2>3. CASE j \notin Wrapped
    <3>1. chain' = c \o << >>
      BY <2>3 DEF Record
    <3>. HIDE DEF c
    <3>2. chain' = c
      BY <2>1, <3>1, ConcatEmptySeq
    <3>. QED  BY <1>2, <3>2
  <2>. QED  BY <2>2, <2>3
<1>4. \A i \in 1..n : Recorder(i) => chain[i].job # j
  BY DEF Record, Recorded, Seqs, Recorder, ChainInv
<1>5. ended[j] # "none" /\ UNCHANGED ended
  BY DEF Record, store
<1>. HIDE DEF c, e
<1>6. \A i \in 1..Len(chain') :
        \/ i \in 1..n /\ chain'[i] = chain[i]
        \/ i = n + 1 /\ chain'[i] = e
        \/ i = n + 2 /\ chain'[i] = Event("release.terminal", j)
  BY <1>2, <1>3
<1>7. Event("release.terminal", j).action # "job.sanitize"
  BY DEF Event
<1>8. \A i \in 1..Len(chain') : Recorder(i)' =>
        (i \in 1..n /\ Recorder(i) /\ chain'[i] = chain[i]) \/ (i = n + 1 /\ chain'[i] = e)
  BY <1>6, <1>7 DEF Recorder
<1>9. \A i \in 1..Len(chain') : Recorder(i)' =>
        /\ chain'[i].job \in Job /\ ended'[chain'[i].job] # "none"
        /\ ended'[chain'[i].job] = "done" => chain'[i].derivative = Derivative(chain'[i].job)
  BY <1>1, <1>5, <1>8 DEF ChainInv
<1>10. \A i, k \in 1..Len(chain') :
         Recorder(i)' /\ Recorder(k)' /\ chain'[i].job = chain'[k].job => i = k
  BY <1>1, <1>4, <1>8 DEF ChainInv
<1>11. Extends(chain, chain') /\ Sequence(chain') /\ Len(chain') \in Nat
  BY <1>2, <1>3 DEF Extends
<1>. QED  BY <1>5, <1>9, <1>10, <1>11 DEF ChainInv, Grown

-----------------------------------------------------------------------------
(* What a download has in hand at each place.  A draft dr is looked at      *)
(* under the chain c, the ends e of the jobs and the site's authority tsa.  *)

Packaged == {"assembled", "signed", "labelled", "resign", "complete"}
Working == {"certified", "read", "announced"} \cup Packaged

Drafted(dr) ==
  dr = [job |-> dr.job, original |-> dr.original, certificate |-> dr.certificate,
        manifest |-> dr.manifest, derivative |-> dr.derivative, readme |-> dr.readme,
        download |-> dr.download, packet |-> dr.packet, tries |-> dr.tries]

Begun(dr, e) ==
  /\ dr.job \in Job /\ e[dr.job] = "done" /\ dr.original \in BOOLEAN
  /\ dr.certificate # Absent /\ dr.certificate.job = dr.job

Gathered(dr) == dr.manifest # Absent /\ dr.derivative # Absent

Announced(dr, c) ==
  /\ dr.readme # Absent
  /\ dr.download \in 1..Len(c) /\ c[dr.download] = Event("bundle.download", dr.job)

Hashes(dr) ==
  [manifest |-> dr.manifest, derivative |-> dr.derivative, report |-> Report(dr.job),
   readme |-> dr.readme, certificate |-> dr.certificate]

\* The packet of a draft, whatever its anchor and signature
Packed(dr, c) ==
  LET p == dr.packet IN
  /\ p = [kind |-> "packet", facts |-> Facts(dr.job, "done"),
          refs |-> [download |-> dr.download, issued |-> p.refs.issued],
          schema |-> Schema, generated |-> p.generated, hashes |-> Hashes(dr),
          anchor |-> p.anchor, signature |-> p.signature]
  /\ p.generated # Absent
  /\ p.refs.issued \in 1..Len(c) /\ dr.download < p.refs.issued
  /\ c[p.refs.issued] = Event("certificate.issued", dr.job)

SignedBy(p, k, marker) ==
  p.signature = [keyId |-> p.signature.keyId, marker |-> marker, digest |-> Canonical(p, marker),
                 value |-> [by |-> k, over |-> Canonical(p, marker)]]

ByOperator(p) == \E k \in Key : p.anchor = OperatorAnchor(k) /\ SignedBy(p, k, Marker(FALSE))
ToBeStamped(p, tsa) == p.anchor = Absent /\ tsa # "off" /\ \E k \in Key : SignedBy(p, k, Marker(TRUE))

Stamped(p, tsa) ==
  /\ tsa \in Cert /\ \E k \in Key : SignedBy(p, k, Marker(TRUE))
  /\ p.anchor = [type |-> "rfc3161-tsa", digest |-> p.signature.value, reference |-> Absent,
                 token |-> p.anchor.token]

Fits(place, dr, c, e, tsa) ==
  /\ Drafted(dr)
  /\ place \in Working => Begun(dr, e)
  /\ place \in Working \ {"certified"} => Gathered(dr)
  /\ place \in {"announced"} \cup Packaged => Announced(dr, c)
  /\ place \in Packaged => Packed(dr, c)
  /\ place = "assembled" => dr.packet.anchor = Absent
  /\ place = "signed" => ToBeStamped(dr.packet, tsa) \/ ByOperator(dr.packet)
  /\ place \in {"labelled", "resign"} => ToBeStamped(dr.packet, tsa)
  /\ place = "complete" => Stamped(dr.packet, tsa) \/ ByOperator(dr.packet)
  /\ place \in {"labelled", "resign", "complete"} => dr.packet.signature.keyId \in Key

\* The events a draft cites or will cite
Cites(place, dr) ==
  IF place = "announced" THEN {dr.download}
  ELSE IF place \in Packaged THEN {dr.download, dr.packet.refs.issued} ELSE {}

CitedBy(files) == {files["packet"].refs.download, files["packet"].refs.issued}

DraftInv ==
  /\ key \in Key /\ site \in Sites
  /\ at \in [Download -> Places] /\ DOMAIN draft = Download
  /\ \A d \in Download : Fits(at[d], draft[d], chain, ended, site.tsa)

DeliveredInv ==
  \A files \in delivered :
    \E dr : files = Members(dr) /\ Fits("complete", dr, chain, ended, site.tsa)

CitesInv ==
  /\ \A d, u \in Download : d # u => Cites(at[d], draft[d]) \cap Cites(at[u], draft[u]) = {}
  /\ \A d \in Download, files \in delivered : Cites(at[d], draft[d]) \cap CitedBy(files) = {}
  /\ \A files, others \in delivered : files # others => CitedBy(files) \cap CitedBy(others) = {}

PacketInv == DraftInv /\ DeliveredInv /\ CitesInv

\* A chain that grows and jobs that stay done change nothing for a draft.
LEMMA Keeping ==
  ASSUME NEW place, NEW dr, NEW c, NEW d, NEW e, NEW f, NEW tsa, Extends(c, d),
         \A j \in Job : e[j] = "done" => f[j] = "done",
         Fits(place, dr, c, e, tsa)
  PROVE  Fits(place, dr, d, f, tsa)
<1>1. Begun(dr, e) => Begun(dr, f)
  BY DEF Begun
<1>2. Announced(dr, c) => Announced(dr, d)
  BY DEF Announced, Extends
<1>3. Packed(dr, c) => Packed(dr, d)
  BY DEF Packed, Extends
<1>. QED  BY <1>1, <1>2, <1>3 DEF Fits

LEMMA CitesAreThere ==
  ASSUME NEW place, NEW dr, NEW c, NEW e, NEW tsa, Fits(place, dr, c, e, tsa)
  PROVE  Cites(place, dr) \subseteq 1..Len(c)
  BY DEF Fits, Cites, Announced, Packed, Packaged

LEMMA FilesOfDraft ==
  ASSUME NEW dr, NEW c, NEW e, NEW tsa, Fits("complete", dr, c, e, tsa)
  PROVE  /\ Members(dr)["packet"] = dr.packet
         /\ CitedBy(Members(dr)) = Cites("complete", dr)
         /\ CitedBy(Members(dr)) \subseteq 1..Len(c)
<1>1. Members(dr)["packet"] = dr.packet
  BY DEF Members
<1>2. dr.packet.refs.download = dr.download
  BY DEF Fits, Packed, Packaged
<1>3. Cites("complete", dr) \subseteq 1..Len(c)
  BY CitesAreThere
<1>. QED  BY <1>1, <1>2, <1>3 DEF CitedBy, Cites, Packaged

\* A step of one download, or of none, that delivers nothing.
Others(d) ==
  /\ DOMAIN draft' = Download
  /\ \A u \in Download \ {d} : at'[u] = at[u] /\ draft'[u] = draft[u]
  /\ UNCHANGED <<delivered, site>> /\ key' \in Key

LEMMA Moving ==
  ASSUME PacketInv, Grown, NEW d \in Download, Others(d), at' \in [Download -> Places],
         Fits(at'[d], draft'[d], chain', ended', site.tsa),
         \A n \in Cites(at'[d], draft'[d]) : n \in Cites(at[d], draft[d]) \/ n > Len(chain)
  PROVE  PacketInv'
<1>1. \A u \in Download : Fits(at'[u], draft'[u], chain', ended', site.tsa)
  BY Keeping DEF PacketInv, DraftInv, Grown, Others
<1>2. DraftInv'
  BY <1>1 DEF PacketInv, DraftInv, Others
<1>3. DeliveredInv'
  <2>1. SUFFICES ASSUME NEW files \in delivered
                 PROVE  \E dr : files = Members(dr) /\ Fits("complete", dr, chain', ended', site'.tsa)
    BY DEF DeliveredInv, Others
  <2>2. PICK dr : files = Members(dr) /\ Fits("complete", dr, chain, ended, site.tsa)
    BY DEF PacketInv, DeliveredInv, Others
  <2>3. Fits("complete", dr, chain', ended', site.tsa)
    BY <2>2, Keeping DEF Grown
  <2>. QED  BY <2>2, <2>3 DEF Others
<1>4. CitesInv'
  <2>1. Len(chain) \in Nat
    BY DEF Grown, Extends
  <2>2. \A u \in Download : Cites(at[u], draft[u]) \subseteq 1..Len(chain)
    BY CitesAreThere DEF PacketInv, DraftInv
  <2>3. \A files \in delivered : CitedBy(files) \subseteq 1..Len(chain)
    BY FilesOfDraft DEF PacketInv, DeliveredInv
  <2>4. \A u \in Download \ {d} : Cites(at'[u], draft'[u]) = Cites(at[u], draft[u])
    BY DEF Others
  <2>5. \A n \in Cites(at'[d], draft'[d]) : n \in Cites(at[d], draft[d]) \/ n \notin 1..Len(chain)
    BY <2>1, <2>2
  <2>6. ASSUME NEW u \in Download, NEW v \in Download, u # v
        PROVE  Cites(at'[u], draft'[u]) \cap Cites(at'[v], draft'[v]) = {}
    <3>1. Cites(at[u], draft[u]) \cap Cites(at[v], draft[v]) = {}
      BY <2>6 DEF PacketInv, CitesInv
    <3>. QED  BY <2>2, <2>4, <2>5, <2>6, <3>1
  <2>7. ASSUME NEW u \in Download, NEW files \in delivered
        PROVE  Cites(at'[u], draft'[u]) \cap CitedBy(files) = {}
    <3>1. Cites(at[u], draft[u]) \cap CitedBy(files) = {}
      BY DEF PacketInv, CitesInv
    <3>. QED  BY <2>3, <2>4, <2>5, <3>1
  <2>. QED  BY <2>6, <2>7 DEF CitesInv, PacketInv, Others
<1>. QED  BY <1>2, <1>3, <1>4 DEF PacketInv

-----------------------------------------------------------------------------
(* The steps of a download.                                                 *)

LEMMA MarkersDiffer == Marker(TRUE) = "excluding-anchor" /\ Marker(FALSE) = "canonical"
  BY DEF Marker

\* A packet with its parts, and one that differs in anchor and signature only
Parted(p) ==
  p = [kind |-> p.kind, facts |-> p.facts, refs |-> p.refs, schema |-> p.schema,
       generated |-> p.generated, hashes |-> p.hashes, anchor |-> p.anchor,
       signature |-> p.signature]

Alike(p, q) ==
  q = [kind |-> p.kind, facts |-> p.facts, refs |-> p.refs, schema |-> p.schema,
       generated |-> p.generated, hashes |-> p.hashes, anchor |-> q.anchor,
       signature |-> q.signature]

\* Signing changes the signature and nothing else.
LEMMA Signing ==
  ASSUME NEW p, NEW k, NEW marker, Parted(p)
  PROVE  LET q == Signed(p, k, marker)
         IN  Alike(p, q) /\ q.anchor = p.anchor /\ SignedBy(q, k, marker)
<1>. DEFINE sig == [keyId |-> Absent, marker |-> marker, digest |-> Canonical(p, marker),
                    value |-> [by |-> k, over |-> Canonical(p, marker)]]
            q == Signed(p, k, marker)
<1>1. q = [p EXCEPT !.signature = sig]
  BY DEF Signed
<1>. HIDE DEF sig, q
<1>2. q.signature = sig /\ q.anchor = p.anchor /\ Alike(p, q)
  BY <1>1 DEF Alike, Parted
<1>3. Canonical(q, marker) = Canonical(p, marker)
  BY <1>1, <1>2 DEF Canonical, Alike, Parted
<1>. QED  BY <1>2, <1>3 DEF SignedBy, sig, q

LEMMA OperatorsAnchor == \A k : OperatorAnchor(k) # Absent
<1>. TAKE k
<1>1. "type" \in DOMAIN OperatorAnchor(k) /\ "type" \notin DOMAIN Absent
  BY DEF OperatorAnchor, Absent
<1>. QED  BY <1>1

\* A packed draft stays packed when its packet is signed or stamped.
LEMMA Repacking ==
  ASSUME NEW dr, NEW es, NEW c, Drafted(dr), Packed(dr, c), Alike(dr.packet, es.packet),
         es = [dr EXCEPT !.packet = es.packet]
  PROVE  /\ Drafted(es) /\ Packed(es, c)
         /\ \A e : Begun(dr, e) => Begun(es, e)
         /\ Gathered(dr) => Gathered(es)
         /\ Announced(dr, c) => Announced(es, c)
         /\ es.packet.refs = dr.packet.refs /\ es.download = dr.download
<1>1. /\ es.job = dr.job /\ es.original = dr.original /\ es.certificate = dr.certificate
      /\ es.manifest = dr.manifest /\ es.derivative = dr.derivative /\ es.readme = dr.readme
      /\ es.download = dr.download /\ es.tries = dr.tries /\ Drafted(es)
  BY DEF Drafted
<1>2. Hashes(es) = Hashes(dr)
  BY <1>1 DEF Hashes
<1>3. Packed(es, c) /\ es.packet.refs = dr.packet.refs
  BY <1>1, <1>2 DEF Packed, Alike
<1>. QED  BY <1>1, <1>3 DEF Begun, Gathered, Announced

Inv == ChainInv /\ PacketInv

LEMMA Still ==
  ASSUME ChainInv, UNCHANGED <<chain, ended>>
  PROVE  ChainInv' /\ Grown
<1>1. ChainInv'
  BY DEF ChainInv, Recorder
<1>. QED  BY <1>1 DEF ChainInv, Grown, Extends

LEMMA SiteFacts ==
  ASSUME Inv
  PROVE  /\ site.jobs \subseteq Job /\ site.downloads \subseteq Download
         /\ site.originals \subseteq BOOLEAN /\ site.tsa \in {"off", "bad url"} \cup Cert
  BY SitesAssumption DEF Inv, PacketInv, DraftInv

LEMMA BeginKeeps ==
  ASSUME Inv, NEW d \in Download, Begin(d)
  PROVE  ChainInv' /\ PacketInv'
<1>1. ChainInv' /\ Grown
  BY Still DEF Inv, Begin, store
<1>2. PICK j \in Job, original \in BOOLEAN :
        /\ ended[j] = "done"
        /\ draft' = [draft EXCEPT ![d].job = j, ![d].original = original,
                                  ![d].certificate = Certificate(j, d)]
  BY SiteFacts DEF Begin
<1>. DEFINE cert == Certificate(j, d)
<1>3. cert # Absent /\ cert.job = j
  BY DEF Certificate, Absent
<1>4. Drafted(draft[d]) /\ DOMAIN draft = Download
  BY DEF Inv, PacketInv, DraftInv, Fits
<1>. HIDE DEF cert
<1>5. draft'[d] = [draft[d] EXCEPT !.job = j, !.original = original, !.certificate = cert]
  BY <1>2, <1>4 DEF cert
<1>6. /\ Drafted(draft'[d]) /\ draft'[d].job = j /\ draft'[d].original = original
      /\ draft'[d].certificate = cert
  BY <1>4, <1>5 DEF Drafted
<1>7. at'[d] = "certified" /\ at' \in [Download -> Places] /\ Others(d)
  BY <1>2 DEF Begin, Go, Places, Inv, PacketInv, DraftInv, Others, issued
<1>8. Begun(draft'[d], ended') /\ UNCHANGED ended
  BY <1>2, <1>3, <1>6 DEF Begun, Begin, store
<1>9. Fits(at'[d], draft'[d], chain', ended', site.tsa)
  BY <1>6, <1>7, <1>8 DEF Fits, Packaged
<1>10. Cites(at'[d], draft'[d]) = {}
  BY <1>7 DEF Cites, Packaged
<1>. QED  BY <1>1, <1>7, <1>9, <1>10, Moving DEF Inv

LEMMA ReadKeeps ==
  ASSUME Inv, NEW d \in Download, ReadFiles(d)
  PROVE  ChainInv' /\ PacketInv'
<1>1. ChainInv' /\ Grown
  BY Still DEF Inv, ReadFiles, store
<1>2. Fits("certified", draft[d], chain, ended, site.tsa) /\ DOMAIN draft = Download
  BY DEF Inv, PacketInv, DraftInv, ReadFiles
<1>3. UNCHANGED <<chain, ended, site>>
  BY DEF ReadFiles, store
<1>4. CASE at'[d] = "409" /\ UNCHANGED draft
  <2>1. at' \in [Download -> Places] /\ Others(d)
    BY <1>4 DEF ReadFiles, Go, Places, Inv, PacketInv, DraftInv, Others, issued
  <2>2. Fits(at'[d], draft'[d], chain', ended', site.tsa) /\ Cites(at'[d], draft'[d]) = {}
    BY <1>2, <1>4 DEF Fits, Cites, Packaged, Working
  <2>. QED  BY <1>1, <2>1, <2>2, Moving DEF Inv
<1>5. CASE at'[d] = "read"
  <2>. DEFINE m == IF disk[J(d)].manifest = Absent THEN Nothing ELSE disk[J(d)].manifest
              v == disk[J(d)].derivative
  <2>1. v # Absent /\ draft' = [draft EXCEPT ![d].manifest = m, ![d].derivative = v]
    BY <1>5 DEF ReadFiles, Go, Inv, PacketInv, DraftInv
  <2>2. m # Absent
    BY DEF Nothing, Absent
  <2>. HIDE DEF m, v
  <2>3. draft'[d] = [draft[d] EXCEPT !.manifest = m, !.derivative = v]
    BY <1>2, <2>1
  <2>4. /\ Drafted(draft'[d]) /\ draft'[d].manifest = m /\ draft'[d].derivative = v
        /\ draft'[d].job = draft[d].job /\ draft'[d].original = draft[d].original
        /\ draft'[d].certificate = draft[d].certificate
    BY <1>2, <2>3 DEF Drafted, Fits
  <2>5. at' \in [Download -> Places] /\ Others(d)
    BY <1>5, <2>1 DEF ReadFiles, Go, Places, Inv, PacketInv, DraftInv, Others, issued
  <2>6. Begun(draft'[d], ended') /\ Gathered(draft'[d])
    BY <1>2, <1>3, <2>1, <2>2, <2>4 DEF Fits, Begun, Gathered, Working
  <2>7. Fits(at'[d], draft'[d], chain', ended', site.tsa) /\ Cites(at'[d], draft'[d]) = {}
    BY <1>5, <2>4, <2>6 DEF Fits, Cites, Packaged
  <2>. QED  BY <1>1, <2>5, <2>7, Moving DEF Inv
<1>6. (at'[d] = "409" /\ UNCHANGED draft) \/ at'[d] = "read"
  BY DEF ReadFiles, Go, Inv, PacketInv, DraftInv
<1>. QED  BY <1>4, <1>5, <1>6

\* An event of a download is the last of the chain.
LEMMA Citing ==
  ASSUME Inv, NEW action \in Actions, NEW j \in Job, chain' = Append(chain, Event(action, j)),
         UNCHANGED ended
  PROVE  /\ ChainInv' /\ Grown /\ Len(chain) \in Nat /\ Len(chain') = Len(chain) + 1
         /\ Len(chain') \in 1..Len(chain') /\ chain'[Len(chain')] = Event(action, j)
         /\ Len(chain') > Len(chain)
<1>1. ChainInv' /\ Grown
  <2>1. Adds(action) /\ ended' \in [Job -> {"none", "done", "refused"}]
    BY DEF Adds, Inv, ChainInv
  <2>. QED  BY <2>1, AddsKeepsChain DEF Inv
<1>2. /\ Len(chain) \in Nat /\ Len(chain') = Len(chain) + 1
      /\ chain'[Len(chain) + 1] = Event(action, j)
  BY Appending DEF Inv, ChainInv
<1>. QED  BY <1>1, <1>2

LEMMA AnnounceKeeps ==
  ASSUME Inv, NEW d \in Download, Announce(d)
  PROVE  ChainInv' /\ PacketInv'
<1>1. Fits("read", draft[d], chain, ended, site.tsa) /\ DOMAIN draft = Download
  BY DEF Inv, PacketInv, DraftInv, Announce
<1>2. UNCHANGED <<ended, site>> /\ chain' = Append(chain, Event("bundle.download", J(d)))
  BY DEF Announce, store
<1>3. J(d) = draft[d].job /\ J(d) \in Job
  BY <1>1 DEF J, Fits, Begun, Working
<1>4. /\ ChainInv' /\ Grown /\ Len(chain') \in 1..Len(chain') /\ Len(chain') > Len(chain)
      /\ chain'[Len(chain')] = Event("bundle.download", draft[d].job)
  BY <1>2, <1>3, Citing DEF Actions
<1>. DEFINE n == Len(chain')
            readme == Readme(J(d), key)
<1>5. readme # Absent
  BY DEF Readme, Absent
<1>6. draft' = [draft EXCEPT ![d].readme = readme, ![d].download = n]
  BY DEF Announce
<1>. HIDE DEF n, readme
<1>7. draft'[d] = [draft[d] EXCEPT !.readme = readme, !.download = n]
  BY <1>1, <1>6
<1>8. /\ Drafted(draft'[d]) /\ draft'[d].readme = readme /\ draft'[d].download = n
      /\ draft'[d].job = draft[d].job /\ draft'[d].original = draft[d].original
      /\ draft'[d].certificate = draft[d].certificate
      /\ draft'[d].manifest = draft[d].manifest /\ draft'[d].derivative = draft[d].derivative
  BY <1>1, <1>7 DEF Drafted, Fits
<1>9. at'[d] = "announced" /\ at' \in [Download -> Places] /\ Others(d)
  BY <1>6 DEF Announce, Go, Places, Inv, PacketInv, DraftInv, Others, issued
<1>10. Begun(draft'[d], ended') /\ Gathered(draft'[d])
  BY <1>1, <1>2, <1>8 DEF Fits, Begun, Gathered, Working
<1>11. Announced(draft'[d], chain')
  BY <1>4, <1>5, <1>8 DEF Announced, n
<1>12. Fits(at'[d], draft'[d], chain', ended', site.tsa)
  BY <1>8, <1>9, <1>10, <1>11 DEF Fits, Packaged
<1>13. Cites(at'[d], draft'[d]) = {n} /\ n > Len(chain)
  BY <1>4, <1>8, <1>9 DEF Cites, n
<1>. QED  BY <1>4, <1>9, <1>12, <1>13, Moving DEF Inv

LEMMA AssembleKeeps ==
  ASSUME Inv, NEW d \in Download, Assemble(d)
  PROVE  ChainInv' /\ PacketInv'
<1>1. Fits("announced", draft[d], chain, ended, site.tsa) /\ DOMAIN draft = Download
  BY DEF Inv, PacketInv, DraftInv, Assemble
<1>2. UNCHANGED <<ended, site>> /\ chain' = Append(chain, Event("certificate.issued", J(d)))
  BY DEF Assemble, store
<1>3. J(d) = draft[d].job /\ J(d) \in Job
  BY <1>1 DEF J, Fits, Begun, Working
<1>4. /\ ChainInv' /\ Grown /\ Len(chain) \in Nat /\ Len(chain') \in 1..Len(chain')
      /\ Len(chain') > Len(chain)
      /\ chain'[Len(chain')] = Event("certificate.issued", draft[d].job)
  BY <1>2, <1>3, Citing DEF Actions
<1>. DEFINE n == Len(chain')
            generated == [second |-> now, by |-> d]
            p == [kind |-> "packet", facts |-> Facts(draft[d].job, "done"),
                  refs |-> [download |-> draft[d].download, issued |-> n],
                  schema |-> Schema, generated |-> generated, hashes |-> Hashes(draft[d]),
                  anchor |-> Absent, signature |-> Absent]
<1>5. generated # Absent
  <2>1. "by" \in DOMAIN generated /\ "by" \notin DOMAIN Absent
    BY DEF Absent
  <2>. QED  BY <2>1
<1>6. draft' = [draft EXCEPT ![d].packet = p]
  BY <1>3 DEF Assemble, Set, CitedDownload, Hashes
<1>. HIDE DEF generated, n
<1>7. draft'[d] = [draft[d] EXCEPT !.packet = p]
  BY <1>1, <1>6
<1>8. /\ p.refs.issued = n /\ p.refs.download = draft[d].download /\ p.generated = generated
      /\ p = [kind |-> "packet", facts |-> Facts(draft[d].job, "done"),
              refs |-> [download |-> draft[d].download, issued |-> p.refs.issued],
              schema |-> Schema, generated |-> p.generated, hashes |-> Hashes(draft[d]),
              anchor |-> p.anchor, signature |-> p.signature]
  OBVIOUS
<1>. HIDE DEF p
<1>9. /\ Drafted(draft'[d]) /\ draft'[d].readme = draft[d].readme
      /\ draft'[d].download = draft[d].download /\ draft'[d].packet = p
      /\ draft'[d].job = draft[d].job /\ draft'[d].original = draft[d].original
      /\ draft'[d].certificate = draft[d].certificate
      /\ draft'[d].manifest = draft[d].manifest /\ draft'[d].derivative = draft[d].derivative
  BY <1>1, <1>7 DEF Drafted, Fits
<1>10. at'[d] = "assembled" /\ at' \in [Download -> Places] /\ Others(d)
  BY <1>6 DEF Assemble, Go, Places, Inv, PacketInv, DraftInv, Others, issued
<1>11. Begun(draft'[d], ended') /\ Gathered(draft'[d])
  BY <1>1, <1>2, <1>9 DEF Fits, Begun, Gathered, Working
<1>12. Announced(draft[d], chain) /\ Announced(draft'[d], chain')
  BY <1>1, <1>4, <1>9 DEF Announced, Fits, Grown, Extends
<1>13. Hashes(draft'[d]) = Hashes(draft[d])
  BY <1>9 DEF Hashes
<1>14. Packed(draft'[d], chain')
  BY <1>4, <1>5, <1>8, <1>9, <1>12, <1>13 DEF Packed, n, Announced
<1>15. Fits(at'[d], draft'[d], chain', ended', site.tsa)
  <2>1. p.anchor = Absent
    BY DEF p
  <2>. QED  BY <2>1, <1>9, <1>10, <1>11, <1>12, <1>14 DEF Fits, Packaged
<1>16. Cites(at'[d], draft'[d]) = {draft[d].download, n} /\ Cites(at[d], draft[d]) = {draft[d].download}
  BY <1>8, <1>9, <1>10 DEF Cites, Packaged, Assemble
<1>. QED  BY <1>4, <1>10, <1>15, <1>16, Moving DEF Inv, n

\* A step that signs or stamps the packet of one download.
LEMMA Sealing ==
  ASSUME Inv, NEW d \in Download, at[d] \in Packaged, NEW place \in Packaged,
         UNCHANGED <<chain, ended, site, delivered, key>>, Go(d, place),
         NEW q, Alike(draft[d].packet, q), draft' = [draft EXCEPT ![d].packet = q],
         place # "assembled",
         place = "signed" => ToBeStamped(q, site.tsa) \/ ByOperator(q),
         place \in {"labelled", "resign"} => ToBeStamped(q, site.tsa),
         place = "complete" => Stamped(q, site.tsa) \/ ByOperator(q),
         place # "signed" => q.signature.keyId \in Key
  PROVE  ChainInv' /\ PacketInv'
<1>1. ChainInv' /\ Grown
  BY Still DEF Inv
<1>2. /\ Fits(at[d], draft[d], chain, ended, site.tsa) /\ DOMAIN draft = Download
      /\ Drafted(draft[d]) /\ Packed(draft[d], chain) /\ Begun(draft[d], ended)
      /\ Gathered(draft[d]) /\ Announced(draft[d], chain)
  BY DEF Inv, PacketInv, DraftInv, Fits, Packaged, Working
<1>3. draft'[d] = [draft[d] EXCEPT !.packet = q] /\ draft'[d].packet = q
  BY <1>2 DEF Drafted
<1>4. /\ Drafted(draft'[d]) /\ Packed(draft'[d], chain) /\ Begun(draft'[d], ended)
      /\ Gathered(draft'[d]) /\ Announced(draft'[d], chain)
      /\ draft'[d].packet.refs = draft[d].packet.refs /\ draft'[d].download = draft[d].download
  <2>. DEFINE dr == draft[d]
              es == draft'[d]
  <2>1. /\ Drafted(dr) /\ Packed(dr, chain) /\ Begun(dr, ended) /\ Gathered(dr)
        /\ Announced(dr, chain)
    BY <1>2
  <2>2. es = [dr EXCEPT !.packet = es.packet] /\ Alike(dr.packet, es.packet)
    BY <1>3
  <2>. HIDE DEF dr, es
  <2>3. /\ Drafted(es) /\ Packed(es, chain) /\ Begun(es, ended) /\ Gathered(es)
        /\ Announced(es, chain) /\ es.packet.refs = dr.packet.refs /\ es.download = dr.download
    BY <2>1, <2>2, Repacking
  <2>. QED  BY <2>3 DEF dr, es
<1>5. at'[d] = place /\ at' \in [Download -> Places] /\ Others(d)
  BY DEF Go, Places, Packaged, Inv, PacketInv, DraftInv, Others
<1>6. Fits(at'[d], draft'[d], chain', ended', site.tsa)
  BY <1>3, <1>4, <1>5 DEF Fits, Packaged
<1>7. Cites(at'[d], draft'[d]) = Cites(at[d], draft[d])
  BY <1>4, <1>5 DEF Cites, Packaged
<1>. QED  BY <1>1, <1>5, <1>6, <1>7, Moving DEF Inv

LEMMA PacketParted ==
  ASSUME Inv, NEW d \in Download, at[d] \in Packaged
  PROVE  /\ Parted(draft[d].packet) /\ Fits(at[d], draft[d], chain, ended, site.tsa)
         /\ key \in Key
<1>1. Fits(at[d], draft[d], chain, ended, site.tsa) /\ Packed(draft[d], chain)
  BY DEF Inv, PacketInv, DraftInv, Fits
<1>. QED  BY <1>1 DEF Packed, Parted, Inv, PacketInv, DraftInv

\* Another anchor under a new signature.
LEMMA SigningAnew ==
  ASSUME NEW p, Parted(p), NEW k
  PROVE  LET q == Signed([p EXCEPT !.anchor = OperatorAnchor(k)], k, Marker(FALSE))
         IN  Alike(p, q) /\ q.anchor = OperatorAnchor(k) /\ SignedBy(q, k, Marker(FALSE))
<1>. DEFINE r == [p EXCEPT !.anchor = OperatorAnchor(k)]
            q == Signed(r, k, Marker(FALSE))
<1>1. Parted(r) /\ Alike(p, r) /\ r.anchor = OperatorAnchor(k)
  BY DEF Parted, Alike
<1>. HIDE DEF r
<1>2. Alike(r, q) /\ q.anchor = r.anchor /\ SignedBy(q, k, Marker(FALSE))
  BY <1>1, Signing
<1>. QED  BY <1>1, <1>2 DEF Alike, r

LEMMA SignKeeps ==
  ASSUME Inv, NEW d \in Download, Sign(d)
  PROVE  ChainInv' /\ PacketInv'
<1>. DEFINE p == draft[d].packet
<1>1. /\ at[d] = "assembled" /\ at[d] \in Packaged /\ Go(d, "signed") /\ key \in Key
      /\ UNCHANGED <<chain, ended, site, delivered, key>> /\ Parted(p)
  BY PacketParted DEF Sign, store, issued, Packaged
<1>2. CASE site.tsa = "off"
  <2>. DEFINE q == Signed([p EXCEPT !.anchor = OperatorAnchor(key)], key, Marker(FALSE))
  <2>1. Alike(p, q) /\ ByOperator(q)
    BY <1>1, SigningAnew DEF ByOperator
  <2>2. draft' = [draft EXCEPT ![d].packet = q]
    BY <1>2 DEF Sign, Set
  <2>. HIDE DEF q
  <2>. QED  BY <1>1, <2>1, <2>2, Sealing DEF Packaged
<1>3. CASE site.tsa # "off"
  <2>. DEFINE q == Signed(p, key, Marker(TRUE))
  <2>1. p.anchor = Absent
    BY <1>1, PacketParted DEF Fits
  <2>2. Alike(p, q) /\ ToBeStamped(q, site.tsa)
    BY <1>1, <1>3, <2>1, Signing DEF ToBeStamped
  <2>3. draft' = [draft EXCEPT ![d].packet = q]
    BY <1>3 DEF Sign, Set
  <2>. HIDE DEF q
  <2>. QED  BY <1>1, <2>2, <2>3, Sealing DEF Packaged
<1>. QED  BY <1>2, <1>3

LEMMA FallBackKeeps ==
  ASSUME Inv, NEW d \in Download, FallBack(d)
  PROVE  ChainInv' /\ PacketInv'
<1>. DEFINE p == draft[d].packet
            q == Resigned(p, key)
<1>1. /\ at[d] \in Packaged /\ Go(d, "signed") /\ key \in Key
      /\ UNCHANGED <<chain, ended, site, delivered, key>> /\ Parted(p)
  BY PacketParted DEF FallBack, store, issued, Packaged
<1>2. Alike(p, q) /\ ByOperator(q)
  BY <1>1, SigningAnew DEF ByOperator, Resigned
<1>3. draft' = [draft EXCEPT ![d].packet = q]
  BY DEF FallBack, Set
<1>. HIDE DEF q
<1>. QED  BY <1>1, <1>2, <1>3, Sealing DEF Packaged

\* Naming the key changes neither what was signed nor by whom.
LEMMA Naming ==
  ASSUME NEW p, Parted(p), NEW k, NEW marker, SignedBy(p, k, marker), NEW id
  PROVE  LET q == [p EXCEPT !.signature.keyId = id]
         IN  /\ Alike(p, q) /\ q.anchor = p.anchor /\ SignedBy(q, k, marker)
             /\ q.signature.keyId = id
<1>. DEFINE sig == [p.signature EXCEPT !.keyId = id]
            q == [p EXCEPT !.signature.keyId = id]
<1>1. /\ q = [p EXCEPT !.signature = sig] /\ q.signature = sig /\ q.anchor = p.anchor
      /\ Alike(p, q)
  BY DEF Alike, Parted
<1>2. sig.keyId = id /\ sig = [keyId |-> id, marker |-> marker, digest |-> Canonical(p, marker),
                               value |-> [by |-> k, over |-> Canonical(p, marker)]]
  BY DEF SignedBy
<1>. HIDE DEF sig, q
<1>3. Canonical(q, marker) = Canonical(p, marker)
  BY <1>1 DEF Canonical, Alike, Parted
<1>. QED  BY <1>1, <1>2, <1>3 DEF SignedBy, q

LEMMA LabelKeeps ==
  ASSUME Inv, NEW d \in Download, Label(d)
  PROVE  ChainInv' /\ PacketInv'
<1>. DEFINE p == draft[d].packet
            q == [p EXCEPT !.signature.keyId = key]
            place == IF p.anchor = Absent THEN "labelled" ELSE "complete"
<1>1. /\ at[d] = "signed" /\ at[d] \in Packaged /\ Go(d, place) /\ key \in Key
      /\ UNCHANGED <<chain, ended, site, delivered, key>> /\ Parted(p)
      /\ (ToBeStamped(p, site.tsa) \/ ByOperator(p))
  BY PacketParted DEF Label, store, issued, Packaged, Fits
<1>2. draft' = [draft EXCEPT ![d].packet = q]
  BY DEF Label
<1>. HIDE DEF p, q
<1>3. CASE ToBeStamped(p, site.tsa)
  <2>1. Alike(p, q) /\ ToBeStamped(q, site.tsa) /\ q.signature.keyId = key
    BY <1>1, <1>3, Naming DEF ToBeStamped, q
  <2>2. place = "labelled"
    BY <1>3 DEF ToBeStamped
  <2>. QED  BY <1>1, <1>2, <2>1, <2>2, Sealing DEF Packaged, p
<1>4. CASE ByOperator(p)
  <2>1. Alike(p, q) /\ ByOperator(q) /\ q.signature.keyId = key
    BY <1>1, <1>4, Naming DEF ByOperator, q
  <2>2. place = "complete"
    BY <1>4, OperatorsAnchor DEF ByOperator
  <2>. QED  BY <1>1, <1>2, <2>1, <2>2, Sealing DEF Packaged, p
<1>. QED  BY <1>1, <1>3, <1>4

\* What a timestamped packet's signature covers leaves the anchor out.
LEMMA Anchoring ==
  ASSUME NEW p, Parted(p), NEW k, SignedBy(p, k, Marker(TRUE)), NEW a
  PROVE  LET q == [p EXCEPT !.anchor = a]
         IN  /\ Alike(p, q) /\ q.anchor = a /\ q.signature = p.signature
             /\ SignedBy(q, k, Marker(TRUE))
<1>. DEFINE q == [p EXCEPT !.anchor = a]
<1>1. q.signature = p.signature /\ q.anchor = a /\ Alike(p, q)
  BY DEF Alike, Parted
<1>2. Canonical(q, Marker(TRUE)) = Canonical(p, Marker(TRUE))
  BY DEF Canonical, Marker, Parted
<1>. QED  BY <1>1, <1>2 DEF SignedBy

LEMMA StampKeeps ==
  ASSUME Inv, NEW d \in Download, Stamp(d)
  PROVE  ChainInv' /\ PacketInv'
<1>. DEFINE p == draft[d].packet
<1>1. /\ at[d] = "labelled" /\ at[d] \in Packaged /\ key \in Key /\ Parted(p)
      /\ UNCHANGED <<chain, ended, site, delivered, key>>
      /\ Fits("labelled", draft[d], chain, ended, site.tsa) /\ ToBeStamped(p, site.tsa)
      /\ p.signature.keyId \in Key
  BY PacketParted DEF Stamp, store, issued, Packaged, Fits
<1>2. ChainInv' /\ Grown /\ DOMAIN draft = Download
  BY <1>1, Still DEF Inv, PacketInv, DraftInv
<1>3. CASE \E a : /\ site.tsa \in Cert /\ Go(d, "complete")
                  /\ draft' = [draft EXCEPT ![d].packet.anchor =
                       [type |-> "rfc3161-tsa", digest |-> p.signature.value,
                        reference |-> Absent, token |-> a]]
  <2>1. PICK a : /\ site.tsa \in Cert /\ Go(d, "complete")
                 /\ draft' = [draft EXCEPT ![d].packet.anchor =
                      [type |-> "rfc3161-tsa", digest |-> p.signature.value,
                       reference |-> Absent, token |-> a]]
    BY <1>3
  <2>. DEFINE anchor == [type |-> "rfc3161-tsa", digest |-> p.signature.value,
                         reference |-> Absent, token |-> a]
              q == [p EXCEPT !.anchor = anchor]
  <2>2. draft' = [draft EXCEPT ![d].packet = q]
    BY <2>1
  <2>3. anchor.token = a
    OBVIOUS
  <2>. HIDE DEF p, anchor
  <2>4. PICK k \in Key : SignedBy(p, k, Marker(TRUE))
    BY <1>1 DEF ToBeStamped
  <2>5. /\ Alike(p, q) /\ q.anchor = anchor /\ q.signature = p.signature
        /\ SignedBy(q, k, Marker(TRUE))
    BY <1>1, <2>4, Anchoring
  <2>. HIDE DEF q
  <2>6. Stamped(q, site.tsa)
    BY <2>1, <2>3, <2>5 DEF Stamped, anchor
  <2>. QED  BY <1>1, <2>1, <2>2, <2>5, <2>6, Sealing DEF Packaged, p
<1>4. CASE \E place \in {"labelled", "resign"} :
             Go(d, place) /\ (UNCHANGED draft \/ \E n : draft' = [draft EXCEPT ![d].tries = n])
  <2>1. PICK place \in {"labelled", "resign"} :
               Go(d, place) /\ (UNCHANGED draft \/ \E n : draft' = [draft EXCEPT ![d].tries = n])
    BY <1>4
  <2>2. at'[d] = place /\ at' \in [Download -> Places] /\ Others(d)
    BY <1>1, <2>1 DEF Go, Places, Inv, PacketInv, DraftInv, Others
  <2>3. draft'[d] = draft[d] \/ \E n : draft'[d] = [draft[d] EXCEPT !.tries = n]
    BY <1>2, <2>1
  <2>4. /\ Drafted(draft'[d]) /\ draft'[d].packet = p /\ draft'[d].readme = draft[d].readme
        /\ draft'[d].job = draft[d].job /\ draft'[d].original = draft[d].original
        /\ draft'[d].certificate = draft[d].certificate /\ draft'[d].download = draft[d].download
        /\ draft'[d].manifest = draft[d].manifest /\ draft'[d].derivative = draft[d].derivative
    BY <1>1, <2>3 DEF Drafted, Fits
  <2>5. /\ Begun(draft'[d], ended) /\ Gathered(draft'[d]) /\ Announced(draft'[d], chain)
    BY <1>1, <2>4 DEF Fits, Begun, Gathered, Announced, Working, Packaged
  <2>6. Packed(draft'[d], chain)
    <3>1. Hashes(draft'[d]) = Hashes(draft[d])
      BY <2>4 DEF Hashes
    <3>. QED  BY <1>1, <2>4, <3>1 DEF Fits, Packed, Packaged
  <2>. HIDE DEF p
  <2>7. Fits(at'[d], draft'[d], chain', ended', site.tsa)
    BY <1>1, <2>2, <2>4, <2>5, <2>6 DEF Fits
  <2>8. Cites(at'[d], draft'[d]) = Cites(at[d], draft[d])
    BY <1>1, <2>2, <2>4 DEF Cites, Packaged, p
  <2>. QED  BY <1>2, <2>2, <2>7, <2>8, Moving DEF Inv
<1>5. \/ \E a : /\ site.tsa \in Cert /\ Go(d, "complete")
                /\ draft' = [draft EXCEPT ![d].packet.anchor =
                     [type |-> "rfc3161-tsa", digest |-> p.signature.value,
                      reference |-> Absent, token |-> a]]
      \/ \E place \in {"labelled", "resign"} :
           Go(d, place) /\ (UNCHANGED draft \/ \E n : draft' = [draft EXCEPT ![d].tries = n])
  <2>1. CASE site.tsa = "bad url" /\ Go(d, "resign") /\ UNCHANGED draft
    BY <2>1
  <2>2. CASE \E reply \in site.replies :
               /\ site.tsa \in Cert /\ Go(d, "complete")
               /\ draft' = [draft EXCEPT ![d].packet.anchor =
                    [type |-> "rfc3161-tsa", digest |-> p.signature.value, reference |-> Absent,
                     token |-> Extracted(reply, site.tsa, p.signature.value, Nothing)]]
    BY <2>2
  <2>3. CASE Set(d, "tries", AfterAttempt(d)[1]) /\ Go(d, AfterAttempt(d)[2])
    <3>. DEFINE n == AfterAttempt(d)[1]
                place == AfterAttempt(d)[2]
    <3>1. place \in {"labelled", "resign"}
      BY DEF AfterAttempt
    <3>2. draft' = [draft EXCEPT ![d].tries = n] /\ Go(d, place)
      BY <2>3 DEF Set
    <3>. HIDE DEF n, place
    <3>. QED  BY <3>1, <3>2
  <2>. QED  BY <2>1, <2>2, <2>3 DEF Stamp
<1>. QED  BY <1>3, <1>4, <1>5

LEMMA NothingInHand ==
  ASSUME NEW place \in {"idle", "delivered", "dead"}, NEW c, NEW e, NEW tsa
  PROVE  Fits(place, Draft0, c, e, tsa) /\ Cites(place, Draft0) = {}
<1>1. Drafted(Draft0)
  BY DEF Drafted, Draft0
<1>. QED  BY <1>1 DEF Fits, Cites, Working, Packaged

LEMMA DeliverKeeps ==
  ASSUME Inv, NEW d \in Download, Deliver(d)
  PROVE  ChainInv' /\ PacketInv'
<1>1. /\ at[d] = "complete" /\ UNCHANGED <<chain, ended, site, key>>
      /\ delivered' = delivered \cup {Members(draft[d])}
      /\ at'[d] = "delivered" /\ at' \in [Download -> Places] /\ DOMAIN draft' = Download
      /\ draft'[d] = Draft0
      /\ \A u \in Download \ {d} : at'[u] = at[u] /\ draft'[u] = draft[u]
  BY DEF Deliver, store, Go, Places, Inv, PacketInv, DraftInv
<1>2. ChainInv'
  BY <1>1, Still DEF Inv
<1>3. Fits("complete", draft[d], chain, ended, site.tsa)
  BY <1>1 DEF Inv, PacketInv, DraftInv
<1>4. CitedBy(Members(draft[d])) = Cites(at[d], draft[d])
  BY <1>1, <1>3, FilesOfDraft
<1>5. Fits("delivered", Draft0, chain, ended, site.tsa) /\ Cites("delivered", Draft0) = {}
  BY NothingInHand
<1>6. DraftInv'
  BY <1>1, <1>5 DEF Inv, PacketInv, DraftInv
<1>7. DeliveredInv'
  BY <1>1, <1>3 DEF Inv, PacketInv, DeliveredInv
<1>8. CitesInv'
  <2>1. Cites(at'[d], draft'[d]) = {}
    BY <1>1, <1>5
  <2>2. \A u \in Download \ {d} :
          /\ Cites(at'[u], draft'[u]) = Cites(at[u], draft[u])
          /\ Cites(at[u], draft[u]) \cap CitedBy(Members(draft[d])) = {}
    BY <1>1, <1>4 DEF Inv, PacketInv, CitesInv
  <2>3. ASSUME NEW u \in Download, NEW v \in Download, u # v
        PROVE  Cites(at'[u], draft'[u]) \cap Cites(at'[v], draft'[v]) = {}
    <3>1. Cites(at[u], draft[u]) \cap Cites(at[v], draft[v]) = {}
      BY <2>3 DEF Inv, PacketInv, CitesInv
    <3>. QED  BY <2>1, <2>2, <3>1
  <2>4. ASSUME NEW u \in Download, NEW files \in delivered'
        PROVE  Cites(at'[u], draft'[u]) \cap CitedBy(files) = {}
    <3>1. \/ files = Members(draft[d])
          \/ files \in delivered /\ Cites(at[u], draft[u]) \cap CitedBy(files) = {}
      BY <1>1 DEF Inv, PacketInv, CitesInv
    <3>. QED  BY <2>1, <2>2, <3>1
  <2>5. ASSUME NEW files \in delivered', NEW others \in delivered', files # others
        PROVE  CitedBy(files) \cap CitedBy(others) = {}
    <3>1. CASE files \in delivered /\ others \in delivered
      BY <2>5, <3>1 DEF Inv, PacketInv, CitesInv
    <3>2. CASE files \in delivered /\ others = Members(draft[d])
      BY <3>2, <1>4 DEF Inv, PacketInv, CitesInv
    <3>3. CASE files = Members(draft[d]) /\ others \in delivered
      BY <3>3, <1>4 DEF Inv, PacketInv, CitesInv
    <3>. QED  BY <1>1, <2>5, <3>1, <3>2, <3>3
  <2>. QED  BY <2>3, <2>4, <2>5 DEF CitesInv
<1>. QED  BY <1>2, <1>6, <1>7, <1>8 DEF PacketInv

LEMMA DieKeeps ==
  ASSUME Inv, NEW d \in Download, Die(d)
  PROVE  ChainInv' /\ PacketInv'
<1>1. UNCHANGED <<chain, ended, site>> /\ at'[d] = "dead" /\ at' \in [Download -> Places]
      /\ draft'[d] = Draft0 /\ Others(d)
  BY DEF Die, store, issued, Go, Places, Inv, PacketInv, DraftInv, Others
<1>2. ChainInv' /\ Grown
  BY <1>1, Still DEF Inv
<1>3. Fits("dead", Draft0, chain', ended', site.tsa) /\ Cites("dead", Draft0) = {}
  BY NothingInHand
<1>. QED  BY <1>1, <1>2, <1>3, Moving DEF Inv

-----------------------------------------------------------------------------
(* The steps of the others.                                                 *)

\* Downloads and recipients keep what they have.
LEMMA Resting ==
  ASSUME Inv, Grown, UNCHANGED <<at, draft, delivered, site>>, key' \in Key
  PROVE  PacketInv'
<1>. DEFINE d == Requester
<1>1. d \in Download
  BY SitesAssumption
<1>2. Others(d) /\ at' \in [Download -> Places]
  BY DEF Others, Inv, PacketInv, DraftInv
<1>3. Fits(at'[d], draft'[d], chain', ended', site.tsa)
  <2>1. Fits(at[d], draft[d], chain, ended, site.tsa)
    BY <1>1 DEF Inv, PacketInv, DraftInv
  <2>. QED  BY <2>1, Keeping DEF Grown
<1>. HIDE DEF d
<1>. QED  BY <1>1, <1>2, <1>3, Moving DEF Inv

LEMMA FinishKeeps ==
  ASSUME Inv, NEW j \in Job, NEW status \in {"done", "refused"}, Finish(j, status)
  PROVE  ChainInv' /\ PacketInv'
<1>1. /\ ended' \in [Job -> {"none", "done", "refused"}]
      /\ \A i \in Job : ended[i] # "none" => ended'[i] = ended[i]
  BY DEF Finish, Inv, ChainInv
<1>2. ChainInv' /\ Grown
  <2>1. CASE j \in Wrapped
    <3>1. Adds("release.created") /\ "release.created" \in Actions
      BY <2>1 DEF Finish, Adds, Actions
    <3>. QED  BY <1>1, <3>1, AddsKeepsChain DEF Inv
  <2>2. CASE j \notin Wrapped
    <3>1. UNCHANGED chain
      BY <2>2 DEF Finish
    <3>2. ChainInv'
      BY <1>1, <3>1 DEF Inv, ChainInv, Recorder
    <3>. QED  BY <1>1, <3>1, <3>2 DEF Inv, ChainInv, Grown, Extends
  <2>. QED  BY <2>1, <2>2
<1>3. UNCHANGED <<at, draft, delivered, site>> /\ key' \in Key
  BY DEF Finish, issued, Inv, PacketInv, DraftInv
<1>. QED  BY <1>2, <1>3, Resting

LEMMA RecordKeeps ==
  ASSUME Inv, NEW j \in Job, Record(j)
  PROVE  ChainInv' /\ PacketInv'
<1>1. UNCHANGED <<at, draft, delivered, site>> /\ key' \in Key
  BY DEF Record, issued, Inv, PacketInv, DraftInv
<1>. QED  BY <1>1, RecordKeepsChain, Resting DEF Inv

LEMMA PullKeeps ==
  ASSUME Inv, NEW j \in Job, NEW user, Pull(j, user)
  PROVE  ChainInv' /\ PacketInv'
<1>1. UNCHANGED <<at, draft, delivered, site>> /\ key' \in Key
  BY DEF Pull, Inv, PacketInv, DraftInv
<1>2. UNCHANGED ended /\ chain' = Append(chain, Event("certificate.issued", j))
  BY DEF Pull, store
<1>. QED  BY <1>1, <1>2, Citing, Resting DEF Actions

LEMMA RestKeeps ==
  ASSUME Inv, UNCHANGED <<site, ended, chain, at, draft, delivered>>, key' \in Key
  PROVE  ChainInv' /\ PacketInv'
  BY Still, Resting DEF Inv

LEMMA InitInv == Init => Inv
<1>. SUFFICES ASSUME Init PROVE Inv
  OBVIOUS
<1>1. key \in Key /\ site \in Sites
  BY SitesAssumption DEF Init
<1>2. chain = << >> /\ Sequence(chain) /\ Len(chain) = 0
  <2>1. << >> \in Seq({})
    BY EmptySeq
  <2>. QED  BY <2>1, EmptySeq DEF Init, Sequence
<1>3. ChainInv
  BY <1>2 DEF Init, ChainInv
<1>4. \A d \in Download :
        /\ at[d] = "idle" /\ draft[d] = Draft0
        /\ Fits(at[d], draft[d], chain, ended, site.tsa) /\ Cites(at[d], draft[d]) = {}
  BY NothingInHand DEF Init
<1>5. DraftInv
  BY <1>1, <1>4 DEF DraftInv, Init, Places
<1>6. DeliveredInv /\ CitesInv
  BY <1>4 DEF DeliveredInv, CitesInv, Init
<1>. QED  BY <1>3, <1>5, <1>6 DEF Inv, PacketInv

LEMMA StepInv == Inv /\ [Next]_vars => Inv'
<1>. SUFFICES ASSUME Inv, [Next]_vars PROVE Inv'
  OBVIOUS
<1>1. site.jobs \subseteq Job /\ site.downloads \subseteq Download
  BY SiteFacts
<1>2. ASSUME NEW j \in site.jobs, NEW status \in {"done", "refused"}, Finish(j, status)
      PROVE  Inv'
  BY <1>1, <1>2, FinishKeeps DEF Inv
<1>3. ASSUME NEW j \in site.jobs, Record(j) PROVE Inv'
  BY <1>1, <1>3, RecordKeeps DEF Inv
<1>4. ASSUME NEW j \in site.jobs, NEW user \in site.downloads, Pull(j, user) PROVE Inv'
  BY <1>1, <1>4, PullKeeps DEF Inv
<1>5. ASSUME NEW j \in site.jobs, Result(j) \/ Damage(j) PROVE Inv'
  <2>1. UNCHANGED <<site, ended, chain, at, draft, delivered>> /\ key' \in Key
    BY <1>5 DEF Result, Damage, store, issued, Inv, PacketInv, DraftInv
  <2>. QED  BY <2>1, RestKeeps DEF Inv
<1>6. ASSUME NEW d \in site.downloads, Begin(d) \/ Die(d) PROVE Inv'
  BY <1>1, <1>6, BeginKeeps, DieKeeps DEF Inv
<1>7. CASE Progress
  <2>1. PICK d \in Download :
          \/ ReadFiles(d) \/ Announce(d) \/ Assemble(d) \/ Sign(d) \/ Label(d)
          \/ Stamp(d) \/ FallBack(d) \/ Deliver(d)
    BY <1>7 DEF Progress
  <2>. QED  BY <2>1, ReadKeeps, AnnounceKeeps, AssembleKeeps, SignKeeps, LabelKeeps, StampKeeps,
               FallBackKeeps, DeliverKeeps DEF Inv
<1>8. CASE Tick \/ Rotate \/ UNCHANGED vars
  <2>1. UNCHANGED <<site, ended, chain, at, draft, delivered>> /\ key' \in Key
    BY <1>8 DEF Tick, Rotate, vars, store, issued, Inv, PacketInv, DraftInv
  <2>. QED  BY <2>1, RestKeeps DEF Inv
<1>. QED  BY <1>2, <1>3, <1>4, <1>5, <1>6, <1>7, <1>8 DEF Next

\* The drafts, the packets delivered and the chain agree.
THEOREM DraftsFit == Spec => []Inv
  BY InitInv, StepInv, PTL DEF Spec

-----------------------------------------------------------------------------
(* What the invariant says of a packet.                                     *)

LEMMA MembersAre ==
  ASSUME NEW dr, NEW c, NEW e, NEW tsa, Fits("complete", dr, c, e, tsa)
  PROVE  LET files == Members(dr)
             names == {"packet", "manifest", "report", "certificate", "readme", "nested"}
         IN  /\ DOMAIN files = names \cup (IF dr.original THEN {"original"} ELSE {})
             /\ files["packet"] = dr.packet /\ files["manifest"] = dr.manifest
             /\ files["report"] = Report(dr.job) /\ files["certificate"] = dr.certificate
             /\ files["readme"] = dr.readme /\ files["nested"] = dr.derivative
             /\ dr.original => files["original"] = Original(dr.job)
<1>1. DOMAIN Members(dr) = {"packet", "manifest", "report", "certificate", "readme", "nested"}
                             \cup (IF dr.original THEN {"original"} ELSE {})
  BY DEF Members
<1>2. Members(dr)["packet"] = dr.packet
  BY DEF Members
<1>3. Members(dr)["manifest"] = dr.manifest
  BY DEF Members
<1>4. Members(dr)["report"] = Report(dr.job)
  BY DEF Members
<1>5. Members(dr)["certificate"] = dr.certificate
  BY DEF Members
<1>6. Members(dr)["readme"] = dr.readme
  BY DEF Members
<1>7. Members(dr)["nested"] = dr.derivative
  BY DEF Members
<1>8. ASSUME dr.original PROVE Members(dr)["original"] = Original(dr.job)
  BY <1>8 DEF Members
<1>. QED  BY <1>1, <1>2, <1>3, <1>4, <1>5, <1>6, <1>7, <1>8

\* What the verifier is told of the chain is the chain.
LEMMA ExportIs ==
  ASSUME ChainInv
  PROVE  /\ Len(Export) = Len(chain)
         /\ \A i \in 1..Len(chain) :
              Export[i].seq = i /\ Export[i].event = chain[i] /\ Export[i].sealed = chain[i]
  BY DEF Export, ChainInv

\* The one event that records a job's end
LEMMA TheRecorder ==
  ASSUME ChainInv, NEW j \in Job, NEW i \in Seqs("job.sanitize", j)
  PROVE  /\ Seqs("job.sanitize", j) = {i} /\ Terminal(Export, j) = {i}
         /\ i \in 1..Len(chain)
         /\ ended[j] = "done" => chain[i].derivative = Derivative(j)
<1>1. \A k \in Seqs("job.sanitize", j) : k = i
  BY DEF Seqs, ChainInv, Recorder
<1>2. Terminal(Export, j) = Seqs("job.sanitize", j)
  BY ExportIs DEF Terminal, Seqs
<1>. QED  BY <1>1, <1>2 DEF Seqs, ChainInv, Recorder

LEMMA ChosenOne == ASSUME NEW i \in Nat, NEW S, S = {i}
                   PROVE  (CHOOSE k \in S : \A m \in S : m <= k) = i /\ (CHOOSE k \in S : TRUE) = i
<1>1. \A k \in S : k = i
  OBVIOUS
<1>2. i \in S /\ \A m \in S : m <= i
  OBVIOUS
<1>3. (CHOOSE k \in S : \A m \in S : m <= k) \in S
  BY <1>2
<1>4. (CHOOSE k \in S : TRUE) \in S
  BY <1>2
<1>. QED  BY <1>1, <1>3, <1>4

LEMMA CustodyFromInv == Inv => CustodyHolds
<1>. SUFFICES ASSUME Inv, NEW files \in delivered,
                     PacketValid(files, Recipient(<<Export>>))
              PROVE  LET j == files["packet"].facts.job IN
                     /\ Recorded(j) /\ files["nested"] = Derivative(j)
                     /\ RecordedManifest(j) # Absent => files["manifest"] = RecordedManifest(j)
  BY DEF CustodyHolds
<1>1. PICK dr : files = Members(dr) /\ Fits("complete", dr, chain, ended, site.tsa)
  BY DEF Inv, PacketInv, DeliveredInv
<1>. DEFINE j == dr.job
            p == dr.packet
<1>2. /\ files["packet"] = p /\ files["manifest"] = dr.manifest /\ files["nested"] = dr.derivative
      /\ {"manifest", "nested"} \subseteq DOMAIN files
  BY <1>1, MembersAre
<1>3. /\ p.facts.job = j /\ p.hashes.manifest = dr.manifest /\ p.hashes.derivative = dr.derivative
      /\ j \in Job /\ ended[j] = "done" /\ dr.manifest # Absent /\ dr.derivative # Absent
  BY <1>1 DEF Fits, Packed, Hashes, Facts, Begun, Gathered, Working, Packaged
<1>4. ~ChainObjects(p, Export)
  <2>1. Recipient(<<Export>>).csv = <<Export>> /\ <<Export>> # << >> /\ <<Export>>[1] = Export
    BY DEF Recipient
  <2>. QED  BY <1>2, <2>1 DEF PacketValid
<1>5. Terminal(Export, j) # {}
  BY <1>3, <1>4 DEF ChainObjects
<1>6. PICK i : i \in Seqs("job.sanitize", j)
  BY <1>5, ExportIs DEF Terminal, Seqs, Inv
<1>7. /\ Seqs("job.sanitize", j) = {i} /\ Terminal(Export, j) = {i} /\ i \in 1..Len(chain)
      /\ chain[i].derivative = Derivative(j) /\ Export[i].event = chain[i] /\ i \in Nat
  BY <1>3, <1>6, TheRecorder, ExportIs DEF Inv, ChainInv
<1>8. /\ ~Disagree(chain[i].manifest, dr.manifest)
      /\ ~Disagree(chain[i].derivative, dr.derivative)
  BY <1>3, <1>4, <1>7, ChosenOne DEF ChainObjects
<1>9. RecordedManifest(j) = chain[i].manifest
  BY <1>7, ChosenOne DEF RecordedManifest
<1>10. Derivative(j) # Absent
  BY DEF Derivative, Absent
<1>. QED  BY <1>2, <1>3, <1>6, <1>7, <1>8, <1>9, <1>10 DEF Disagree, Recorded

LEMMA CitedFromInv == Inv => CitedEventsExist
<1>. SUFFICES ASSUME Inv, NEW files \in delivered
              PROVE  LET packet == files["packet"]
                         Cited(name) == chain[packet.refs[name]]
                     IN  /\ packet.refs.download < packet.refs.issued
                         /\ Cited("download") = Event("bundle.download", packet.facts.job)
                         /\ Cited("issued") = Event("certificate.issued", packet.facts.job)
                         /\ \A f \in delivered : f # files =>
                              f["packet"].refs.download # packet.refs.download
                              /\ f["packet"].refs.issued # packet.refs.issued
  BY DEF CitedEventsExist
<1>1. PICK dr : files = Members(dr) /\ Fits("complete", dr, chain, ended, site.tsa)
  BY DEF Inv, PacketInv, DeliveredInv
<1>2. files["packet"] = dr.packet
  BY <1>1, MembersAre
<1>3. /\ dr.packet.facts.job = dr.job /\ dr.packet.refs.download = dr.download
      /\ dr.download < dr.packet.refs.issued
      /\ chain[dr.download] = Event("bundle.download", dr.job)
      /\ chain[dr.packet.refs.issued] = Event("certificate.issued", dr.job)
  BY <1>1 DEF Fits, Packed, Announced, Facts, Packaged
<1>4. \A f \in delivered : f # files => CitedBy(f) \cap CitedBy(files) = {}
  BY DEF Inv, PacketInv, CitesInv
<1>. QED  BY <1>2, <1>3, <1>4 DEF CitedBy

\* For any jobs, downloads, keys and bounds: a packet that verifies with the
\* audit export holds what the chain recorded at the job's end, and cites two
\* events that no other packet cites.
THEOREM PacketCitesTheRecord == Spec => []CitesTheRecord
<1>1. Inv => CitesTheRecord
  BY CustodyFromInv, CitedFromInv DEF CitesTheRecord
<1>. QED  BY <1>1, DraftsFit, PTL

LEMMA SignedFacts ==
  ASSUME NEW p, NEW k, NEW marker, SignedBy(p, k, marker)
  PROVE  /\ p.signature.marker = marker /\ p.signature.digest = Canonical(p, marker)
         /\ p.signature.value = [by |-> k, over |-> Canonical(p, marker)]
         /\ p.signature # Absent
<1>. DEFINE id == p.signature.keyId
            covered == Canonical(p, marker)
            sig == [keyId |-> id, marker |-> marker, digest |-> covered,
                    value |-> [by |-> k, over |-> covered]]
<1>1. p.signature = sig
  BY DEF SignedBy
<1>. HIDE DEF id, covered
<1>2. /\ sig.marker = marker /\ sig.digest = covered
      /\ sig.value = [by |-> k, over |-> covered]
  OBVIOUS
<1>3. sig # Absent
  <2>1. "marker" \in DOMAIN sig /\ "marker" \notin DOMAIN Absent
    BY DEF Absent
  <2>. QED  BY <2>1
<1>. HIDE DEF sig
<1>. QED  BY <1>1, <1>2, <1>3 DEF covered

LEMMA StampedFacts ==
  ASSUME NEW p, NEW tsa, Stamped(p, tsa)
  PROVE  /\ p.anchor.type = "rfc3161-tsa" /\ p.anchor.digest = p.signature.value
         /\ tsa \in Cert /\ \E k \in Key : SignedBy(p, k, Marker(TRUE))
<1>. DEFINE token == p.anchor.token
            sig == p.signature.value
            anchor == [type |-> "rfc3161-tsa", digest |-> sig, reference |-> Absent, token |-> token]
<1>1. p.anchor = anchor
  BY DEF Stamped
<1>. HIDE DEF token, sig
<1>2. anchor.type = "rfc3161-tsa" /\ anchor.digest = sig
  OBVIOUS
<1>. HIDE DEF anchor
<1>3. p.anchor.type = "rfc3161-tsa" /\ p.anchor.digest = p.signature.value
  BY <1>1, <1>2 DEF sig
<1>. QED  BY <1>3 DEF Stamped

LEMMA OutageFromInv == Inv => OutageLooksUnanchored
<1>. SUFFICES ASSUME Inv, NEW files \in delivered,
                     files["packet"].anchor.type = "ed25519-operator"
              PROVE  LET packet == files["packet"] IN
                     /\ packet.signature.marker = Marker(FALSE)
                     /\ packet.signature.value.over.anchor = packet.anchor
  BY DEF OutageLooksUnanchored
<1>1. PICK dr : files = Members(dr) /\ Fits("complete", dr, chain, ended, site.tsa)
  BY DEF Inv, PacketInv, DeliveredInv
<1>. DEFINE p == dr.packet
<1>2. files["packet"] = p
  BY <1>1, MembersAre
<1>3. Parted(p) /\ (Stamped(p, site.tsa) \/ ByOperator(p))
  BY <1>1 DEF Fits, Packed, Parted, Packaged
<1>. HIDE DEF p
<1>4. ~Stamped(p, site.tsa)
  BY <1>2, StampedFacts
<1>5. PICK k \in Key : SignedBy(p, k, Marker(FALSE))
  BY <1>3, <1>4 DEF ByOperator
<1>6. Canonical(p, Marker(FALSE)).anchor = p.anchor
  BY <1>3 DEF Canonical, Parted, Marker
<1>7. p.signature.marker = Marker(FALSE) /\ p.signature.value.over = Canonical(p, Marker(FALSE))
  <2>. DEFINE m == Marker(FALSE)
              covered == Canonical(p, m)
              value == p.signature.value
  <2>1. p.signature.marker = m /\ value = [by |-> k, over |-> covered]
    BY <1>5, SignedFacts
  <2>. HIDE DEF m, covered, value
  <2>2. value.over = covered
    BY <2>1
  <2>. QED  BY <2>1, <2>2 DEF m, covered, value
<1>. QED  BY <1>2, <1>6, <1>7

\* A file that stands in one of the places, as declared
LEMMA OnePlace ==
  ASSUME NEW files, NEW places, NEW name, places \cap DOMAIN files = {name},
         NEW declared, files[name] = declared, declared # Absent
  PROVE  FileMatches(files, places, declared)
<1>1. Cardinality({name}) = 1
  BY FS_Singleton
<1>. QED  BY <1>1 DEF FileMatches

LEMMA ArtifactsAreThere ==
  \A j : /\ Manifest(j) # Absent /\ Derivative(j) # Absent /\ Report(j) # Absent /\ Schema # Absent
         /\ Policy(j) # Absent
  BY DEF Manifest, Derivative, Report, Schema, Policy, Absent

\* What a packet is put together from, as one of the two layouts holds it.
Layout(layout, dr) ==
  \E place \in {"nested", "flat"} :
    /\ DOMAIN layout = {"packet", "manifest", "report", "certificate", "readme", place}
                         \cup (IF dr.original THEN {"original"} ELSE {})
    /\ layout["packet"] = dr.packet /\ layout["manifest"] = dr.manifest
    /\ layout["report"] = Report(dr.job) /\ layout["certificate"] = dr.certificate
    /\ layout["readme"] = dr.readme /\ layout[place] = dr.derivative
    /\ dr.original => layout["original"] = Original(dr.job)

LEMMA Layouts ==
  ASSUME NEW dr, NEW c, NEW e, NEW tsa, Fits("complete", dr, c, e, tsa)
  PROVE  Layout(Members(dr), dr) /\ Layout(Flat(Members(dr)), dr)
<1>. DEFINE files == Members(dr)
            others == IF dr.original THEN {"original"} ELSE {}
<1>1. /\ DOMAIN files = {"packet", "manifest", "report", "certificate", "readme", "nested"} \cup others
      /\ files["packet"] = dr.packet /\ files["manifest"] = dr.manifest
      /\ files["report"] = Report(dr.job) /\ files["certificate"] = dr.certificate
      /\ files["readme"] = dr.readme /\ files["nested"] = dr.derivative
      /\ dr.original => files["original"] = Original(dr.job)
  BY MembersAre
<1>. HIDE DEF files
<1>2. Layout(files, dr)
  BY <1>1 DEF Layout
<1>3. /\ DOMAIN Flat(files) = (DOMAIN files \ {"nested"}) \cup {"flat"}
      /\ \A name \in DOMAIN files \ {"nested"} : name # "flat" => Flat(files)[name] = files[name]
      /\ Flat(files)["flat"] = files["nested"]
  BY DEF Flat
<1>4. /\ DOMAIN Flat(files) = {"packet", "manifest", "report", "certificate", "readme", "flat"} \cup others
      /\ {"packet", "manifest", "report", "certificate", "readme"} \cup others \subseteq DOMAIN files \ {"nested"}
  BY <1>1, <1>3
<1>5. Layout(Flat(files), dr)
  BY <1>1, <1>3, <1>4 DEF Layout
<1>. QED  BY <1>2, <1>5 DEF files

LEMMA HonestFilesMatch ==
  ASSUME NEW layout, NEW dr, Layout(layout, dr), dr.manifest # Absent, dr.derivative # Absent,
         dr.certificate # Absent, dr.readme # Absent
  PROVE  FilesMatch(layout, Hashes(dr))
<1>1. PICK place \in {"nested", "flat"} :
         /\ DOMAIN layout = {"packet", "manifest", "report", "certificate", "readme", place}
                              \cup (IF dr.original THEN {"original"} ELSE {})
         /\ layout["manifest"] = dr.manifest
         /\ layout["report"] = Report(dr.job) /\ layout["certificate"] = dr.certificate
         /\ layout["readme"] = dr.readme /\ layout[place] = dr.derivative
  BY DEF Layout
<1>2. /\ {"manifest"} \cap DOMAIN layout = {"manifest"} /\ {"report"} \cap DOMAIN layout = {"report"}
      /\ {"certificate"} \cap DOMAIN layout = {"certificate"}
      /\ {"readme"} \cap DOMAIN layout = {"readme"} /\ DerivativePlaces \cap DOMAIN layout = {place}
  BY <1>1 DEF DerivativePlaces
<1>3. /\ FileMatches(layout, {"manifest"}, dr.manifest)
      /\ FileMatches(layout, {"certificate"}, dr.certificate)
      /\ FileMatches(layout, {"readme"}, dr.readme)
      /\ FileMatches(layout, DerivativePlaces, dr.derivative)
  BY <1>1, <1>2, OnePlace
<1>4. FileMatches(layout, {"report"}, Report(dr.job))
  BY <1>1, <1>2, OnePlace, ArtifactsAreThere
<1>. QED  BY <1>3, <1>4 DEF FilesMatch, Hashes

LEMMA HonestChecksPass ==
  ASSUME NEW layout, NEW dr, NEW c, Layout(layout, dr), Packed(dr, c),
         dr.manifest = Manifest(dr.job), dr.derivative = Derivative(dr.job)
  PROVE  CrossChecksPass(layout, dr.packet) /\ PinsHold(layout, dr.packet, Schema)
<1>1. /\ dr.packet.facts.policy = Policy(dr.job) /\ dr.packet.facts.original = Original(dr.job)
      /\ dr.packet.hashes.derivative = Derivative(dr.job) /\ dr.packet.schema = Schema
  BY DEF Packed, Facts, Hashes
<1>2. /\ layout["manifest"] = Manifest(dr.job) /\ layout["report"] = Report(dr.job)
      /\ Has(layout, "original") => layout["original"] = Original(dr.job)
  BY DEF Layout, Has
<1>3. /\ Inner(layout, "manifest", "policy") \in {Policy(dr.job), Absent}
      /\ Inner(layout, "manifest", "derivative") \in {Derivative(dr.job), Absent}
      /\ Inner(layout, "manifest", "schema") \in {Schema, Absent}
      /\ Inner(layout, "report", "schema") \in {Schema, Absent}
  BY <1>2 DEF Inner, Manifest, Report
<1>4. CrossChecksPass(layout, dr.packet)
  BY <1>1, <1>2, <1>3 DEF CrossChecksPass, Disagree
<1>. QED  BY <1>1, <1>3, <1>4 DEF PinsHold, Disagree

LEMMA HonestSchema ==
  ASSUME NEW layout, NEW dr, NEW c, NEW e, NEW tsa, Layout(layout, dr),
         Fits("complete", dr, c, e, tsa)
  PROVE  SchemaOk(layout)
<1>. DEFINE p == dr.packet
<1>1. layout["packet"] = p /\ Has(layout, "packet")
  BY DEF Layout, Has
<1>2. Packed(dr, c) /\ (Stamped(p, tsa) \/ ByOperator(p))
  BY DEF Fits, Packaged
<1>3. p.kind = "packet" /\ p.generated # Absent
  BY <1>2 DEF Packed
<1>4. p.facts # Absent
  <2>1. p.facts = Facts(dr.job, "done")
    BY <1>2 DEF Packed
  <2>2. "original" \in DOMAIN Facts(dr.job, "done") /\ "original" \notin DOMAIN Absent
    BY DEF Facts, Absent
  <2>. QED  BY <2>1, <2>2
<1>5. p.hashes # Absent /\ p.refs # Absent
  <2>1. p.hashes = Hashes(dr) /\ p.refs = [download |-> dr.download, issued |-> p.refs.issued]
    BY <1>2 DEF Packed
  <2>2. "manifest" \in DOMAIN Hashes(dr) /\ "manifest" \notin DOMAIN Absent
    BY DEF Hashes, Absent
  <2>3. "issued" \in DOMAIN p.refs /\ "issued" \notin DOMAIN Absent
    BY <2>1 DEF Absent
  <2>. QED  BY <2>1, <2>2, <2>3
<1>6. p.anchor # Absent
  <2>1. CASE ByOperator(p)
    BY <2>1, OperatorsAnchor DEF ByOperator
  <2>2. CASE Stamped(p, tsa)
    <3>1. "type" \in DOMAIN p.anchor /\ "type" \notin DOMAIN Absent
      BY <2>2 DEF Stamped, Absent
    <3>. QED  BY <3>1
  <2>. QED  BY <1>2, <2>1, <2>2
<1>. QED  BY <1>1, <1>3, <1>4, <1>5, <1>6 DEF SchemaOk, Required

LEMMA HonestSignature ==
  ASSUME NEW p, NEW tsa, Stamped(p, tsa) \/ ByOperator(p), p.signature.keyId \in Key,
         p.signature.value.by = p.signature.keyId
  PROVE  SignatureStatus(p, Key) = "verified"
<1>1. PICK k \in Key, marker \in {Marker(TRUE), Marker(FALSE)} : SignedBy(p, k, marker)
  BY StampedFacts DEF ByOperator
<1>2. /\ p.signature.marker = marker /\ p.signature.digest = Canonical(p, marker)
      /\ p.signature.value = [by |-> k, over |-> Canonical(p, marker)]
      /\ p.signature # Absent /\ k = p.signature.keyId
  BY <1>1, SignedFacts
<1>3. marker \in {"excluding-anchor", "canonical", "none"} /\ Key # {}
  BY MarkersDiffer, SitesAssumption
<1>. QED  BY <1>2, <1>3 DEF SignatureStatus

LEMMA HonestToken ==
  ASSUME NEW cert \in Cert, NEW digest
  PROVE  VerifyToken(TokenOf(cert, digest), digest, Cert \cup DefaultPins) = "verified"
<1>. DEFINE token == TokenOf(cert, digest)
            content == [imprint |-> digest, time |-> "genTime"]
<1>1. /\ token.odd = "nowhere" /\ token.certs = {cert} /\ token.sid = cert
      /\ token.content = content /\ token.attrs = Attributes(content)
      /\ token.seal = [by |-> cert, over |-> Attributes(content)]
      /\ content.imprint = digest
  BY DEF TokenOf
<1>. HIDE DEF token, content
<1>2. {c \in token.certs : c = token.sid} = {cert} /\ Cardinality({cert}) = 1
  BY <1>1, FS_Singleton
<1>3. CanonicalWalk(token) /\ ParseToken(token) /\ Resolved(token) /\ ParseTstInfo(token)
  BY <1>1, <1>2 DEF CanonicalWalk, ParseToken, ParseSignerInfo, ParseAttributes, Resolved,
                    ParseCert, ParseTstInfo
<1>. QED  BY <1>1, <1>3 DEF VerifyToken, token

LEMMA HonestAnchor ==
  ASSUME NEW p, NEW tsa, Stamped(p, tsa) \/ ByOperator(p),
         p.anchor.type = "rfc3161-tsa" => p.anchor.token = TokenOf(tsa, p.signature.value)
  PROVE  AnchorStatus(p, Cert) \in {"none", "verified"}
<1>1. CASE Stamped(p, tsa)
  <2>1. PICK k \in Key : SignedBy(p, k, Marker(TRUE))
    BY <1>1, StampedFacts
  <2>2. p.anchor.digest = p.signature.value /\ p.signature # Absent
    BY <1>1, <2>1, StampedFacts, SignedFacts
  <2>3. /\ p.anchor.token = TokenOf(tsa, p.signature.value) /\ tsa \in Cert
        /\ VerifyToken(p.anchor.token, p.signature.value, Cert \cup DefaultPins) = "verified"
    BY <1>1, StampedFacts, HonestToken
  <2>. QED  BY <2>2, <2>3 DEF AnchorStatus
<1>2. CASE ByOperator(p)
  <2>1. \A k : OperatorAnchor(k).type # "rfc3161-tsa"
    BY DEF OperatorAnchor
  <2>. QED  BY <1>2, <2>1 DEF ByOperator, AnchorStatus
<1>. QED  BY <1>1, <1>2

\* Once the job's event is in it, the export has nothing against the packet.
LEMMA HonestExport ==
  ASSUME ChainInv, NEW dr, Packed(dr, chain), Begun(dr, ended), Recorded(dr.job),
         RecordedManifest(dr.job) = dr.manifest, dr.derivative = Derivative(dr.job)
  PROVE  ~ChainObjects(dr.packet, Export)
<1>. DEFINE j == dr.job
            p == dr.packet
<1>1. /\ p.facts.job = j /\ p.hashes.manifest = dr.manifest
      /\ p.hashes.derivative = Derivative(j) /\ j \in Job /\ ended[j] = "done"
  BY DEF Packed, Facts, Hashes, Begun
<1>2. PICK i : i \in Seqs("job.sanitize", j)
  BY DEF Recorded
<1>3. /\ Seqs("job.sanitize", j) = {i} /\ Terminal(Export, j) = {i} /\ i \in 1..Len(chain)
      /\ chain[i].derivative = Derivative(j) /\ Export[i].event = chain[i] /\ i \in Nat
  BY <1>1, <1>2, TheRecorder, ExportIs DEF ChainInv
<1>4. chain[i].manifest = dr.manifest
  BY <1>3, ChosenOne DEF RecordedManifest
<1>5. ChainIntact(Export)
  <2>1. Export # << >>
    BY <1>3, ExportIs DEF ChainInv
  <2>. QED  BY <2>1, ExportIs DEF ChainIntact
<1>. DEFINE found == Terminal(Export, p.facts.job)
<1>6. found = {i} /\ (CHOOSE k \in found : \A m \in found : m <= k) = i
  BY <1>1, <1>3, ChosenOne
<1>7. ~Disagree(chain[i].manifest, p.hashes.manifest) /\ ~Disagree(chain[i].derivative, p.hashes.derivative)
  BY <1>1, <1>3, <1>4 DEF Disagree
<1>. QED  BY <1>3, <1>5, <1>6, <1>7 DEF ChainObjects

LEMMA HonestFromInv == Inv => HonestVerifies
<1>. SUFFICES ASSUME Inv, NEW files \in delivered, Undamaged(files), WellMade(files["packet"]),
                     NEW layout \in {files, Flat(files)},
                     NEW csv \in IF Recorded(files["packet"].facts.job)
                                      /\ RecordedManifest(files["packet"].facts.job)
                                           = Manifest(files["packet"].facts.job)
                                 THEN {<< >>, <<Export>>} ELSE {<< >>}
              PROVE  ExitCode(layout, Recipient(csv)) = 0
  BY DEF HonestVerifies
<1>1. PICK dr : files = Members(dr) /\ Fits("complete", dr, chain, ended, site.tsa)
  BY DEF Inv, PacketInv, DeliveredInv
<1>. DEFINE p == dr.packet
            j == dr.job
<1>2. Layout(layout, dr) /\ files["packet"] = p /\ files["manifest"] = dr.manifest
      /\ files["nested"] = dr.derivative
  BY <1>1, Layouts, MembersAre
<1>3. /\ Packed(dr, chain) /\ Begun(dr, ended) /\ Gathered(dr) /\ dr.readme # Absent
      /\ (Stamped(p, site.tsa) \/ ByOperator(p)) /\ p.signature.keyId \in Key
  BY <1>1 DEF Fits, Packaged, Working, Announced
<1>4. p.facts.job = j /\ p.hashes = Hashes(dr)
  BY <1>3 DEF Packed, Facts
<1>5. dr.manifest = Manifest(j) /\ dr.derivative = Derivative(j)
  BY <1>2, <1>4 DEF Undamaged
<1>6. /\ layout["packet"] = p /\ Has(layout, "packet") /\ ~Has(layout, "result")
  BY <1>2 DEF Layout, Has
<1>7. SchemaOk(layout)
  BY <1>1, <1>2, HonestSchema
<1>8. FilesMatch(layout, p.hashes)
  BY <1>2, <1>3, <1>4, HonestFilesMatch DEF Gathered, Begun
<1>9. CrossChecksPass(layout, p) /\ PinsHold(layout, p, Schema)
  BY <1>2, <1>3, <1>5, HonestChecksPass
<1>10. SignatureStatus(p, Key) = "verified" /\ AnchorStatus(p, Cert) \in {"none", "verified"}
  BY <1>2, <1>3, HonestSignature, HonestAnchor DEF WellMade
<1>11. csv # << >> => csv[1] = Export /\ ~ChainObjects(p, Export)
  BY <1>2, <1>3, <1>4, <1>5, HonestExport DEF Inv
<1>. DEFINE given == Recipient(csv)
<1>12. given.keys = Key /\ given.pins = Cert /\ given.csv = csv /\ given.schemas = Schema /\ given.strict
  BY DEF Recipient
<1>. HIDE DEF p, j, given
<1>13. PacketValid(layout, given)
  BY <1>6, <1>7, <1>8, <1>9, <1>10, <1>11, <1>12 DEF PacketValid
<1>14. Verified(layout, given)
  BY <1>6, <1>7, <1>10, <1>12 DEF Verified
<1>. QED  BY <1>6, <1>12, <1>13, <1>14 DEF ExitCode, given

\* For any jobs, downloads, keys, authorities and bounds: what the deployment
\* hands out undamaged verifies for whoever has its keys, in both layouts and
\* with the audit export, and a packet without a timestamp has the operator's
\* anchor inside its signed bytes.
THEOREM PacketsIssuedVerify == Spec => []IssuesVerify
<1>1. Inv => IssuesVerify
  BY HonestFromInv, OutageFromInv DEF IssuesVerify
<1>. QED  BY <1>1, DraftsFit, PTL

-----------------------------------------------------------------------------
(* A result beside a packet.                                                *)

ResultsInv ==
  \A result \in results : \E j, status :
    /\ result.kind = "result" /\ result.facts = Facts(j, status)
    /\ result.certificate.job = j

LEMMA ResultsStep == ResultsInv /\ [Next]_vars => ResultsInv'
<1>. SUFFICES ASSUME ResultsInv, [Next]_vars PROVE ResultsInv'
  OBVIOUS
<1>1. ASSUME NEW j \in site.jobs, Result(j) PROVE ResultsInv'
  <2>. DEFINE status == IF Recorded(j) THEN ended[j] ELSE "queued"
              result == [kind |-> "result", facts |-> Facts(j, status),
                         certificate |-> Certificate(j, Requester), keyRef |-> key]
  <2>1. results' = results \cup {result}
    BY <1>1 DEF Result
  <2>2. result.kind = "result" /\ result.facts = Facts(j, status) /\ result.certificate.job = j
    BY DEF Certificate
  <2>. HIDE DEF result, status
  <2>. QED  BY <2>1, <2>2 DEF ResultsInv
<1>2. UNCHANGED results \/ \E j \in site.jobs : Result(j)
  BY DEF Next, vars, issued, Finish, Record, Damage, Pull, Begin, Die, Progress, ReadFiles, Announce,
         Assemble, Sign, Label, Stamp, FallBack, Deliver, Tick, Rotate
<1>. QED  BY <1>1, <1>2 DEF ResultsInv

LEMMA TogetherFromInv == Inv /\ ResultsInv => TogetherMeansSameMoment
<1>. SUFFICES ASSUME Inv, ResultsInv, NEW files \in delivered, NEW result \in results,
                     CombinedValid(Directory(files, result), Recipient(<< >>))
              PROVE  /\ result.certificate = files["certificate"]
                     /\ result.keyRef = files["packet"].signature.value.by
                     /\ result.facts = files["packet"].facts
  BY DEF TogetherMeansSameMoment
<1>1. PICK dr : files = Members(dr) /\ Fits("complete", dr, chain, ended, site.tsa)
  BY DEF Inv, PacketInv, DeliveredInv
<1>2. PICK j, status : result.facts = Facts(j, status) /\ result.certificate.job = j
  BY DEF ResultsInv
<1>. DEFINE p == dr.packet
            flat == Flat(files)
            both == Directory(files, result)
<1>3. /\ Packed(dr, chain) /\ Begun(dr, ended) /\ p.signature.keyId \in Key
      /\ (Stamped(p, site.tsa) \/ ByOperator(p))
  BY <1>1 DEF Fits, Packaged, Working
<1>4. files["packet"] = p /\ files["certificate"] = dr.certificate
  BY <1>1, MembersAre
<1>5. flat["packet"] = p /\ flat["certificate"] = dr.certificate /\ {"packet", "certificate"} \subseteq DOMAIN flat
  <2>1. Layout(flat, dr)
    BY <1>1, Layouts
  <2>. QED  BY <2>1 DEF Layout
<1>6. /\ both["packet"] = p /\ both["certificate"] = dr.certificate /\ both["result"] = result
      /\ "certificate" \in DOMAIN both
  <2>. HIDE DEF flat
  <2>1. both = [name \in (DOMAIN flat) \cup {"result"} |->
                  IF name = "result" THEN result ELSE flat[name]]
    BY DEF Directory, flat
  <2>. HIDE DEF both, p
  <2>. QED  BY <1>5, <2>1
<1>7. result.certificate = dr.certificate /\ result.facts = Facts(dr.job, status)
  <2>1. result.certificate = dr.certificate
    BY <1>6 DEF CombinedValid, ResultValid, Has
  <2>. QED  BY <1>2, <1>3, <2>1 DEF Begun
<1>8. p.signature # Absent
  <2>1. \E k, marker : SignedBy(p, k, marker)
    BY <1>3, StampedFacts DEF ByOperator
  <2>. QED  BY <2>1, SignedFacts
<1>9. /\ p.signature.keyId = result.keyRef
      /\ \A field \in DOMAIN p.facts \cap DOMAIN result.facts :
           ~Disagree(p.facts[field], result.facts[field])
  BY <1>6, <1>8 DEF CombinedValid, Agreement
<1>10. p.signature.value.by = p.signature.keyId
  <2>1. SignatureStatus(p, Key) # "mismatch"
    BY <1>6 DEF CombinedValid, PacketValid, Recipient
  <2>. DEFINE covered == Canonical(p, p.signature.marker)
              by == p.signature.keyId
  <2>2. p.signature.value = [by |-> by, over |-> covered]
    BY <1>3, <1>8, <2>1 DEF SignatureStatus
  <2>. HIDE DEF covered, by
  <2>3. p.signature.value.by = by
    BY <2>2
  <2>. QED  BY <2>3 DEF by
<1>11. p.facts = result.facts
  <2>. DEFINE release == IF dr.job \in Wrapped THEN [kind |-> "release", job |-> dr.job] ELSE Absent
              done == Status("done")
              other == Status(status)
  <2>1. /\ p.facts = [job |-> dr.job, original |-> Original(dr.job), policy |-> Policy(dr.job),
                      status |-> done, release |-> release]
        /\ result.facts = [job |-> dr.job, original |-> Original(dr.job), policy |-> Policy(dr.job),
                           status |-> other, release |-> release]
    BY <1>3, <1>7 DEF Packed, Facts
  <2>2. done # Absent /\ other # Absent
    BY DEF Status, Absent
  <2>. HIDE DEF release, done, other, p
  <2>3. "status" \in DOMAIN p.facts \cap DOMAIN result.facts
    BY <2>1
  <2>4. p.facts["status"] = done /\ result.facts["status"] = other
    BY <2>1
  <2>5. done = other
    BY <1>9, <2>2, <2>3, <2>4 DEF Disagree
  <2>. QED  BY <2>1, <2>5
<1>. QED  BY <1>4, <1>7, <1>9, <1>10, <1>11

\* For any jobs, downloads, keys and bounds: a result and a packet that verify
\* together were made from one state of the job, for one user, under one key.
THEOREM TogetherFromOneMoment == Spec => []TogetherMeansSameMoment
<1>1. Init => ResultsInv
  BY DEF Init, ResultsInv
<1>2. Spec => []ResultsInv
  BY <1>1, ResultsStep, PTL DEF Spec
<1>. QED  BY <1>2, TogetherFromInv, DraftsFit, PTL

-----------------------------------------------------------------------------
(* Copies in other hands.                                                   *)

\* A packet says which download it was made for, and each download delivers once.
IssuerInv ==
  /\ \A d \in Download : at[d] \in Packaged => draft[d].packet.generated.by = d
  /\ \A files \in delivered :
       /\ files["packet"].generated.by \in Download
       /\ at[files["packet"].generated.by] = "delivered"
  /\ \A files, others \in delivered :
       files["packet"].generated.by = others["packet"].generated.by => files = others

\* A step of one download that delivers nothing.
LEMMA IssuerOf ==
  ASSUME Inv, IssuerInv, NEW d \in Download, at[d] # "delivered", NEW place, Go(d, place),
         \A u \in Download \ {d} : draft'[u] = draft[u], UNCHANGED delivered,
         place \in Packaged => draft'[d].packet.generated.by = d
  PROVE  IssuerInv'
<1>1. at'[d] = place /\ \A u \in Download \ {d} : at'[u] = at[u]
  BY DEF Go, Inv, PacketInv, DraftInv
<1>. QED  BY <1>1 DEF IssuerInv

\* It puts another anchor or signature on its packet.
LEMMA IssuerRepacked ==
  ASSUME Inv, IssuerInv, NEW d \in Download, at[d] \in Packaged, NEW place, Go(d, place),
         NEW q, draft' = [draft EXCEPT ![d].packet = q],
         q.generated = draft[d].packet.generated, UNCHANGED delivered
  PROVE  IssuerInv'
<1>1. DOMAIN draft = Download /\ Drafted(draft[d]) /\ draft[d].packet.generated.by = d
  BY DEF IssuerInv, Inv, PacketInv, DraftInv, Fits
<1>2. /\ draft'[d] = [draft[d] EXCEPT !.packet = q]
      /\ \A u \in Download \ {d} : draft'[u] = draft[u]
  BY <1>1
<1>3. draft'[d].packet = q
  BY <1>1, <1>2 DEF Drafted
<1>4. at[d] # "delivered"
  BY DEF Packaged
<1>. QED  BY <1>1, <1>2, <1>3, <1>4, IssuerOf

LEMMA IssuerDelivers ==
  ASSUME Inv, IssuerInv, NEW d \in Download, Deliver(d)
  PROVE  IssuerInv'
<1>1. /\ at[d] = "complete" /\ delivered' = delivered \cup {Members(draft[d])}
      /\ at'[d] = "delivered" /\ \A u \in Download \ {d} : at'[u] = at[u] /\ draft'[u] = draft[u]
  BY DEF Deliver, Go, Inv, PacketInv, DraftInv
<1>2. Members(draft[d])["packet"].generated.by = d
  BY <1>1, FilesOfDraft DEF IssuerInv, Packaged, Inv, PacketInv, DraftInv
<1>3. \A files \in delivered : files["packet"].generated.by # d
  BY <1>1 DEF IssuerInv
<1>. DEFINE new == Members(draft[d])
<1>. HIDE DEF new
<1>4. delivered' = delivered \cup {new} /\ new["packet"].generated.by = d
  BY <1>1, <1>2 DEF new
<1>. QED  BY <1>1, <1>3, <1>4 DEF IssuerInv, Packaged

LEMMA IssuerKeeps ==
  ASSUME Inv, IssuerInv, NEW d \in Download,
         \/ Begin(d) \/ Die(d) \/ ReadFiles(d) \/ Announce(d) \/ Assemble(d) \/ Sign(d)
         \/ Label(d) \/ Stamp(d) \/ FallBack(d)
  PROVE  IssuerInv'
<1>. DEFINE p == draft[d].packet
<1>1. DOMAIN draft = Download /\ Drafted(draft[d]) /\ UNCHANGED delivered
  BY DEF Inv, PacketInv, DraftInv, Fits, issued, Begin, Die, ReadFiles, Announce, Assemble, Sign,
         Label, Stamp, FallBack
<1>2. CASE Begin(d) \/ Die(d) \/ ReadFiles(d) \/ Announce(d)
  <2>1. /\ at[d] # "delivered" /\ \A u \in Download \ {d} : draft'[u] = draft[u]
        /\ \E place \in {"certified", "dead", "read", "409", "announced"} : Go(d, place)
    BY <1>1, <1>2 DEF Begin, Die, ReadFiles, Announce, Ended
  <2>. QED  BY <1>1, <2>1, IssuerOf DEF Packaged
<1>3. CASE Assemble(d)
  <2>. DEFINE g == [second |-> now, by |-> d]
  <2>1. PICK facts, refs, hashes :
          draft' = [draft EXCEPT ![d].packet =
             [kind |-> "packet", facts |-> facts, refs |-> refs, schema |-> Schema, generated |-> g,
              hashes |-> hashes, anchor |-> Absent, signature |-> Absent]]
    BY <1>3 DEF Assemble, Set
  <2>2. at[d] # "delivered" /\ Go(d, "assembled") /\ g.by = d
    BY <1>3 DEF Assemble
  <2>. DEFINE q == [kind |-> "packet", facts |-> facts, refs |-> refs, schema |-> Schema,
                    generated |-> g, hashes |-> hashes, anchor |-> Absent, signature |-> Absent]
  <2>. HIDE DEF g
  <2>3. draft' = [draft EXCEPT ![d].packet = q] /\ q.generated = g
    BY <2>1
  <2>. HIDE DEF q
  <2>4. /\ draft'[d] = [draft[d] EXCEPT !.packet = q]
        /\ \A u \in Download \ {d} : draft'[u] = draft[u]
    BY <1>1, <2>3
  <2>5. draft'[d].packet.generated = g
    BY <1>1, <2>3, <2>4 DEF Drafted
  <2>. QED  BY <1>1, <2>2, <2>4, <2>5, IssuerOf
<1>4. CASE Sign(d)
  <2>1. at[d] \in Packaged /\ Go(d, "signed")
    BY <1>4 DEF Sign, Packaged
  <2>2. PICK q \in {Signed([p EXCEPT !.anchor = OperatorAnchor(key)], key, Marker(FALSE)),
                    Signed(p, key, Marker(TRUE))} : draft' = [draft EXCEPT ![d].packet = q]
    BY <1>4 DEF Sign, Set
  <2>3. Alike(p, q)
    <3>1. Parted(p)
      BY <2>1, PacketParted
    <3>. HIDE DEF p
    <3>2. Alike(p, Signed(p, key, Marker(TRUE)))
      BY <3>1, Signing
    <3>3. Alike(p, Signed([p EXCEPT !.anchor = OperatorAnchor(key)], key, Marker(FALSE)))
      BY <3>1, SigningAnew
    <3>. QED  BY <2>2, <3>2, <3>3
  <2>. QED  BY <1>1, <2>1, <2>2, <2>3, IssuerRepacked DEF Alike
<1>5. CASE FallBack(d)
  <2>. DEFINE q == Resigned(p, key)
  <2>1. at[d] \in Packaged /\ Go(d, "signed") /\ draft' = [draft EXCEPT ![d].packet = q]
    BY <1>5 DEF FallBack, Packaged, Set
  <2>2. Alike(p, q)
    BY <2>1, PacketParted, SigningAnew DEF Resigned
  <2>. HIDE DEF q
  <2>. QED  BY <1>1, <2>1, <2>2, IssuerRepacked DEF Alike
<1>6. CASE Label(d)
  <2>. DEFINE q == [p EXCEPT !.signature.keyId = key]
  <2>1. /\ at[d] \in Packaged /\ draft' = [draft EXCEPT ![d].packet = q]
        /\ \E place : Go(d, place)
    BY <1>6 DEF Label, Packaged
  <2>2. q.generated = p.generated
    BY <2>1, PacketParted DEF Parted
  <2>. HIDE DEF q
  <2>. QED  BY <1>1, <2>1, <2>2, IssuerRepacked
<1>7. CASE Stamp(d)
  <2>1. at[d] \in Packaged /\ at[d] # "delivered" /\ p.generated.by = d /\ Parted(p)
    BY <1>7, PacketParted DEF Stamp, Packaged, IssuerInv
  <2>2. CASE \E a : draft' = [draft EXCEPT ![d].packet.anchor = a] /\ Go(d, "complete")
    <3>1. PICK a : draft' = [draft EXCEPT ![d].packet.anchor = a] /\ Go(d, "complete")
      BY <2>2
    <3>. DEFINE q == [p EXCEPT !.anchor = a]
    <3>2. draft' = [draft EXCEPT ![d].packet = q] /\ q.generated = p.generated
      BY <2>1, <3>1 DEF Parted
    <3>. HIDE DEF q
    <3>. QED  BY <1>1, <2>1, <3>1, <3>2, IssuerRepacked
  <2>3. CASE \E place : Go(d, place) /\ (UNCHANGED draft \/ \E n : draft' = [draft EXCEPT ![d].tries = n])
    <3>1. draft'[d].packet = p /\ \A u \in Download \ {d} : draft'[u] = draft[u]
      BY <1>1, <2>3 DEF Drafted
    <3>. QED  BY <1>1, <2>1, <2>3, <3>1, IssuerOf
  <2>4. CASE \E reply \in site.replies :
               /\ draft' = [draft EXCEPT ![d].packet.anchor =
                    [type |-> "rfc3161-tsa", digest |-> p.signature.value, reference |-> Absent,
                     token |-> Extracted(reply, site.tsa, p.signature.value, Nothing)]]
               /\ Go(d, "complete")
    BY <2>2, <2>4
  <2>5. CASE Set(d, "tries", AfterAttempt(d)[1]) /\ Go(d, AfterAttempt(d)[2])
    BY <2>3, <2>5 DEF Set
  <2>. QED  BY <1>7, <2>3, <2>4, <2>5 DEF Stamp
<1>. QED  BY <1>2, <1>3, <1>4, <1>5, <1>6, <1>7

LEMMA IssuerStep == Inv /\ IssuerInv /\ [Next]_vars => IssuerInv'
<1>1. ASSUME IssuerInv, UNCHANGED <<at, draft, delivered>> PROVE IssuerInv'
  BY <1>1 DEF IssuerInv
<1>2. ASSUME Inv, [Next]_vars
      PROVE  \/ UNCHANGED <<at, draft, delivered>>
             \/ \E d \in Download :
                  \/ Begin(d) \/ Die(d) \/ ReadFiles(d) \/ Announce(d) \/ Assemble(d) \/ Sign(d)
                  \/ Label(d) \/ Stamp(d) \/ FallBack(d) \/ Deliver(d)
  <2>1. site.downloads \subseteq Download
    BY <1>2, SiteFacts
  <2>. QED  BY <1>2, <2>1 DEF Next, Progress, vars, issued, Finish, Record, Result, Damage, Pull, Tick, Rotate
<1>. QED  BY <1>1, <1>2, IssuerKeeps, IssuerDelivers

\* A copy before its signature and anchor are replaced
Altered(c, files) ==
  /\ DOMAIN c \subseteq DOMAIN files \cup {"flat"} /\ "packet" \in DOMAIN c
  /\ Parted(c["packet"])
  /\ c["packet"].signature = files["packet"].signature
  /\ c["packet"].generated = files["packet"].generated

LEMMA PacketOf ==
  ASSUME Inv, NEW files \in delivered
  PROVE  LET p == files["packet"] IN
         /\ Parted(p) /\ \E k \in Key, marker \in {Marker(TRUE), Marker(FALSE)} : SignedBy(p, k, marker)
         /\ DOMAIN files \subseteq {"packet", "manifest", "report", "certificate", "readme", "nested", "original"}
         /\ {"packet", "nested"} \subseteq DOMAIN files
         /\ files["manifest"] = p.hashes.manifest /\ files["report"] = p.hashes.report
         /\ files["certificate"] = p.hashes.certificate /\ files["readme"] = p.hashes.readme
         /\ files["nested"] = p.hashes.derivative
         /\ "original" \in DOMAIN files => files["original"] = p.facts.original
<1>1. PICK dr : files = Members(dr) /\ Fits("complete", dr, chain, ended, site.tsa)
  BY DEF Inv, PacketInv, DeliveredInv
<1>. DEFINE p == dr.packet
<1>2. files["packet"] = p /\ Packed(dr, chain)
  BY <1>1, MembersAre DEF Fits, Packaged
<1>3. Parted(p)
  BY <1>2 DEF Packed, Parted
<1>4. \E k \in Key, marker \in {Marker(TRUE), Marker(FALSE)} : SignedBy(p, k, marker)
  BY <1>1, StampedFacts DEF Fits, ByOperator
<1>5. p.hashes = Hashes(dr) /\ p.facts = Facts(dr.job, "done")
  BY <1>2 DEF Packed
<1>6. p.facts.original = Original(dr.job)
  BY <1>5 DEF Facts
<1>7. /\ p.hashes.manifest = dr.manifest /\ p.hashes.report = Report(dr.job)
      /\ p.hashes.certificate = dr.certificate /\ p.hashes.readme = dr.readme
      /\ p.hashes.derivative = dr.derivative
  BY <1>5 DEF Hashes
<1>. HIDE DEF p
<1>8. dr.original \in BOOLEAN
  BY <1>1 DEF Fits, Begun, Working, Packaged
<1>9. /\ DOMAIN files = {"packet", "manifest", "report", "certificate", "readme", "nested"}
                          \cup (IF dr.original THEN {"original"} ELSE {})
      /\ files["manifest"] = dr.manifest /\ files["report"] = Report(dr.job)
      /\ files["certificate"] = dr.certificate /\ files["readme"] = dr.readme
      /\ files["nested"] = dr.derivative
      /\ dr.original => files["original"] = Original(dr.job)
  BY <1>1, MembersAre
<1>10. "original" \in DOMAIN files => files["original"] = p.facts.original
  BY <1>6, <1>8, <1>9
<1>. QED  BY <1>2, <1>3, <1>4, <1>7, <1>9, <1>10

LEMMA ContentsAltered ==
  ASSUME Inv, NEW files \in delivered, NEW c \in Contents(files)
  PROVE  Altered(c, files)
<1>. DEFINE p == files["packet"]
            D == DOMAIN files
<1>1. /\ Parted(p) /\ {"packet", "nested"} \subseteq D
      /\ D \subseteq {"packet", "manifest", "report", "certificate", "readme", "nested", "original"}
  BY PacketOf
<1>2. CASE c = files
  BY <1>1, <1>2 DEF Altered
<1>3. DOMAIN Flat(files) = (D \ {"nested"}) \cup {"flat"} /\ Flat(files)["packet"] = p
  BY <1>1 DEF Flat
<1>4. CASE c = Flat(files)
  BY <1>1, <1>3, <1>4 DEF Altered
<1>5. CASE c = Doubled(files)
  <2>1. DOMAIN c = D \cup {"flat"} /\ c["packet"] = p
    BY <1>1, <1>5 DEF Doubled
  <2>. QED  BY <1>1, <2>1 DEF Altered
<1>6. ASSUME NEW name \in Hashed, c = [files EXCEPT ![name] = Other] PROVE Altered(c, files)
  <2>1. DOMAIN c = D /\ c["packet"] = p
    BY <1>1, <1>6 DEF Hashed
  <2>. QED  BY <1>1, <2>1 DEF Altered
<1>7. ASSUME NEW name \in Hashed,
             c = [files EXCEPT ![name] = Other, !["packet"].hashes[FieldOf(name)] = Other]
      PROVE  Altered(c, files)
  <2>. DEFINE h == [p.hashes EXCEPT ![FieldOf(name)] = Other]
  <2>1. DOMAIN c = D /\ c["packet"] = [p EXCEPT !.hashes = h]
    BY <1>1, <1>7 DEF Hashed
  <2>. HIDE DEF h, p
  <2>2. Parted(c["packet"]) /\ c["packet"].signature = p.signature /\ c["packet"].generated = p.generated
    BY <1>1, <2>1 DEF Parted
  <2>. QED  BY <1>1, <2>1, <2>2 DEF Altered, p
<1>8. ASSUME NEW x, c = [files EXCEPT !["packet"].facts = x] \/ c = [files EXCEPT !["packet"].refs = x]
      PROVE  Altered(c, files)
  <2>1. DOMAIN c = D /\ (c["packet"] = [p EXCEPT !.facts = x] \/ c["packet"] = [p EXCEPT !.refs = x])
    BY <1>1, <1>8
  <2>. HIDE DEF p
  <2>2. Parted(c["packet"]) /\ c["packet"].signature = p.signature /\ c["packet"].generated = p.generated
    BY <1>1, <2>1 DEF Parted
  <2>. QED  BY <1>1, <2>1, <2>2 DEF Altered, p
<1>. QED  BY <1>2, <1>4, <1>5, <1>6, <1>7, <1>8 DEF Contents

\* The packet under another signature and anchor
Copied(p, sig, anchor) == [[p EXCEPT !.signature = sig] EXCEPT !.anchor = anchor]

LEMMA CopiedParts ==
  ASSUME NEW p, Parted(p), NEW sig, NEW anchor
  PROVE  LET q == Copied(p, sig, anchor) IN
         q = [kind |-> p.kind, facts |-> p.facts, refs |-> p.refs, schema |-> p.schema,
              generated |-> p.generated, hashes |-> p.hashes, anchor |-> anchor, signature |-> sig]
<1>. DEFINE r == [p EXCEPT !.signature = sig]
<1>1. r = [kind |-> p.kind, facts |-> p.facts, refs |-> p.refs, schema |-> p.schema,
           generated |-> p.generated, hashes |-> p.hashes, anchor |-> p.anchor, signature |-> sig]
  BY DEF Parted
<1>. HIDE DEF r
<1>2. [r EXCEPT !.anchor = anchor] =
        [kind |-> p.kind, facts |-> p.facts, refs |-> p.refs, schema |-> p.schema,
         generated |-> p.generated, hashes |-> p.hashes, anchor |-> anchor, signature |-> sig]
  BY <1>1
<1>. QED  BY <1>2 DEF Copied, r

\* What a signature covers, part by part
LEMMA Covered ==
  ASSUME NEW p, Parted(p), NEW marker
  PROVE  Canonical(p, marker) =
           [kind |-> p.kind, facts |-> p.facts, refs |-> p.refs, schema |-> p.schema,
            generated |-> p.generated, hashes |-> p.hashes,
            anchor |-> IF marker = "excluding-anchor" THEN Absent ELSE p.anchor,
            signature |-> Absent]
<1>. DEFINE a == IF marker = "excluding-anchor" THEN Absent ELSE p.anchor
            r == [p EXCEPT !.signature = Absent]
<1>1. r = [kind |-> p.kind, facts |-> p.facts, refs |-> p.refs, schema |-> p.schema,
           generated |-> p.generated, hashes |-> p.hashes, anchor |-> p.anchor,
           signature |-> Absent]
  BY DEF Parted
<1>2. Canonical(p, marker) = [r EXCEPT !.anchor = a]
  BY <1>1 DEF Canonical
<1>. HIDE DEF a, r
<1>3. [r EXCEPT !.anchor = a] =
        [kind |-> p.kind, facts |-> p.facts, refs |-> p.refs, schema |-> p.schema,
         generated |-> p.generated, hashes |-> p.hashes, anchor |-> a, signature |-> Absent]
  BY <1>1
<1>. QED  BY <1>2, <1>3 DEF a

\* Who covers the same bytes, whatever the markers, says the same.
LEMMA SameWords ==
  ASSUME NEW p, NEW q, Parted(p), Parted(q), NEW marker, NEW other,
         Canonical(p, marker) = Canonical(q, other)
  PROVE  /\ p.facts = q.facts /\ p.hashes = q.hashes /\ p.generated = q.generated
         /\ Canonical(p, Marker(TRUE)) = Canonical(q, Marker(TRUE))
<1>. DEFINE a == IF marker = "excluding-anchor" THEN Absent ELSE p.anchor
            b == IF other = "excluding-anchor" THEN Absent ELSE q.anchor
            x == Canonical(p, marker)
            y == Canonical(q, other)
<1>1. x = [kind |-> p.kind, facts |-> p.facts, refs |-> p.refs, schema |-> p.schema,
           generated |-> p.generated, hashes |-> p.hashes, anchor |-> a, signature |-> Absent]
  BY Covered
<1>2. y = [kind |-> q.kind, facts |-> q.facts, refs |-> q.refs, schema |-> q.schema,
           generated |-> q.generated, hashes |-> q.hashes, anchor |-> b, signature |-> Absent]
  BY Covered
<1>3. x = y
  OBVIOUS
<1>. HIDE DEF a, b, x, y
<1>4. /\ p.kind = q.kind /\ p.facts = q.facts /\ p.refs = q.refs /\ p.schema = q.schema
      /\ p.generated = q.generated /\ p.hashes = q.hashes
  BY <1>1, <1>2, <1>3
<1>5. Canonical(p, Marker(TRUE)) = Canonical(q, Marker(TRUE))
  BY <1>4, Covered DEF Marker
<1>. QED  BY <1>4, <1>5

LEMMA SignatureFacts ==
  ASSUME NEW p, SignatureStatus(p, Key) = "verified"
  PROVE  /\ p.signature # Absent /\ p.signature.keyId \in Key
         /\ p.signature.value = [by |-> p.signature.keyId,
                                 over |-> Canonical(p, p.signature.marker)]
  BY DEF SignatureStatus

\* Nobody else's key verifies: the value is one of those issued.
LEMMA ValueIsIssued ==
  ASSUME Inv, NEW files \in delivered, NEW c, Altered(c, files),
         NEW sig \in Signatures(c["packet"]), sig # Absent, sig.keyId \in Key,
         NEW over, sig.value = [by |-> sig.keyId, over |-> over]
  PROVE  \E f \in delivered : sig.value = f["packet"].signature.value
<1>. DEFINE own == c["packet"].signature
<1>1. /\ own = files["packet"].signature
      /\ \E id, marker, digest, value :
           own = [keyId |-> id, marker |-> marker, digest |-> digest, value |-> value]
  <2>1. PICK k, marker : SignedBy(files["packet"], k, marker)
    BY PacketOf
  <2>. QED  BY <2>1 DEF Altered, SignedBy
<1>2. \E f \in delivered : own.value = f["packet"].signature.value
  BY <1>1
<1>3. CASE sig \in {f["packet"].signature : f \in delivered}
  BY <1>3
<1>4. ASSUME NEW marker, sig = [own EXCEPT !.marker = marker, !.digest = Canonical(c["packet"], marker)]
      PROVE  sig.value = own.value
  <2>. DEFINE digest == Canonical(c["packet"], marker)
  <2>. HIDE DEF digest, own
  <2>1. sig = [own EXCEPT !.marker = marker, !.digest = digest]
    BY <1>4 DEF digest, own
  <2>. QED  BY <1>1, <2>1
<1>5. ASSUME NEW k, sig = [own EXCEPT !.keyId = k, !.digest = Canonical(c["packet"], own.marker),
                             !.value = [by |-> Stranger, over |-> Canonical(c["packet"], own.marker)]]
      PROVE  FALSE
  <2>. DEFINE digest == Canonical(c["packet"], own.marker)
              value == [by |-> Stranger, over |-> digest]
  <2>1. value.by = Stranger
    OBVIOUS
  <2>2. sig = [own EXCEPT !.keyId = k, !.digest = digest, !.value = value]
    BY <1>5
  <2>. HIDE DEF digest, value, own
  <2>3. sig.value = value
    BY <1>1, <2>2
  <2>4. sig.value.by = sig.keyId
    OBVIOUS
  <2>. QED  BY <2>1, <2>3, <2>4, SitesAssumption
<1>. HIDE DEF own
<1>. QED  BY <1>2, <1>3, <1>4, <1>5 DEF Signatures, own

\* A copy with the packet it was given last
Copy(c, p) == [c EXCEPT !["packet"] = p]

LEMMA CopyFacts ==
  ASSUME NEW c, "packet" \in DOMAIN c, NEW p
  PROVE  /\ DOMAIN Copy(c, p) = DOMAIN c /\ Copy(c, p)["packet"] = p
  BY DEF Copy

\* The strict check wants the packet's verdict and its signature.
LEMMA StrictNeeds ==
  ASSUME NEW files, ExitCode(files, Recipient(<< >>)) = 0
  PROVE  /\ PacketValid(files, Recipient(<< >>)) /\ SignatureStatus(files["packet"], Key) = "verified"
  BY DEF ExitCode, Recipient, Verified, CombinedValid

\* A copy that passes says what the packet it was taken from says.
LEMMA SaysTheSame ==
  ASSUME Inv, IssuerInv, NEW files \in delivered, NEW c, Altered(c, files),
         NEW sig \in Signatures(c["packet"]), NEW anchor,
         SignatureStatus(Copied(c["packet"], sig, anchor), Key) = "verified"
  PROVE  LET p == Copied(c["packet"], sig, anchor)
             q == files["packet"]
         IN  /\ p.facts = q.facts /\ p.hashes = q.hashes
             /\ Canonical(p, Marker(TRUE)) = Canonical(q, Marker(TRUE))
<1>. DEFINE r == c["packet"]
            p == Copied(r, sig, anchor)
            covered == Canonical(p, p.signature.marker)
<1>1. p = [kind |-> r.kind, facts |-> r.facts, refs |-> r.refs, schema |-> r.schema,
           generated |-> r.generated, hashes |-> r.hashes, anchor |-> anchor, signature |-> sig]
  BY CopiedParts DEF Altered
<1>. HIDE DEF p
<1>2. Parted(p) /\ p.signature = sig /\ p.generated = r.generated
  BY <1>1 DEF Parted
<1>3. sig # Absent /\ sig.keyId \in Key /\ sig.value = [by |-> sig.keyId, over |-> covered]
  BY <1>2, SignatureFacts DEF p
<1>. HIDE DEF covered
<1>4. PICK f \in delivered : sig.value = f["packet"].signature.value
  BY <1>3, ValueIsIssued
<1>5. Parted(f["packet"])
  BY PacketOf
<1>6. PICK k, marker : SignedBy(f["packet"], k, marker)
  BY PacketOf
<1>. DEFINE other == Canonical(f["packet"], marker)
<1>7. f["packet"].signature.value = [by |-> k, over |-> other]
  BY <1>6, SignedFacts
<1>. HIDE DEF other
<1>8. covered = other
  BY <1>3, <1>4, <1>7
<1>9. /\ p.facts = f["packet"].facts /\ p.hashes = f["packet"].hashes
      /\ p.generated = f["packet"].generated
      /\ Canonical(p, Marker(TRUE)) = Canonical(f["packet"], Marker(TRUE))
  <2>. DEFINE m == p.signature.marker
              q == f["packet"]
  <2>1. Canonical(p, m) = Canonical(q, marker) /\ Parted(p) /\ Parted(q)
    BY <1>2, <1>5, <1>8 DEF covered, other
  <2>. HIDE DEF m, q
  <2>2. /\ p.facts = q.facts /\ p.hashes = q.hashes /\ p.generated = q.generated
        /\ Canonical(p, Marker(TRUE)) = Canonical(q, Marker(TRUE))
    BY <2>1, SameWords
  <2>. QED  BY <2>2 DEF q
<1>10. f = files
  BY <1>2, <1>9 DEF Altered, IssuerInv
<1>. QED  BY <1>9, <1>10 DEF p

\* And holds what it holds.
LEMMA HoldsTheSame ==
  ASSUME Inv, NEW files \in delivered, NEW copy, NEW p, copy["packet"] = p,
         DOMAIN copy \subseteq DOMAIN files \cup {"flat"},
         p.hashes = files["packet"].hashes, p.facts = files["packet"].facts,
         PacketValid(copy, Recipient(<< >>))
  PROVE  /\ \A name \in DOMAIN copy \ {"packet", "flat"} : copy[name] = files[name]
         /\ Has(copy, "flat") => copy["flat"] = files["nested"]
<1>1. FilesMatch(copy, p.hashes) /\ CrossChecksPass(copy, p)
  BY DEF PacketValid
<1>2. /\ "manifest" \in DOMAIN copy => copy["manifest"] = p.hashes.manifest
      /\ "report" \in DOMAIN copy => copy["report"] = p.hashes.report
      /\ "certificate" \in DOMAIN copy => copy["certificate"] = p.hashes.certificate
      /\ "readme" \in DOMAIN copy => copy["readme"] = p.hashes.readme
      /\ "nested" \in DOMAIN copy => copy["nested"] = p.hashes.derivative
      /\ "flat" \in DOMAIN copy => copy["flat"] = p.hashes.derivative
  BY <1>1 DEF FilesMatch, FileMatches, DerivativePlaces
<1>3. "original" \in DOMAIN copy => copy["original"] = p.facts.original
  BY <1>1 DEF CrossChecksPass, Has
<1>4. DOMAIN files \subseteq {"packet", "manifest", "report", "certificate", "readme", "nested", "original"}
  BY PacketOf
<1>5. /\ files["manifest"] = p.hashes.manifest /\ files["report"] = p.hashes.report
      /\ files["certificate"] = p.hashes.certificate /\ files["readme"] = p.hashes.readme
      /\ files["nested"] = p.hashes.derivative
      /\ "original" \in DOMAIN files => files["original"] = p.facts.original
  BY PacketOf
<1>. QED  BY <1>2, <1>3, <1>4, <1>5 DEF Has

\* A token that verifies was made for the signature it comes with.
LEMMA DatedFacts ==
  ASSUME NEW p, SignatureStatus(p, Key) = "verified",
         NEW pins, AnchorStatus(p, pins) \in {"none", "verified"},
         p.anchor # Absent, p.anchor.type = "rfc3161-tsa"
  PROVE  p.anchor.token.content.imprint =
           [by |-> p.signature.keyId, over |-> Canonical(p, p.signature.marker)]
<1>1. VerifyToken(p.anchor.token, p.signature.value, pins \cup DefaultPins) \in {"none", "verified"}
  BY DEF AnchorStatus
<1>2. p.anchor.token.content.imprint = p.signature.value
  BY <1>1 DEF VerifyToken
<1>. QED  BY <1>2, SignatureFacts

LEMMA IssuedFromInv == Inv /\ IssuerInv => StrictMeansIssued
<1>. SUFFICES ASSUME Inv, IssuerInv, NEW files \in delivered, NEW c \in Contents(files),
                     NEW sig \in Signatures(c["packet"]),
                     NEW anchor \in Anchors([c["packet"] EXCEPT !.signature = sig]),
                     ExitCode(Copy(c, Copied(c["packet"], sig, anchor)), Recipient(<< >>)) = 0
              PROVE  LET copy == Copy(c, Copied(c["packet"], sig, anchor)) IN
                     \E f \in delivered :
                       /\ Canonical(copy["packet"], Marker(TRUE)) = Canonical(f["packet"], Marker(TRUE))
                       /\ \A name \in DOMAIN copy \ {"packet", "flat"} : copy[name] = f[name]
                       /\ Has(copy, "flat") => copy["flat"] = f["nested"]
  BY DEF StrictMeansIssued, EveryCopy, Copy, Copied
<1>. DEFINE p == Copied(c["packet"], sig, anchor)
            copy == Copy(c, p)
<1>1. Altered(c, files)
  BY ContentsAltered
<1>2. copy["packet"] = p /\ DOMAIN copy \subseteq DOMAIN files \cup {"flat"}
  BY <1>1, CopyFacts DEF Altered
<1>3. PacketValid(copy, Recipient(<< >>)) /\ SignatureStatus(p, Key) = "verified"
  BY <1>2, StrictNeeds
<1>4. /\ p.facts = files["packet"].facts /\ p.hashes = files["packet"].hashes
      /\ Canonical(p, Marker(TRUE)) = Canonical(files["packet"], Marker(TRUE))
  BY <1>1, <1>3, SaysTheSame
<1>. HIDE DEF copy, p
<1>5. /\ \A name \in DOMAIN copy \ {"packet", "flat"} : copy[name] = files[name]
      /\ Has(copy, "flat") => copy["flat"] = files["nested"]
  BY <1>2, <1>3, <1>4, HoldsTheSame
<1>. QED  BY <1>2, <1>4, <1>5 DEF copy, p

LEMMA BindsFromInv == Inv => AnchorBinds
<1>. SUFFICES ASSUME Inv, NEW files \in delivered, NEW c \in Contents(files),
                     NEW sig \in Signatures(c["packet"]),
                     NEW anchor \in Anchors([c["packet"] EXCEPT !.signature = sig]),
                     ExitCode(Copy(c, Copied(c["packet"], sig, anchor)), Recipient(<< >>)) = 0
              PROVE  LET p == Copy(c, Copied(c["packet"], sig, anchor))["packet"] IN
                     p.anchor # Absent /\ p.anchor.type = "rfc3161-tsa" =>
                       p.anchor.token.content.imprint =
                         [by |-> p.signature.keyId, over |-> Canonical(p, p.signature.marker)]
  BY DEF AnchorBinds, EveryCopy, Copy, Copied
<1>. DEFINE copy == Copy(c, Copied(c["packet"], sig, anchor))
            p == copy["packet"]
<1>1. PacketValid(copy, Recipient(<< >>)) /\ SignatureStatus(p, Key) = "verified"
  BY StrictNeeds
<1>. HIDE DEF copy
<1>2. AnchorStatus(p, Cert) \in {"none", "verified"}
  BY <1>1 DEF PacketValid, Recipient
<1>. HIDE DEF p
<1>3. p.anchor # Absent /\ p.anchor.type = "rfc3161-tsa" =>
        p.anchor.token.content.imprint =
          [by |-> p.signature.keyId, over |-> Canonical(p, p.signature.marker)]
  BY <1>1, <1>2, DatedFacts
<1>. QED  BY <1>3 DEF copy, p

\* For any jobs, downloads, keys, authorities and bounds: a copy the strict check
\* accepts, however it was put together from what was delivered, says and holds
\* what one issued packet does, and a timestamp on it is over its own signature
\* (counselclear_verify_release_packet.py, main).
THEOREM StrictCopiesAreIssued == Spec => []StrictMeansIssuedWhole
<1>1. Init => IssuerInv
  BY DEF Init, IssuerInv, Packaged
<1>2. Spec => []IssuerInv
  BY <1>1, IssuerStep, DraftsFit, PTL DEF Spec
<1>3. Inv /\ IssuerInv => StrictMeansIssuedWhole
  BY IssuedFromInv, BindsFromInv DEF StrictMeansIssuedWhole
<1>. QED  BY <1>2, <1>3, DraftsFit, PTL

-----------------------------------------------------------------------------
(* Types.                                                                   *)

Counted(S, n) == IsFiniteSet(S) /\ Cardinality(S) <= n

BoundsInv ==
  /\ now \in 0..site.seconds
  /\ bounds = [rotations |-> bounds.rotations, damage |-> bounds.damage]
  /\ bounds.rotations \in 0..site.rotations /\ bounds.damage \in 0..site.damage
  /\ Counted(results, site.results) /\ Counted(pulled, site.pulls)

Blank == [manifest |-> Absent, derivative |-> Absent]
DiskInv == DOMAIN disk = Job /\ \A j \in Job : ended[j] # "done" => disk[j] = Blank

\* How often a download has tried for a timestamp, and what its draft keeps when
\* it is over
Tried(place, dr) ==
  /\ dr.tries \in 0..(Retries + 1)
  /\ place \in {"certified", "read", "announced", "assembled"} => dr.tries = 0
  /\ place = "signed" /\ dr.packet.anchor = Absent => dr.tries = 0
  /\ place = "labelled" => dr.tries \in 0..Retries
Kept(place, dr) ==
  /\ place \in {"idle", "delivered", "dead"} => dr = Draft0
  /\ place = "409" => dr.job \in Job
  /\ place \in {"certified", "read", "409"} => dr.download = 0
HandInv == \A d \in Download : Tried(at[d], draft[d]) /\ Kept(at[d], draft[d])

LEMMA SiteBounds ==
  ASSUME Inv
  PROVE  /\ site.seconds \in Nat /\ site.rotations \in Nat /\ site.damage \in Nat
         /\ site.results \in Nat /\ site.pulls \in Nat
  BY SitesAssumption DEF Inv, PacketInv, DraftInv

LEMMA OneMore ==
  ASSUME NEW S, NEW n \in Nat, Counted(S, n), Cardinality(S) < n, NEW e
  PROVE  Counted(S \cup {e}, n)
<1>1. IsFiniteSet(S \cup {e}) /\ Cardinality(S \cup {e}) \in {Cardinality(S), Cardinality(S) + 1}
  BY FS_AddElement DEF Counted
<1>2. Cardinality(S) \in Nat
  BY FS_CardinalityType DEF Counted
<1>. QED  BY <1>1, <1>2 DEF Counted

LEMMA BoundsStep == Inv /\ BoundsInv /\ [Next]_vars => BoundsInv'
<1>. SUFFICES ASSUME Inv, BoundsInv, [Next]_vars PROVE BoundsInv'
  OBVIOUS
<1>1. ASSUME NEW j \in site.jobs, Result(j) PROVE BoundsInv'
  <2>1. \E e : results' = results \cup {e}
    BY <1>1 DEF Result
  <2>2. Counted(results', site.results)
    BY <1>1, <2>1, OneMore, SiteBounds DEF Result, BoundsInv
  <2>. QED  BY <1>1, <2>2 DEF Result, BoundsInv
<1>2. ASSUME NEW j \in site.jobs, NEW user \in site.downloads, Pull(j, user) PROVE BoundsInv'
  <2>1. Counted(pulled', site.pulls)
    BY <1>2, OneMore, SiteBounds DEF Pull, BoundsInv
  <2>. QED  BY <1>2, <2>1 DEF Pull, BoundsInv
<1>3. ASSUME NEW j \in site.jobs, Damage(j) PROVE BoundsInv'
  <2>1. /\ bounds.damage < site.damage /\ bounds' = [bounds EXCEPT !.damage = @ + 1]
        /\ UNCHANGED <<now, site, issued>>
    BY <1>3 DEF Damage
  <2>. QED  BY <2>1, SiteBounds DEF BoundsInv, issued
<1>4. ASSUME Rotate PROVE BoundsInv'
  <2>1. /\ bounds.rotations < site.rotations /\ bounds' = [bounds EXCEPT !.rotations = @ + 1]
        /\ UNCHANGED <<now, site, issued>>
    BY <1>4 DEF Rotate
  <2>. QED  BY <2>1, SiteBounds DEF BoundsInv, issued
<1>5. ASSUME Tick PROVE BoundsInv'
  BY <1>5, SiteBounds DEF Tick, BoundsInv, issued
<1>6. \/ UNCHANGED <<now, site, results, pulled, bounds>>
      \/ Tick \/ Rotate
      \/ \E j \in site.jobs : Result(j) \/ Damage(j) \/ \E user \in site.downloads : Pull(j, user)
  BY DEF Next, vars, issued, Finish, Record, Begin, Die, Progress, ReadFiles, Announce,
         Assemble, Sign, Label, Stamp, FallBack, Deliver
<1>7. CASE UNCHANGED <<now, site, results, pulled, bounds>>
  BY <1>7 DEF BoundsInv
<1>. QED  BY <1>1, <1>2, <1>3, <1>4, <1>5, <1>6, <1>7

LEMMA DiskStep == Inv /\ DiskInv /\ [Next]_vars => DiskInv'
<1>. SUFFICES ASSUME Inv, DiskInv, [Next]_vars PROVE DiskInv'
  OBVIOUS
<1>1. ASSUME NEW j \in site.jobs, NEW status \in {"done", "refused"}, Finish(j, status)
      PROVE  DiskInv'
  <2>1. DOMAIN disk' = Job /\ DOMAIN ended = Job
    BY <1>1 DEF Finish, DiskInv, Inv, ChainInv
  <2>2. ASSUME NEW i \in Job, ended'[i] # "done" PROVE disk'[i] = Blank
    <3>1. CASE i = j
      <4>1. status # "done" /\ ended[i] # "done"
        BY <1>1, <2>1, <2>2, <3>1 DEF Finish
      <4>. QED  BY <1>1, <4>1 DEF Finish, DiskInv
    <3>2. CASE i # j
      <4>1. ended'[i] = ended[i] /\ disk'[i] = disk[i]
        BY <1>1, <2>1, <3>2 DEF Finish, DiskInv
      <4>. QED  BY <2>2, <4>1 DEF DiskInv
    <3>. QED  BY <3>1, <3>2
  <2>. QED  BY <2>1, <2>2 DEF DiskInv
<1>2. ASSUME NEW j \in site.jobs, Damage(j) PROVE DiskInv'
  <2>1. /\ DOMAIN disk' = Job /\ UNCHANGED ended /\ ended[j] = "done"
        /\ \A i \in Job \ {j} : disk'[i] = disk[i]
    BY <1>2 DEF Damage, DiskInv
  <2>. QED  BY <2>1 DEF DiskInv
<1>3. \/ UNCHANGED <<ended, disk>>
      \/ \E j \in site.jobs : Damage(j) \/ \E status \in {"done", "refused"} : Finish(j, status)
  BY DEF Next, vars, store, Record, Result, Pull, Begin, Die, Progress, ReadFiles, Announce,
         Assemble, Sign, Label, Stamp, FallBack, Deliver, Tick, Rotate
<1>. QED  BY <1>1, <1>2, <1>3 DEF DiskInv

\* A step of one download
LEMMA HandOf ==
  ASSUME Inv, HandInv, NEW d \in Download, NEW place, Go(d, place), NEW dr,
         \A u \in Download \ {d} : draft'[u] = draft[u],
         draft'[d] = dr, Tried(place, dr), Kept(place, dr)
  PROVE  HandInv'
<1>1. at'[d] = place /\ \A u \in Download \ {d} : at'[u] = at[u]
  BY DEF Go, Inv, PacketInv, DraftInv
<1>. QED  BY <1>1 DEF HandInv

LEMMA HandRepacked ==
  ASSUME Inv, HandInv, NEW d \in Download, NEW q, draft' = [draft EXCEPT ![d].packet = q],
         NEW place \in {"assembled", "signed", "labelled", "complete"}, Go(d, place),
         place = "assembled" \/ (place = "signed" /\ q.anchor = Absent) => draft[d].tries = 0,
         place = "labelled" => draft[d].tries \in 0..Retries
  PROVE  HandInv'
<1>1. /\ Tried(at[d], draft[d]) /\ DOMAIN draft = Download /\ Drafted(draft[d])
  BY DEF HandInv, Inv, PacketInv, DraftInv, Fits
<1>2. /\ draft'[d] = [draft[d] EXCEPT !.packet = q]
      /\ \A u \in Download \ {d} : draft'[u] = draft[u]
  BY <1>1
<1>3. draft'[d].packet = q /\ draft'[d].tries = draft[d].tries
  BY <1>1, <1>2 DEF Drafted
<1>4. Tried(place, draft'[d]) /\ Kept(place, draft'[d])
  BY <1>1, <1>3 DEF Tried, Kept, Retries
<1>. QED  BY <1>2, <1>4, HandOf

LEMMA HandKeeps ==
  ASSUME Inv, HandInv, NEW d \in Download,
         \/ Begin(d) \/ Die(d) \/ ReadFiles(d) \/ Announce(d) \/ Assemble(d) \/ Sign(d)
         \/ Label(d) \/ Stamp(d) \/ FallBack(d) \/ Deliver(d)
  PROVE  HandInv'
<1>1. /\ Tried(at[d], draft[d]) /\ Kept(at[d], draft[d]) /\ DOMAIN draft = Download
      /\ Fits(at[d], draft[d], chain, ended, site.tsa) /\ Drafted(draft[d])
      /\ DOMAIN at = Download
  BY DEF HandInv, Inv, PacketInv, DraftInv, Fits
<1>2. Kept("idle", Draft0) /\ \A place \in {"delivered", "dead"} : Tried(place, Draft0) /\ Kept(place, Draft0)
  BY DEF Kept, Tried, Draft0, Retries
<1>3. CASE Begin(d)
  <2>1. PICK j \in site.jobs, original \in site.originals :
          draft' = [draft EXCEPT ![d].job = j, ![d].original = original,
                                 ![d].certificate = Certificate(j, d)]
    BY <1>3 DEF Begin
  <2>. DEFINE cert == Certificate(j, d)
  <2>2. Go(d, "certified") /\ draft[d] = Draft0
    BY <1>1, <1>3 DEF Begin, Kept
  <2>. HIDE DEF cert
  <2>3. /\ draft'[d] = [draft[d] EXCEPT !.job = j, !.original = original, !.certificate = cert]
        /\ \A u \in Download \ {d} : draft'[u] = draft[u]
    BY <1>1, <2>1 DEF cert
  <2>4. draft'[d].tries = 0 /\ draft'[d].download = 0
    BY <1>1, <2>2, <2>3 DEF Draft0
  <2>5. Tried("certified", draft'[d]) /\ Kept("certified", draft'[d])
    BY <2>4 DEF Tried, Kept, Retries
  <2>. QED  BY <2>2, <2>3, <2>5, HandOf
<1>4. CASE Die(d)
  <2>1. Go(d, "dead") /\ draft'[d] = Draft0 /\ \A u \in Download \ {d} : draft'[u] = draft[u]
    BY <1>1, <1>4 DEF Die
  <2>. QED  BY <1>2, <2>1, HandOf
<1>5. CASE Deliver(d)
  <2>1. Go(d, "delivered") /\ draft'[d] = Draft0 /\ \A u \in Download \ {d} : draft'[u] = draft[u]
    BY <1>1, <1>5 DEF Deliver
  <2>. QED  BY <1>2, <2>1, HandOf
<1>6. CASE ReadFiles(d)
  <2>1. at[d] = "certified" /\ draft[d].job \in Job /\ draft[d].tries = 0 /\ draft[d].download = 0
    BY <1>1, <1>6 DEF ReadFiles, Fits, Begun, Working, Tried, Kept
  <2>. DEFINE m == IF disk[J(d)].manifest = Absent THEN Nothing ELSE disk[J(d)].manifest
              v == disk[J(d)].derivative
  <2>2. \/ draft' = [draft EXCEPT ![d].manifest = m, ![d].derivative = v] /\ Go(d, "read")
        \/ Go(d, "409") /\ UNCHANGED draft
    BY <1>6 DEF ReadFiles
  <2>. HIDE DEF m, v
  <2>3. CASE draft' = [draft EXCEPT ![d].manifest = m, ![d].derivative = v] /\ Go(d, "read")
    <3>1. /\ draft'[d] = [draft[d] EXCEPT !.manifest = m, !.derivative = v]
          /\ \A u \in Download \ {d} : draft'[u] = draft[u]
      BY <1>1, <2>3
    <3>2. draft'[d].tries = 0 /\ draft'[d].download = 0
      BY <1>1, <2>1, <3>1 DEF Drafted
    <3>3. Tried("read", draft'[d]) /\ Kept("read", draft'[d])
      BY <3>2 DEF Tried, Kept, Retries
    <3>. QED  BY <2>3, <3>1, <3>3, HandOf
  <2>4. CASE Go(d, "409") /\ UNCHANGED draft
    <3>1. Tried("409", draft'[d]) /\ Kept("409", draft'[d])
      BY <1>1, <2>1, <2>4 DEF Tried, Kept, Retries
    <3>. QED  BY <2>4, <3>1, HandOf
  <2>. QED  BY <2>2, <2>3, <2>4
<1>7. CASE Announce(d)
  <2>. DEFINE r == Readme(J(d), key)
              n == Len(chain')
  <2>1. draft' = [draft EXCEPT ![d].readme = r, ![d].download = n] /\ Go(d, "announced")
        /\ draft[d].tries = 0
    BY <1>1, <1>7 DEF Announce, Tried
  <2>. HIDE DEF r, n
  <2>2. /\ draft'[d] = [draft[d] EXCEPT !.readme = r, !.download = n]
        /\ \A u \in Download \ {d} : draft'[u] = draft[u]
    BY <1>1, <2>1
  <2>3. draft'[d].tries = 0
    BY <1>1, <2>1, <2>2 DEF Drafted
  <2>4. Tried("announced", draft'[d]) /\ Kept("announced", draft'[d])
    BY <2>3 DEF Tried, Kept, Retries
  <2>. QED  BY <2>1, <2>2, <2>4, HandOf
<1>8. CASE Assemble(d)
  <2>1. PICK q : draft' = [draft EXCEPT ![d].packet = q]
    BY <1>8 DEF Assemble, Set
  <2>2. Go(d, "assembled") /\ draft[d].tries = 0
    BY <1>1, <1>8 DEF Assemble, Tried
  <2>. QED  BY <2>1, <2>2, HandRepacked
<1>9. CASE Sign(d)
  <2>1. PICK q : draft' = [draft EXCEPT ![d].packet = q]
    BY <1>9 DEF Sign, Set
  <2>2. Go(d, "signed") /\ draft[d].tries = 0
    BY <1>1, <1>9 DEF Sign, Tried
  <2>. QED  BY <2>1, <2>2, HandRepacked
<1>10. CASE Label(d)
  <2>. DEFINE q == [draft[d].packet EXCEPT !.signature.keyId = key]
              place == IF draft[d].packet.anchor = Absent THEN "labelled" ELSE "complete"
  <2>1. draft' = [draft EXCEPT ![d].packet = q] /\ Go(d, place) /\ at[d] = "signed"
    BY <1>10 DEF Label
  <2>2. place = "labelled" => draft[d].tries \in 0..Retries
    BY <1>1, <2>1 DEF Tried, Retries
  <2>3. place \in {"labelled", "complete"}
    OBVIOUS
  <2>. HIDE DEF q, place
  <2>. QED  BY <2>1, <2>2, <2>3, HandRepacked
<1>11. CASE FallBack(d)
  <2>. DEFINE q == Resigned(draft[d].packet, key)
  <2>1. draft' = [draft EXCEPT ![d].packet = q] /\ Go(d, "signed") /\ at[d] \in Packaged
    BY <1>11 DEF FallBack, Set, Packaged
  <2>2. q.anchor = OperatorAnchor(key)
    BY <2>1, PacketParted, SigningAnew DEF Resigned
  <2>3. q.anchor # Absent
    BY <2>2, OperatorsAnchor
  <2>. HIDE DEF q
  <2>. QED  BY <2>1, <2>3, HandRepacked
<1>12. CASE Stamp(d)
  <2>. DEFINE p == draft[d].packet
  <2>1. draft[d].tries \in 0..Retries
    BY <1>1, <1>12 DEF Stamp, Tried
  <2>2. CASE Go(d, "resign") /\ UNCHANGED draft
    <3>1. Tried("resign", draft'[d]) /\ Kept("resign", draft'[d])
      BY <2>1, <2>2 DEF Tried, Kept, Retries
    <3>. QED  BY <2>2, <3>1, HandOf
  <2>3. CASE \E a : draft' = [draft EXCEPT ![d].packet.anchor = a] /\ Go(d, "complete")
    <3>1. PICK a : draft' = [draft EXCEPT ![d].packet.anchor = a] /\ Go(d, "complete")
      BY <2>3
    <3>. DEFINE q == [p EXCEPT !.anchor = a]
    <3>2. draft' = [draft EXCEPT ![d].packet = q]
      BY <3>1
    <3>. HIDE DEF q
    <3>. QED  BY <3>1, <3>2, HandRepacked
  <2>4. CASE Set(d, "tries", AfterAttempt(d)[1]) /\ Go(d, AfterAttempt(d)[2])
    <3>. DEFINE n == AfterAttempt(d)[1]
                place == AfterAttempt(d)[2]
    <3>1. /\ n \in 0..(Retries + 1) /\ place \in {"labelled", "resign"}
          /\ place = "labelled" => n \in 0..Retries
      BY <2>1 DEF AfterAttempt, Retries
    <3>2. draft' = [draft EXCEPT ![d].tries = n] /\ Go(d, place)
      BY <2>4 DEF Set
    <3>. HIDE DEF n, place
    <3>3. /\ draft'[d] = [draft[d] EXCEPT !.tries = n]
          /\ \A u \in Download \ {d} : draft'[u] = draft[u]
      BY <1>1, <3>2
    <3>4. draft'[d].tries = n
      BY <1>1, <3>3 DEF Drafted
    <3>5. Tried(place, draft'[d]) /\ Kept(place, draft'[d])
      BY <3>1, <3>4 DEF Tried, Kept
    <3>. QED  BY <3>2, <3>3, <3>5, HandOf
  <2>5. CASE \E reply \in site.replies :
               /\ draft' = [draft EXCEPT ![d].packet.anchor =
                    [type |-> "rfc3161-tsa", digest |-> p.signature.value, reference |-> Absent,
                     token |-> Extracted(reply, site.tsa, p.signature.value, Nothing)]]
               /\ Go(d, "complete")
    BY <2>3, <2>5
  <2>. QED  BY <1>12, <2>2, <2>4, <2>5 DEF Stamp
<1>. QED  BY <1>3, <1>4, <1>5, <1>6, <1>7, <1>8, <1>9, <1>10, <1>11, <1>12

LEMMA HandStep == Inv /\ HandInv /\ [Next]_vars => HandInv'
<1>1. ASSUME HandInv, UNCHANGED <<at, draft>> PROVE HandInv'
  BY <1>1 DEF HandInv
<1>2. ASSUME Inv, [Next]_vars
      PROVE  \/ UNCHANGED <<at, draft>>
             \/ \E d \in Download :
                  \/ Begin(d) \/ Die(d) \/ ReadFiles(d) \/ Announce(d) \/ Assemble(d) \/ Sign(d)
                  \/ Label(d) \/ Stamp(d) \/ FallBack(d) \/ Deliver(d)
  <2>1. site.downloads \subseteq Download
    BY <1>2, SiteFacts
  <2>. QED  BY <1>2, <2>1 DEF Next, Progress, vars, Finish, Record, Result, Damage, Pull, Tick, Rotate
<1>. QED  BY <1>1, <1>2, HandKeeps

LEMMA TypesFromInv == Inv /\ BoundsInv /\ DiskInv /\ HandInv => TypeOK
<1>. SUFFICES ASSUME Inv, BoundsInv, DiskInv, HandInv PROVE TypeOK
  OBVIOUS
<1>1. /\ now \in 0..site.seconds /\ key \in Key /\ site \in Sites
      /\ ended \in [Job -> {"none", "done", "refused"}] /\ at \in [Download -> Places]
      /\ bounds.rotations \in 0..site.rotations /\ bounds.damage \in 0..site.damage
      /\ Cardinality(results) <= site.results /\ Cardinality(pulled) <= site.pulls
  BY DEF BoundsInv, Counted, Inv, ChainInv, PacketInv, DraftInv
<1>2. \A j \in Job : ended[j] # "done" => disk[j] = [manifest |-> Absent, derivative |-> Absent]
  BY DEF DiskInv, Blank
<1>3. ASSUME NEW d \in Download
      PROVE  /\ draft[d].tries \in 0..(Retries + 1) /\ draft[d].download \in 0..Len(chain)
             /\ at[d] \notin {"idle", "delivered", "dead"} => draft[d].job \in Job
             /\ at[d] \in {"assembled", "signed", "labelled", "resign", "complete"} =>
                  draft[d].packet.kind = "packet"
  <2>1. /\ Fits(at[d], draft[d], chain, ended, site.tsa) /\ Tried(at[d], draft[d])
        /\ Kept(at[d], draft[d]) /\ at[d] \in Places /\ Len(chain) \in Nat
    BY DEF HandInv, Inv, ChainInv, PacketInv, DraftInv
  <2>2. draft[d].tries \in 0..(Retries + 1)
    BY <2>1 DEF Tried
  <2>3. at[d] \in Packaged => draft[d].packet.kind = "packet"
    BY <2>1 DEF Fits, Packed
  <2>4. at[d] \notin {"idle", "delivered", "dead"} => draft[d].job \in Job
    BY <2>1 DEF Fits, Begun, Kept, Working, Packaged, Places
  <2>5. draft[d].download \in 0..Len(chain)
    <3>1. CASE at[d] \in {"announced"} \cup Packaged
      BY <2>1, <3>1 DEF Fits, Announced
    <3>2. CASE at[d] \in {"certified", "read", "409"}
      BY <2>1, <3>2 DEF Kept
    <3>3. CASE at[d] \in {"idle", "delivered", "dead"}
      BY <2>1, <3>3 DEF Kept, Draft0
    <3>. QED  BY <2>1, <3>1, <3>2, <3>3 DEF Places, Packaged
  <2>. QED  BY <2>2, <2>3, <2>4, <2>5 DEF Packaged
<1>4. \A files \in delivered : files["packet"].signature.keyId \in Key
  <2>. SUFFICES ASSUME NEW files \in delivered PROVE files["packet"].signature.keyId \in Key
    OBVIOUS
  <2>1. PICK dr : files = Members(dr) /\ Fits("complete", dr, chain, ended, site.tsa)
    BY DEF Inv, PacketInv, DeliveredInv
  <2>. QED  BY <2>1, MembersAre DEF Fits
<1>. QED  BY <1>1, <1>2, <1>3, <1>4 DEF TypeOK

\* Every variable keeps its type, for any jobs, downloads, keys and sites.
THEOREM TypeCorrect == Spec => []TypeOK
<1>1. Init => BoundsInv /\ DiskInv /\ HandInv
  <2>. SUFFICES ASSUME Init PROVE BoundsInv /\ DiskInv /\ HandInv
    OBVIOUS
  <2>1. Inv
    BY InitInv
  <2>2. Counted({}, site.results) /\ Counted({}, site.pulls)
    BY <2>1, SiteBounds, FS_EmptySet DEF Counted
  <2>3. BoundsInv
    BY <2>1, <2>2, SiteBounds DEF Init, BoundsInv
  <2>4. DiskInv
    BY DEF Init, DiskInv, Blank
  <2>5. HandInv
    BY DEF Init, HandInv, Tried, Kept, Draft0, Retries
  <2>. QED  BY <2>3, <2>4, <2>5
<1>2. Spec => [](BoundsInv /\ DiskInv /\ HandInv)
  BY <1>1, DraftsFit, BoundsStep, DiskStep, HandStep, PTL DEF Spec
<1>. QED  BY <1>2, DraftsFit, TypesFromInv, PTL

=============================================================================
