------------------------------ MODULE Policies ------------------------------
(***************************************************************************)
(* From what was found and what the operator decided to a plan, and from a *)
(* plan to a cleaned file and the records of what was done                 *)
(* (service/scripts/policies.py).                                          *)
(***************************************************************************)
EXTENDS Formats

Subtypes ==
    { "authoring_props", "jpeg_gps", "comments_and_notes", "headers_footers", "hidden_structure",
      "hidden_text", "embeddings_ole", "custom_xml", "external_links", "pdf_js_actions",
      "pdf_acroform", "pdf_attachments", "pdf_annots", "tracked_changes", "pdf_incremental",
      "c2pa", "layer_a_body", "layer_a_non_body", "cms_or_xml_dsig", "macros_vba" }

PolicyIds == {"external_sharing", "privacy_only", "production", "evidence_preservation"}

\* The product's own refusals of an altered file.
Unstrippable == {"pdf_js_actions", "pdf_annots", "pdf_attachments", "pdf_acroform"}

ExternalSharing(st) ==
    CASE st \in {"headers_footers", "hidden_structure", "hidden_text", "pdf_acroform"} -> "flag"
      [] st \in {"pdf_js_actions", "pdf_attachments", "pdf_annots", "macros_vba"} -> "refuse"
      [] st = "tracked_changes" -> "accept_all"
      [] st = "pdf_incremental" -> "rebuild"
      [] st = "layer_a_body" -> "sanitize"
      [] st = "layer_a_non_body" -> "keep"
      [] st = "cms_or_xml_dsig" -> "refuse_unless_attest"
      [] OTHER -> "strip"

PrivacyOnly(st) ==
    CASE st = "authoring_props" -> "strip_listed"
      [] st = "jpeg_gps" -> "strip"
      [] st = "layer_a_body" -> "sanitize"
      [] st = "macros_vba" -> "refuse"
      [] OTHER -> "keep"

Production(st) ==
    CASE st \in {"authoring_props", "jpeg_gps", "custom_xml"} -> "strip"
      [] st = "headers_footers" -> "flag"
      [] st \in {"pdf_js_actions", "macros_vba"} -> "refuse"
      [] st = "pdf_incremental" -> "rebuild"
      [] st = "c2pa" -> "strip_if_authorized"
      [] st = "layer_a_body" -> "sanitize"
      [] st = "cms_or_xml_dsig" -> "refuse_unless_attest"
      [] OTHER -> "approve"

EvidencePreservation(st) == IF st = "macros_vba" THEN "inspect_only" ELSE "keep"

DefaultPolicy(p, st) ==
    CASE p = "external_sharing" -> ExternalSharing(st)
      [] p = "privacy_only" -> PrivacyOnly(st)
      [] p = "production" -> Production(st)
      [] OTHER -> EvidencePreservation(st)

\* What may not stay in a plan that a gate has to pass.
Mutating == {"strip", "accept_all", "rebuild", "sanitize"}

StrictTooling == {"external_sharing", "production"}

-----------------------------------------------------------------------------
(* Planning.  A request is [policy, decisions, attested]; decisions is      *)
(* [approve, keep]: two disjoint sets of rows.                              *)

\* The two hard gates, before anything else.
PlanRefused(req, seen) ==
    \/ "macros_vba" \in seen /\ DefaultPolicy(req.policy, "macros_vba") # "inspect_only"
    \/ /\ "cms_or_xml_dsig" \in seen
       /\ DefaultPolicy(req.policy, "cms_or_xml_dsig") = "refuse_unless_attest"
       /\ ~req.attested

\* An approval executes what external sharing would do; without a decision
\* the row is kept.
PlanRow(req, st) ==
    LET default == DefaultPolicy(req.policy, st)
    IN IF default = "approve" /\ st \in req.decisions.approve
         THEN [action |-> ExternalSharing(st), reason |-> "operator_approved"]
       ELSE IF default = "approve"
         THEN [action |-> "keep",
               reason |-> IF st \in req.decisions.keep THEN "operator_kept" ELSE "no_decision"]
       ELSE IF default = "refuse_unless_attest" THEN [action |-> "rebuild", reason |-> "attested"]
       ELSE [action |-> default, reason |-> "policy_default"]

PlanActions(req) == [st \in Subtypes |-> PlanRow(req, st)]

-----------------------------------------------------------------------------
(* Execution.  A result is [ok, refused, marks, records]: refused tells a  *)
(* refusal of the policy from an error; a record is <<row, action>>.        *)

Applied(marks, records) == [ok |-> TRUE, refused |-> FALSE, marks |-> marks, records |-> records]

Refuses(marks) == [ok |-> FALSE, refused |-> TRUE, marks |-> marks, records |-> {}]

Raised(marks) == [ok |-> FALSE, refused |-> FALSE, marks |-> marks, records |-> {}]

\* Mutant: accepting the revisions takes the comments along.
OoxmlKwargsAllReview(plan) ==
    [ text       |-> plan["layer_a_body"].action = "sanitize",
      listed     |-> plan["authoring_props"].action = "strip_listed",
      custom     |-> plan["custom_xml"].action = "strip",
      accept     |-> plan["tracked_changes"].action = "accept_all",
      embeddings |-> plan["embeddings_ole"].action = "strip",
      comments   |-> plan["tracked_changes"].action = "accept_all",
      external   |-> plan["external_links"].action = "strip" ]

\* The options of an OOXML clean.
OoxmlKwargs(plan) ==
    [ text       |-> plan["layer_a_body"].action = "sanitize",
      listed     |-> plan["authoring_props"].action = "strip_listed",
      custom     |-> plan["custom_xml"].action = "strip",
      accept     |-> plan["tracked_changes"].action = "accept_all",
      embeddings |-> plan["embeddings_ole"].action = "strip",
      comments   |-> plan["comments_and_notes"].action = "strip",
      external   |-> plan["external_links"].action = "strip" ]

\* The location of a standalone JPEG, by exiftool or not at all.
ExiftoolPrivacyJpeg(marks, tools) ==
    IF tools.exiftool = "ok" THEN Applied(marks \ {"app_gps"}, {<<"jpeg_gps", "strip">>})
    ELSE Refuses(marks)

\* The author's name of a PDF, by exiftool or not at all; and the locations
\* of the pictures inside, if they can be reached.
ExiftoolPrivacyPdf(marks, tools) ==
    LET edited == ExiftoolEdit(marks, {"author"})
        images == edited \cap (PdfImageMetadata \cup {"image_meta_indirect"})
    IN IF tools.exiftool # "ok" THEN Refuses(marks)
       ELSE IF images = {} THEN Applied(edited, {<<"authoring_props", "strip_listed">>})
       ELSE IF "image_gps" \in edited
         THEN Applied(StripPdfImageGps(edited, tools.qpdf),
                      {<<"authoring_props", "strip_listed">>, <<"embedded_image_metadata", "strip">>})
       ELSE Applied(edited, {<<"authoring_props", "strip_listed">>,
                             <<"embedded_image_metadata", "flag">>})

ApplyPdf(marks, req, plan, present, tools) ==
    LET out == CleanPdf(marks, tools)
    IN IF \E st \in Unstrippable \cap present : plan[st].action \in {"strip", "refuse"}
         THEN Refuses(marks)
       ELSE IF plan["authoring_props"].action = "strip_listed" /\ plan["pdf_incremental"].action # "rebuild"
         THEN ExiftoolPrivacyPdf(marks, tools)
       ELSE IF req.policy \in StrictTooling /\ ~(out.mode = "exiftool" /\ out.structural_rewrite)
         THEN Refuses(marks)
       ELSE Applied(out.marks,
                    {<<"authoring_props", "done">>, <<"pdf_incremental", "done">>}
                      \cup (IF out.deep_images = "none" THEN {}
                            ELSE {<<"embedded_image_metadata", out.deep_images>>}))

ApplyOoxml(fmt, marks, plan) ==
    LET k == OoxmlKwargs(plan)
        legal == CASE fmt = "docx" -> DocxLegalClean(marks, k)
                   [] fmt = "xlsx" -> XlsxLegalClean(marks, k)
                   [] OTHER -> PptxLegalClean(marks, k)
        gone == marks \cap (legal \cup ScrubOoxmlZip(k))
    IN Applied(marks \ gone, {<<st, plan[st].action>> :
               st \in {"authoring_props", "comments_and_notes", "custom_xml",
                       "layer_a_body", "tracked_changes"} \cap See(SubtypeOf, See(Reader(fmt), gone))})

\* The formats without options: a sharing clean, if anything mutates at all.
ApplyOther(fmt, marks, plan) ==
    LET cleaner == CASE fmt = "odt" -> CleanOdt
                     [] fmt = "epub" -> CleanEpub
                     [] OTHER -> CleanSvg(marks)
    IN IF \A st \in Subtypes : plan[st].action \notin {"strip", "accept_all", "sanitize"}
         THEN Applied(marks, {<<"file_metadata", "keep">>})
       ELSE IF ContainerCleanRefusal(fmt, marks) \/ fmt \notin {"odt", "epub", "svg"} THEN Raised(marks)
       ELSE Applied(marks \ cleaner, {<<"file_metadata", "strip">>})

ApplyImage(fmt, marks, plan, tools) ==
    IF plan["authoring_props"].action = "strip_listed"
      THEN IF fmt = "jpeg" THEN ExiftoolPrivacyJpeg(marks, tools)
           ELSE Applied(marks, {<<"file_metadata", "keep">>})
    ELSE IF fmt \notin Rasters \/ StripRaises(fmt, marks) THEN Raised(marks)
    ELSE IF fmt \in {"png", "jpeg"}
      THEN Applied(marks \ ImageStripper(fmt), {<<"file_metadata", "strip">>})
    ELSE Applied(CleanImage(fmt, marks, tools.exiftool), {<<"file_metadata", "strip">>})

ApplyAv(fmt, marks) ==
    IF fmt \notin Sounds \/ StripRaises("isobmff", IF fmt = "mp4" THEN marks ELSE {}) THEN Raised(marks)
    ELSE Applied(CleanAv(fmt, marks), {<<"file_metadata", "strip">>})

ApplyImpl(doc, req, plan, present, tools) ==
    IF req.policy = "evidence_preservation" THEN Refuses(doc.marks)
    ELSE CASE Kind(doc) = "text" -> Applied(doc.marks \ {"layer_a_body"}, {<<"layer_a_body", "sanitize">>})
           [] Kind(doc) = "image" -> ApplyImage(doc.fmt, doc.marks, plan, tools)
           [] Kind(doc) = "av" -> ApplyAv(doc.fmt, doc.marks)
           [] Kind(doc) = "container" ->
                IF Sniffed(doc) = "pdf" THEN ApplyPdf(doc.marks, req, plan, present, tools)
                ELSE IF Sniffed(doc) \in Ooxml THEN ApplyOoxml(Sniffed(doc), doc.marks, plan)
                ELSE ApplyOther(Sniffed(doc), doc.marks, plan)
           [] OTHER -> Refuses(doc.marks)

\* Mutant: what is only flagged is not recorded.
SurvivingFindingRecordsKept(plan, present) ==
    {<<st, plan[st].action>> : st \in {st \in present :
        plan[st].reason \in {"no_decision", "operator_kept"}}}

\* A finding that stays is recorded with the reason it stays for; a row the
\* policy keeps by itself is not.
SurvivingFindingRecords(plan, present) ==
    {<<st, plan[st].action>> : st \in {st \in present :
        \/ plan[st].reason \in {"no_decision", "operator_kept"}
        \/ plan[st].reason = "operator_approved" /\ plan[st].action = "keep"
        \/ plan[st].action \in {"flag", "inspect_only"}}}

ApplyActions(doc, req, tools) ==
    LET present == PresentSubtypes(doc)
        plan == PlanActions(req)
        r == ApplyImpl(doc, req, plan, present, tools)
    IN IF r.ok THEN [r EXCEPT !.records = @ \cup SurvivingFindingRecords(plan, present)] ELSE r

=============================================================================
