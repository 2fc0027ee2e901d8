-------------------------------- MODULE Verify --------------------------------
(***************************************************************************)
(* The gate between a cleaned file and its bundle                          *)
(* (service/scripts/verify.py): the derivative is read again, under the    *)
(* name of the original, and compared with what the plan promised.  The    *)
(* counts of pages, sheets and slides and the size of a picture are left   *)
(* out: no cleaner of Formats or Media touches what they count.            *)
(***************************************************************************)
EXTENDS Policies

\* A broken signature is consented to, not removed.
Targeted(req) ==
    {st \in Subtypes \ {"cms_or_xml_dsig"} : PlanRow(req, st).action \in Mutating}

\* Mutant: only what the plan strips outright is looked for again.
ReinspectTargetedGoneStripsOnly(req, after) ==
    {st \in Targeted(req) : PlanRow(req, st).action = "strip"} \cap PresentSubtypes(after) = {}

ReinspectTargetedGone(req, after) == Targeted(req) \cap PresentSubtypes(after) = {}

NoNewIdentityFindings(doc, after) ==
    (PresentSubtypes(after) \ PresentSubtypes(doc)) \cap {"authoring_props", "c2pa"} = {}

\* No producer but qpdf's, and the original's is not in the bytes either.
PdfProducerAllowlisted(doc, req, after) ==
    after.fmt = "pdf" /\ "authoring_props" \in Targeted(req) =>
        /\ {"producer", "old_producer"} \cap after.marks = {}

\* qpdf's verdict on a PDF, where there is a qpdf that answers; a container
\* that is no PDF has to be a zip file.
FormatValid(after, tools) ==
    IF after.fmt = "pdf" THEN tools.qpdf # "fails"
    ELSE /\ Kind(after) = "container" => after.fmt \in Ooxml \cup {"odt", "epub"}
         /\ Kind(after) = "image" => after.fmt \in Rasters

StrictPolicies == {"privacy_only", "evidence_preservation"}

AllowedDropTags ==
    {"comment", "customxml", "docprops/custom.xml", "embedding", "externallink", "notesslide", "people"}

PartInventory(doc, req, after) ==
    Kind(doc) = "container" =>
        DroppedParts(doc.marks, after.marks)
            \subseteq (IF req.policy \in StrictPolicies THEN {} ELSE AllowedDropTags)

\* The deleted text itself is looked for, not the markup of the deletion.
AcceptAllDeletedTextAbsent(doc, req, after) ==
    (ReadAs(doc) = "docx" /\ PlanRow(req, "tracked_changes").action = "accept_all") =>
        {"deletion", "row_deletion"} \cap after.marks = {}

\* What is visible of a plain text, under the policy that keeps the body.
PrivacyBodyUnchanged(doc, req, rewritten) ==
    ~(req.policy = "privacy_only" /\ Kind(doc) = "text" /\ rewritten)

VerifyDerivative(doc, req, tools, marks, rewritten) ==
    LET after == [doc EXCEPT !.marks = marks]
    IN /\ ReinspectTargetedGone(req, after)
       /\ NoNewIdentityFindings(doc, after)
       /\ PdfProducerAllowlisted(doc, req, after)
       /\ FormatValid(after, tools)
       /\ PartInventory(doc, req, after)
       /\ AcceptAllDeletedTextAbsent(doc, req, after)
       /\ PrivacyBodyUnchanged(doc, req, rewritten)

=============================================================================
