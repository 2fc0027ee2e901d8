------------------------------ MODULE Formats ------------------------------
(***************************************************************************)
(* What the engine's readers see in a document and what its cleaners take  *)
(* out of it (service/scripts/container_meta.py, findings.py,              *)
(* format_dispatch.py); pictures, sound and film are in Media.             *)
(*                                                                         *)
(* A document is [name, fmt, marks]: what its file name says it is, what   *)
(* its bytes are, and the set of things it carries that a reader or a      *)
(* cleaner tells apart.  A mark stands for "at least    *)
(* one of these, wherever this format puts them": where two places of the  *)
(* same thing are treated differently they are two marks.  A reader is a   *)
(* table from the marks it recognises to the finding it prints; a mark     *)
(* outside the table is invisible to that reader.  A cleaner is the set of *)
(* marks that are gone afterwards.                                         *)
(***************************************************************************)
EXTENDS Media

Ooxml == {"docx", "xlsx", "pptx"}

\* The marks a table's domain names in a set of marks, as findings.
See(table, marks) == {table[m] : m \in marks \cap DOMAIN table}

-----------------------------------------------------------------------------
(* Readers: mark -> the kind of finding, named as the string begins.        *)

\* The part scan every OOXML reader starts with.  "ai_title" is a vendor
\* name in a document property no cleaner empties (the title), "media_broken"
\* a marked picture its stripper cannot parse, "identity"
\* and "keywords" are authoring properties inside and outside the short list
\* of privacy_only, "pii_property" one outside it that holds an address.
InspectOoxmlZip ==
    [ media_c2pa   |-> "c2pa",           media_ai     |-> "ai",
      media_broken |-> "c2pa",
      ai_title     |-> "ai",             custom_ai    |-> "ai",
      identity     |-> "authoring_props", keywords    |-> "authoring_props",
      pii_property |-> "authoring_props" ]

\* The Layer A scan of OOXML bodies: every part is scanned, and a hit says
\* whether its part is one the cleaner treats as body.
InspectOoxmlLayerA ==
    [ layer_a_body |-> "layer_a", layer_a_aside |-> "layer_a_aside" ]

\* word/: comment parts, revisions, hidden text, embeddings.  A comment's
\* anchor in the text is not reported, nor is a person list without comments.
InspectDocx ==
    InspectOoxmlZip ++ InspectOoxmlLayerA ++
    [ comments      |-> "docx_comments",        insertion    |-> "docx_tracked_changes",
      deletion      |-> "docx_tracked_changes", row_deletion |-> "docx_tracked_changes",
      format_change |-> "docx_tracked_changes", hidden_text  |-> "docx_hidden_text",
      embedding     |-> "docx_embeddings",      cell_revision |-> "docx_cell_revisions" ]

InspectXlsx ==
    InspectOoxmlZip ++ InspectOoxmlLayerA ++
    [ comments      |-> "xlsx_comments",       threaded_comments |-> "xlsx_threaded_comments",
      external_links |-> "xlsx_external_links", hidden_sheet     |-> "xlsx_hidden_sheets",
      hidden_rows   |-> "xlsx_hidden_rows_cols", hidden_name     |-> "xlsx_hidden_names" ]

InspectPptx ==
    InspectOoxmlZip ++ InspectOoxmlLayerA ++
    [ notes        |-> "pptx_notes", comments |-> "pptx_comments",
      hidden_slide |-> "pptx_hidden_slides" ]

\* Every member is searched for provenance markers; neither the author of an
\* OpenDocument file nor its annotations are looked for.
InspectOdt ==
    [ ai_generator |-> "ai", ai_creator |-> "ai", ai_body |-> "ai", ai_part |-> "ai",
      media_c2pa   |-> "c2pa", layer_a_body |-> "layer_a" ]

\* Encrypted members are skipped by the reader and by the cleaner.
InspectEpub ==
    [ ai_opf_meta |-> "ai", ai_opf_creator |-> "ai", ai_title |-> "ai", ai_html |-> "ai",
      ai_part |-> "ai", media_c2pa |-> "c2pa", layer_a_body |-> "layer_a" ]

InspectSvg ==
    [ svg_metadata |-> "ai", svg_comment_ai |-> "ai", uri_c2pa |-> "c2pa", ai_attribute |-> "ai" ]

InspectHtml ==
    [ meta_ai |-> "ai", json_ld_ai |-> "ai", data_ai |-> "ai", uri_c2pa |-> "c2pa",
      cms_generator |-> "cms_generator", layer_a_body |-> "layer_a" ]

InspectMarkdown ==
    [ frontmatter_ai |-> "ai", uri_c2pa |-> "c2pa", layer_a_body |-> "layer_a" ]

\* Tokens of the PDF's dictionaries, the /Info dictionary, and the JPEG
\* streams inside it.  An XMP packet is noticed but is no finding with a
\* subtype; it counts only when it names an AI source.
\* "old_" marks are values an incremental edit replaced: still in the bytes.
\* The producer, the name of a tool, is no finding.
InspectPdf ==
    [ author    |-> "authoring_props", info       |-> "authoring_props",
      xmp       |-> "xmp_packet", xmp_ai  |-> "ai",
      old_info  |-> "authoring_props", old_xmp    |-> "xmp_packet",
      old_xmp_ai |-> "ai",             js         |-> "pdf_js",
      acroform  |-> "pdf_acroform",    attachment |-> "pdf_embeddedfiles",
      annots    |-> "pdf_annots",      revisions  |-> "pdf_incremental_updates",
      signature |-> "digital_signature",
      image_meta |-> "embedded_image_metadata", image_gps |-> "embedded_image_metadata",
      image_c2pa |-> "c2pa", image_meta_indirect |-> "embedded_image_metadata" ]

\* Macros and signatures of a zip package, by member name.
OfficeRisks == [ macro |-> "macros_vba", signature |-> "digital_signature" ]

\* Invisible characters in a plain text.
InspectText == [ layer_a_body |-> "layer_a" ]

Reader(fmt) ==
    CASE fmt = "docx" -> InspectDocx ++ OfficeRisks
      [] fmt = "xlsx" -> InspectXlsx ++ OfficeRisks
      [] fmt = "pptx" -> InspectPptx ++ OfficeRisks
      [] fmt = "odt" -> InspectOdt
      [] fmt = "epub" -> InspectEpub
      [] fmt = "svg" -> InspectSvg
      [] fmt = "html" -> InspectHtml
      [] fmt = "markdown" -> InspectMarkdown
      [] fmt = "pdf" -> InspectPdf
      [] fmt = "text" -> InspectText
      [] fmt \in Rasters -> InspectImage(fmt)
      [] fmt \in Sounds -> InspectAv(fmt)
      [] OTHER -> <<>>

-----------------------------------------------------------------------------
(* From a finding to the row of the policy that decides about it.  Both    *)
(* provenance findings ride on the row c2pa.                               *)

ImageSubtypes == [c2pa |-> "c2pa", ai |-> "c2pa", gps |-> "jpeg_gps"]

TextSubtypes == [layer_a |-> "layer_a_body", layer_a_aside |-> "layer_a_non_body"]

RefuseSubtypes == [macros_vba |-> "macros_vba", digital_signature |-> "cms_or_xml_dsig"]

PdfSubtypes ==
    [ pdf_js    |-> "pdf_js_actions", pdf_acroform      |-> "pdf_acroform",
      pdf_annots |-> "pdf_annots",    pdf_embeddedfiles |-> "pdf_attachments",
      pdf_incremental_updates |-> "pdf_incremental" ]

OfficeSubtypes ==
    [ authoring_props      |-> "authoring_props", docx_comments    |-> "comments_and_notes",
      docx_tracked_changes |-> "tracked_changes", docx_hidden_text |-> "hidden_text",
      docx_embeddings      |-> "embeddings_ole" ]

SheetAndSlideSubtypes ==
    [ xlsx_hidden_sheets  |-> "hidden_structure", xlsx_hidden_rows_cols  |-> "hidden_structure",
      xlsx_hidden_names   |-> "hidden_structure", xlsx_comments          |-> "comments_and_notes",
      xlsx_external_links |-> "external_links",   xlsx_threaded_comments |-> "comments_and_notes",
      pptx_notes          |-> "comments_and_notes", pptx_comments        |-> "comments_and_notes",
      pptx_hidden_slides  |-> "hidden_structure" ]

SubtypeOf ==
    ImageSubtypes ++ TextSubtypes ++ RefuseSubtypes ++ PdfSubtypes ++ OfficeSubtypes
      ++ SheetAndSlideSubtypes

-----------------------------------------------------------------------------
(* Which reader, which cleaner.                                            *)

Containers == Ooxml \cup {"docm", "pdf", "odt", "epub", "svg", "html", "markdown"}

\* The kind of a file: by its name when the name is known ("bin" is not).
Kind(doc) ==
    LET told == IF doc.name = "bin" THEN doc.fmt ELSE doc.name
    IN CASE told \in Rasters -> "image"
         [] told \in Sounds -> "av"
         [] told = "text" -> "text"
         [] told \in Containers \cup {"cfbf", "encrypted_office"} -> "container"
         [] OTHER -> "unknown"

\* The format a container is read as.  The name wins over the bytes, but an
\* encrypted package is recognised under the names of the big formats.
DetectContainerFormat(doc) ==
    IF doc.fmt = "encrypted_office" /\ doc.name \in {"pdf", "bin"} \cup Ooxml THEN "encrypted_office"
    ELSE IF doc.name = "bin" THEN doc.fmt
    ELSE doc.name

\* The format a container is cleaned as: the engine asks again, with the
\* bytes and a name that says nothing.  Neither HTML nor Markdown has a magic
\* number, and a macro-enabled package is that of its family.
Sniffed(doc) == IF doc.fmt \in {"html", "markdown", "text"} THEN "unknown" ELSE doc.fmt

\* The format whose reader runs over the bytes: pictures, sound and film are
\* recognised by their bytes whatever their name.
ReadAs(doc) ==
    IF Kind(doc) = "container"
      THEN IF DetectContainerFormat(doc) = "docm" THEN "docx" ELSE DetectContainerFormat(doc)
    ELSE IF Kind(doc) = "text" THEN "text"
    ELSE IF doc.fmt \in (IF Kind(doc) = "image" THEN Rasters ELSE Sounds) THEN doc.fmt
    ELSE "unknown"

\* A text's name over the magic number of something else.
LooksBinary(doc) == Kind(doc) = "text" /\ doc.fmt \notin {"text", "html", "markdown", "svg"}

\* A reader finds nothing in bytes of another format.  The name of a macro
\* format is a finding, and a signed PDF is reported as incremental besides.
Findings(doc) ==
    (IF ReadAs(doc) = doc.fmt THEN See(Reader(doc.fmt), doc.marks) ELSE {})
      \cup (IF doc.name = "docm" THEN {"macros_vba"} ELSE {})
      \cup (IF ReadAs(doc) = "pdf" /\ doc.fmt = "pdf" /\ "signature" \in doc.marks
               THEN {"pdf_incremental_updates"} ELSE {})

\* The rows of the policy a document's findings touch.  A report on sound or
\* film is turned into no finding at all.
PresentSubtypes(doc) == IF Kind(doc) = "av" THEN {} ELSE See(SubtypeOf, Findings(doc))

\* The refuse list of the cleaners.  A PDF and the three big formats have a
\* cleaner of their own that the product calls without asking here.
ContainerCleanRefusal(fmt, marks) ==
    \/ fmt \in {"docm", "cfbf", "encrypted_office"}
    \/ fmt = "pdf" /\ {"encrypted", "signature"} \cap marks # {}
    \/ fmt \in Ooxml /\ {"macro", "signature"} \cap marks # {}

-----------------------------------------------------------------------------
(* Cleaners.  k says what the plan asked of an OOXML clean: k.text (Layer  *)
(* A), k.listed (only the short list of properties), k.custom, k.accept,   *)
(* k.embeddings, k.comments (notes too), k.external.                       *)

\* Every embedded picture is stripped, whatever the policy says of c2pa.
ScrubOoxmlZip(k) ==
    {"media_c2pa", "media_ai", "identity", "pii_property"}
      \cup (IF k.listed THEN {} ELSE {"keywords"})
      \cup (IF k.custom THEN {"custom_xml", "custom_ai"} ELSE {})
      \cup (IF k.text THEN {"layer_a_body"} ELSE {})

\* Accept All resolves the revisions of every part it can parse and takes the
\* anchors of the comments along, whether or not the comments themselves go.
DocxAcceptAll == {"insertion", "deletion", "row_deletion", "format_change", "comment_anchor"}

\* Mutant: the list of persons is looked at before the comments are gone.
DocxLegalCleanPeopleFirst(marks, k) ==
    (IF k.comments THEN {"comments"} \cup (IF "comments" \in marks THEN {} ELSE {"people"}) ELSE {})
      \cup (IF k.embeddings THEN {"embedding"} ELSE {})
      \cup (IF k.accept /\ "malformed_xml" \notin marks THEN DocxAcceptAll ELSE {})

DocxLegalClean(marks, k) ==
    (IF k.comments THEN {"comments", "people"} ELSE {})
      \cup (IF k.embeddings THEN {"embedding"} ELSE {})
      \cup (IF k.accept /\ "malformed_xml" \notin marks THEN DocxAcceptAll ELSE {})

\* The workbook's list of external references goes in every clean, the
\* parts it points at only when asked.
XlsxLegalClean(marks, k) ==
    {"external_refs"}
      \cup (IF k.comments THEN {"comments", "threaded_comments", "people", "comment_anchor"} ELSE {})
      \cup (IF k.external THEN {"external_links"} ELSE {})

PptxLegalClean(marks, k) == IF k.comments THEN {"notes", "comments"} ELSE {}

\* OpenDocument: the generator and an author with a vendor's name; a part
\* with markers is dropped unless it is the body or the package's plumbing.
CleanOdt == {"ai_generator", "ai_creator", "ai_part", "layer_a_body"}

\* EPUB: the package document, the pages' metadata, the pictures, and parts
\* that are neither content nor structure.
ScrubEpubOpf == {"ai_opf_meta", "ai_opf_creator"}

CleanHtml == {"meta_ai", "json_ld_ai", "data_ai", "uri_c2pa"}

CleanEpub == ScrubEpubOpf \cup {"ai_html", "ai_part", "media_c2pa", "layer_a_body"}

\* The attributes of the root are looked at only when nothing else was found.
CleanSvg(marks) ==
    LET found == {"svg_metadata", "svg_comment_ai", "uri_c2pa"} \cap marks
    IN IF found = {} THEN {"ai_attribute"} ELSE found

CleanMarkdown == {"frontmatter_ai", "uri_c2pa"}

-----------------------------------------------------------------------------
(* PDF.  tools.exiftool is "absent", "fails" or "ok"; tools.qpdf is        *)
(* "absent", "fails" (it gives the file up as damaged), "flaky" (the first *)
(* pass works, the later ones run out of time) or "ok".                    *)

Rewrites(qpdf, pass) == qpdf = "ok" \/ (qpdf = "flaky" /\ pass = 1)

\* A rebuild drops what no object refers to any more, and writes the length
\* of every stream where it is used.
StructuralRewrite(marks) ==
    (marks \ {"old_info", "old_producer", "old_xmp", "old_xmp_ai", "revisions",
              "image_meta_indirect", "stale_xref"})
      \cup (IF "image_meta_indirect" \in marks THEN {"image_meta"} ELSE {})

\* exiftool edits a PDF by appending: the value goes, its bytes stay.
ExiftoolEdit(marks, gone) ==
    LET old == [author |-> "old_info", info |-> "old_info", xmp |-> "old_xmp",
                xmp_ai |-> "old_xmp_ai", producer |-> "old_producer"]
    IN IF marks \cap gone = {} THEN marks
       ELSE (marks \ gone) \cup {old[m] : m \in marks \cap gone} \cup {"revisions"}

\* Metadata segments of the pictures inside, where their length is known.
PdfImageMetadata == {"image_meta", "image_gps", "image_c2pa"}

\* clean_pdf: exiftool if there is one, whatever it answers, else the XMP
\* packets by hand; then a rebuild, the /Info dictionary, and the pictures.
CleanPdf(marks, tools) ==
    LET has == tools.exiftool # "absent"
        edited == CASE tools.exiftool = "ok" -> ExiftoolEdit(marks, {"author", "info", "producer", "xmp", "xmp_ai"})
                    [] tools.exiftool = "fails" -> marks
                    [] OTHER -> marks \ {"xmp", "xmp_ai"}
        cut == ~has /\ edited # marks
        rewritten == (has \/ cut) /\ Rewrites(tools.qpdf, 1)
        rebuilt == IF rewritten THEN StructuralRewrite(edited)
                   ELSE edited \cup (IF cut THEN {"stale_xref"} ELSE {})
        cleared == IF has /\ rewritten /\ Rewrites(tools.qpdf, 2)
                     THEN rebuilt \ {"author", "info", "producer"} ELSE rebuilt
        stripped == cleared \cap PdfImageMetadata
        done == IF stripped = {} THEN cleared
                ELSE IF Rewrites(tools.qpdf, 3) THEN StructuralRewrite(cleared \ stripped)
                ELSE (cleared \ stripped) \cup {"stale_xref"}
    IN [ marks |-> done,
         mode |-> IF has THEN "exiftool" ELSE IF cut THEN "stdlib-xmp" ELSE "copy",
         structural_rewrite |-> rewritten,
         deep_images |-> IF stripped # {} THEN "strip"
                         ELSE IF "image_meta_indirect" \in done THEN "flag" ELSE "none" ]

\* Only the location is taken out of the pictures, and only then is the file
\* rebuilt.
StripPdfImageGps(marks, qpdf) ==
    IF "image_gps" \notin marks THEN marks
    ELSE IF Rewrites(qpdf, 1) THEN StructuralRewrite(marks \ {"image_gps"})
         ELSE (marks \ {"image_gps"}) \cup {"stale_xref"}

-----------------------------------------------------------------------------
(* The package's list of parts, for the formats that are packages.          *)

\* The part a mark lives in, as the fragment of its name that the gate may
\* know.  Marks inside parts that stay are not listed.
DropTag ==
    [ comments |-> "comment", threaded_comments |-> "comment", people |-> "people",
      embedding |-> "embedding", custom_xml |-> "customxml", custom_ai |-> "docprops/custom.xml",
      external_links |-> "externallink", notes |-> "notesslide", ai_part |-> "other" ]

\* The fragments of the names of the parts that are gone.
DroppedParts(before, after) == See(DropTag, before \ after)

=============================================================================
