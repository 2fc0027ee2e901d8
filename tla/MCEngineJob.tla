----------------------------- MODULE MCEngineJob -----------------------------
(***************************************************************************)
(* TLC instances of EngineJob: every format with its marks alone and in    *)
(* pairs, under every policy and the decisions and tools that matter to it.*)
(***************************************************************************)
EXTENDS EngineJob

\* Marks only a cleaner or the gate tells apart.
SilentMarks(fmt) ==
  CASE fmt = "docx" -> {"comment_anchor", "people", "custom_xml", "malformed_xml"}
    [] fmt = "xlsx" -> {"external_refs", "people", "comment_anchor", "custom_xml"}
    [] fmt = "pptx" -> {"custom_xml"}
    [] fmt = "pdf" -> {"producer", "encrypted"}
    [] fmt = "mp4" -> {"cut_media", "malformed"}
    [] fmt \in {"webp", "isobmff", "tiff"} -> {"malformed"}
    [] fmt = "epub" -> {}
    [] OTHER -> {}

Known == Ooxml \cup {"pdf", "odt", "epub", "svg", "html", "markdown", "text"} \cup Rasters \cup Sounds

Marks(fmt) == DOMAIN Reader(fmt) \cup SilentMarks(fmt)

\* Nothing, one mark, or two.
Single(fmt) == {{}} \cup {{m} : m \in Marks(fmt)}

Pairs(fmt) == {{}} \cup {{m, n} : m, n \in Marks(fmt)}

\* Files that are what their name says, macro packages, files without a
\* known name, and files with another's name.
Named ==
  UNION {[name : {fmt}, fmt : {fmt}, marks : Pairs(fmt)] : fmt \in Known}

Misnamed ==
  [name : {"docm", "bin", "pdf"}, fmt : {"docx"}, marks : Single("docx")]
    \cup [name : {"bin", "docx", "png", "text"}, fmt : {"pdf"}, marks : Single("pdf")]
    \cup [name : {"docx", "pdf"}, fmt : {"encrypted_office"}, marks : {{}}]

\* Each row a decision can be made about, if it was found.
Decisions(doc, policy) ==
  LET open == {st \in PresentSubtypes(doc) : DefaultPolicy(policy, st) = "approve"}
  IN {[approve |-> a, keep |-> b] : a \in SUBSET open, b \in {{}} \cup {open}} 

RequestsFor(doc) ==
  UNION {[policy : {p},
          decisions : {d \in Decisions(doc, p) : d.approve \cap d.keep = {}},
          attested : IF "signature" \in doc.marks THEN BOOLEAN ELSE {FALSE}] : p \in PolicyIds}

\* The tools' answers, where the document's cleaner asks them.
Tool(e, q) == [exiftool |-> e, qpdf |-> q]

ToolsFor(doc) ==
  CASE "encrypted" \in doc.marks -> [exiftool : {"absent", "fails"}, qpdf : {"absent", "ok"}]
    [] doc.fmt = "pdf" /\ Cardinality(doc.marks) < 2 ->
         [exiftool : {"absent", "fails", "ok"}, qpdf : {"absent", "fails", "flaky", "ok"}]
    [] doc.fmt = "pdf" -> {Tool("ok", "ok"), Tool("ok", "flaky"), Tool("absent", "ok")}
    [] doc.fmt \in {"jpeg", "isobmff"} -> [exiftool : {"absent", "fails", "ok"}, qpdf : {"ok"}]
    [] OTHER -> {Tool("ok", "ok")}

Plain == [kind |-> "sanitize", docker |-> FALSE, layerb |-> FALSE, enabled |-> FALSE,
          backend |-> FALSE, faults |-> 0]

\* Faults do not look at the document: a few documents are enough for them.
Faulted ==
  [name : {"docx"}, fmt : {"docx"}, marks : {{"comments", "layer_a_body"}, {"macro"}}]
    \cup [name : {"pdf"}, fmt : {"pdf"}, marks : {{"author"}}]

\* Texts with a rewrite, and one document of another kind.
Rewritten ==
  [name : {"text"}, fmt : {"text"}, marks : Single("text")]
    \cup [name : {"docx"}, fmt : {"docx"}, marks : {{"layer_a_body"}}]

DeploymentsFor(doc) ==
  {Plain}
    \cup {[Plain EXCEPT !.docker = b, !.faults = 2] : b \in IF doc \in Faulted THEN BOOLEAN ELSE {}}
    \cup IF doc \in Rewritten
           THEN [kind : {"inspect", "sanitize"}, docker : BOOLEAN, layerb : {TRUE}, enabled : BOOLEAN,
                 backend : BOOLEAN, faults : {2}]
           ELSE {}

AllDocuments == Named \cup Misnamed

=============================================================================
