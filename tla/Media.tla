------------------------------- MODULE Media -------------------------------
(***************************************************************************)
(* What the readers of pictures, sound and film see and what their         *)
(* strippers take out (service/scripts/image_meta.py, av_meta.py).         *)
(*                                                                         *)
(* A mark names a thing and the place in the file where this format keeps  *)
(* it: "ai" is an AI generator's name, "c2pa" a provenance marker, "gps" a *)
(* location, "plain" metadata that is neither.  A reader is a table from   *)
(* the marks it notices to the flag it raises; several readers end with a  *)
(* scan of the whole file for provenance markers, so for them a marker is  *)
(* noticed wherever it is, while an AI name counts only where they look.   *)
(* A stripper is the set of marks that are gone afterwards, called as the  *)
(* product calls it (strip everything).                                    *)
(***************************************************************************)
EXTENDS FiniteSets

\* Two tables as one; what both have is the first's.
f ++ g == [x \in DOMAIN f \cup DOMAIN g |-> IF x \in DOMAIN f THEN f[x] ELSE g[x]]

Rasters == {"png", "jpeg", "webp", "isobmff", "gif", "bmp", "tiff"}

Sounds == {"mp4", "mp3", "flac", "wav"}

-----------------------------------------------------------------------------
(* Pictures: readers.                                                      *)

\* A location inside a PNG's eXIf chunk is not looked for.
InspectPng ==
    [ chunk_c2pa |-> "c2pa", text_ai      |-> "ai",   exif_ai  |-> "ai",
      other_c2pa |-> "c2pa", iccp_c2pa    |-> "c2pa", tail_c2pa |-> "c2pa",
      cut_c2pa   |-> "c2pa" ]

\* AI names in a comment segment or in the JFIF header are not looked for.
InspectJpeg ==
    [ app11_c2pa |-> "c2pa", app_ai |-> "ai", com_c2pa |-> "c2pa", scan_c2pa |-> "c2pa" ]

\* No scan of the whole file: a marker in a chunk of another kind is unseen.
InspectWebp == [ chunk_c2pa |-> "c2pa", exif_ai |-> "ai" ]

\* AVIF, HEIC and MP4: an XMP box counts as AI metadata whatever it says.
InspectIsobmff ==
    [ box_c2pa  |-> "c2pa", box_xmp  |-> "ai", uuid_ai |-> "ai", meta_c2pa |-> "c2pa",
      meta_xmp  |-> "ai",   item_ai  |-> "ai", mdat_c2pa |-> "c2pa" ]

InspectBmp == [ trail_ai |-> "ai", trail_c2pa |-> "c2pa" ]

\* An AI name in an application extension that controls rendering is unseen.
InspectGif ==
    [ comment_ai |-> "ai", xmp_ai |-> "ai", app_c2pa |-> "c2pa", text_c2pa |-> "c2pa" ]

InspectTiff == [ tag_ai |-> "ai", keep_tag_ai |-> "ai", strip_c2pa |-> "c2pa" ]

\* The GPS directory, in a JPEG's Exif segment and in any TIFF directory.
JpegHasGps == [ app_gps |-> "gps" ]

IfdsHaveGps == [ gps |-> "gps" ]

InspectImage(fmt) ==
    CASE fmt = "png" -> InspectPng
      [] fmt = "jpeg" -> InspectJpeg ++ JpegHasGps
      [] fmt = "webp" -> InspectWebp
      [] fmt = "isobmff" -> InspectIsobmff
      [] fmt = "bmp" -> InspectBmp
      [] fmt = "gif" -> InspectGif
      [] fmt = "tiff" -> InspectTiff ++ IfdsHaveGps
      [] OTHER -> <<>>

-----------------------------------------------------------------------------
(* Pictures: strippers.                                                    *)

\* Everything behind the last chunk goes; a chunk the file breaks off in is
\* copied as it is, and so are the chunks the pixels need.
StripPng == {"chunk_c2pa", "text_ai", "text_plain", "exif_ai", "exif_gps", "other_c2pa", "tail_c2pa"}

\* From the scan on, everything is copied.
StripJpeg == {"app11_c2pa", "app_ai", "app_gps", "app_plain", "com_ai", "com_c2pa", "app0_ai"}

StripWebp == {"chunk_c2pa", "exif_ai", "exif_plain"}

\* Items are described in one box and stored in another: neither is touched.
StripIsobmff == {"box_c2pa", "box_xmp", "uuid_ai", "uuid_plain", "meta_c2pa", "meta_xmp"}

StripBmp == {"trail_ai", "trail_c2pa", "trail_plain"}

StripGif == {"comment_ai", "comment_plain", "xmp_ai", "app_c2pa", "control_ai"}

\* Directories are patched in place, dropped values zeroed; a tag the pixels
\* need stays even with a marker in it.
StripTiff == {"tag_ai", "tag_plain", "gps"}

\* The formats whose stripper raises: a WebP with a damaged chunk list, a
\* file without a single box, a TIFF without a directory.
StripRaises(fmt, marks) == "malformed" \in marks /\ fmt \in {"webp", "isobmff", "tiff"}

ImageStripper(fmt) ==
    CASE fmt = "png" -> StripPng
      [] fmt = "jpeg" -> StripJpeg
      [] fmt = "webp" -> StripWebp
      [] fmt = "isobmff" -> StripIsobmff
      [] fmt = "bmp" -> StripBmp
      [] fmt = "gif" -> StripGif
      [] fmt = "tiff" -> StripTiff
      [] OTHER -> {}

\* exiftool's own pass over the stripped file deletes the Exif block kept as
\* an item, where the stripper does not reach.
ExiftoolAll == {"item_exif"}

\* clean_image: strip, then the optional pass of exiftool.
CleanImage(fmt, marks, exiftool) ==
    marks \ (ImageStripper(fmt) \cup (IF exiftool = "ok" THEN ExiftoolAll ELSE {}))

-----------------------------------------------------------------------------
(* Sound and film.                                                         *)

InspectMp4 == InspectIsobmff ++ [ udta_ai |-> "ai", udta_c2pa |-> "c2pa" ]

InspectId3v2 == [ id3_ai |-> "ai", id3_c2pa |-> "c2pa" ]

\* Only the standard carrier of a manifest is looked for.
InspectFlac == [ geob_c2pa |-> "c2pa" ]

InspectWav == [ info_ai |-> "ai", info_c2pa |-> "c2pa" ] ++ InspectId3v2

InspectAv(fmt) ==
    CASE fmt = "mp4" -> InspectMp4
      [] fmt = "mp3" -> InspectId3v2
      [] fmt = "flac" -> InspectFlac
      [] fmt = "wav" -> InspectWav
      [] OTHER -> <<>>

\* The user data of the movie is dropped by rebuilding the file from its
\* whole boxes: what strip_isobmff kept behind the last of them is lost.
StripMoovUdta == {"udta_ai", "udta_c2pa", "udta_plain", "cut_media"}

StripMp4 == StripIsobmff \cup StripMoovUdta

\* A tag that does not parse is left alone.
StripId3v2 == {"id3_ai", "id3_c2pa", "id3_plain"}

StripFlac == {"geob_c2pa", "id3_plain"}

StripWav == {"info_ai", "info_c2pa"} \cup StripId3v2

CleanAv(fmt, marks) ==
    marks \ (CASE fmt = "mp4" -> StripMp4
               [] fmt = "mp3" -> StripId3v2
               [] fmt = "flac" -> StripFlac
               [] fmt = "wav" -> StripWav
               [] OTHER -> {})

=============================================================================
