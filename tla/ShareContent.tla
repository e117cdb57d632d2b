---------------------------- MODULE ShareContent ----------------------------
(***************************************************************************)
(* What a visitor of a share gets to know of a photo: the metadata of the  *)
(* file behind the URL or in the download, and the rows the page shows of  *)
(* the columns that processing filled from the same metadata.  Only the    *)
(* conversions are here; which file an answer names is StripCache's.       *)
(***************************************************************************)
EXTENDS StripCache

CONSTANTS All, GpsOnly   \* the two variants

ASSUME ContentAssumption == Variants = {All, GpsOnly} /\ All # GpsOnly

-----------------------------------------------------------------------------
(* The original as it was uploaded, and what became of it.                 *)

Tag == {"gps", "date", "camera"}
JpegOrHeic == {"jpg", "jpeg", "heic"}

\* tags: what the EXIF data holds.  jpeg: piexifjs can read the bytes (never those of a
\* HEIC file).  parses: ExifReader can.  done: the photo is processed.  korea: it was
\* taken in the box the page's addresses are for.
Original ==
    {o \in [ext : JpegOrHeic \cup {"png", "webp"}, tags : SUBSET Tag, jpeg : BOOLEAN,
            parses : BOOLEAN, done : BOOLEAN, korea : BOOLEAN] : o.ext = "heic" => ~o.jpeg}

\* extractExif: the columns the owner's lists, the map and the share page are made of;
\* an error leaves them null.
ExtractExif(o) == IF o.done /\ o.parses THEN o.tags \cap {"gps", "date"} ELSE {}

\* Slip: a copy of piexif's that lost nothing.
StripNothing(o) == o.tags

\* stripGpsWithPiexif: what cannot be read is given back as it is.
StripGpsWithPiexif(o) == IF o.jpeg THEN o.tags \ {"gps"} ELSE o.tags

\* stripExif: sharp writes no metadata at all.
StripExif(o, variant) ==
    IF variant = GpsOnly /\ o.ext \in JpegOrHeic THEN StripGpsWithPiexif(o) ELSE {}

\* resolveShareImageKey for the page, getShareImageBuffer for the download: without a
\* variant the page prefers the large thumbnail, which sharp made.
FileOf(o, variant, download) ==
    IF variant # NoStrip THEN StripExif(o, variant)
    ELSE IF o.done /\ ~download THEN {} ELSE o.tags

\* toPublicPhotoDto: the policy decides on the location only.
ToPublicPhotoDto(o, variant) ==
    ExtractExif(o) \ (IF variant = NoStrip THEN {} ELSE {"gps"})

\* PhotoView, and PhotoCell of MomentView, which has no row for the date.
PhotoView(o, variant) ==
    ToPublicPhotoDto(o, variant) \ (IF o.korea THEN {} ELSE {"gps"})
PhotoCell(o, variant) == PhotoView(o, variant) \ {"date"}

\* What an answer tells of a photo: a download its file, a page its file and its rows.
Told(o, variant, download, alone) ==
    FileOf(o, variant, download) \cup
    (IF download THEN {} ELSE IF alone THEN PhotoView(o, variant) ELSE PhotoCell(o, variant))

-----------------------------------------------------------------------------
(* Properties.                                                             *)

\* The photos of the answers that are ready to go out, as originals of any kind.
Answers == {v \in Visits : visit[v].pc \in {"page", "download"} /\ AllReady(v)}
Alone(v) == \E p \in Photos : {q \in Photos : part[v][q].pc = "ready"} = {p}
AnyOriginalOf(v, P(_, _)) ==
    \A o \in Original : P(o, Told(o, visit[v].variant, visit[v].pc = "download", Alone(v)))

\* A share whose policy takes the location away tells it in no way but one: through a JPEG
\* or HEIC file that piexif cannot read.  The policy that takes all away leaves nothing in
\* the file, and that for the location only leaves the rest in a JPEG file
\* (photos.service.ts 296-307).
LocationIsWithheld ==
    \A v \in Answers : visit[v].variant # NoStrip =>
        AnyOriginalOf(v, LAMBDA o, told :
            /\ "gps" \in told => visit[v].variant = GpsOnly /\ o.ext \in JpegOrHeic /\ ~o.jpeg
            /\ visit[v].variant = All => told \subseteq {"date"}
            /\ visit[v].variant = GpsOnly /\ o.ext \in JpegOrHeic /\ o.jpeg
                  => o.tags \ {"gps"} \subseteq told)

\* photos.service.ts:330: where piexif fails, sharp takes the metadata away.
LocationIsHidden ==
    \A v \in Answers : visit[v].variant # NoStrip =>
        AnyOriginalOf(v, LAMBDA o, told : "gps" \notin told)

\* format.ts:55: the page of a share that strips all says that all metadata are gone.
AllIsHidden ==
    \A v \in Answers : visit[v].variant = All =>
        AnyOriginalOf(v, LAMBDA o, told : told = {})
=============================================================================
