----------------------------- MODULE MCFavicon -----------------------------
(* Favicon with two feeds of one site.  The first one names an image and   *)
(* falls back to the other one's; the second is published elsewhere.       *)
EXTENDS Favicon, TLC

CONSTANTS a, b, site1, other, png, gif

OffersOf == (a :> {<<png, gif>>}) @@ (b :> {<<gif>>})
ExtOfUrl == (png :> "png") @@ (gif :> "gif")
SiteHostOf == (a :> site1) @@ (b :> site1)
Elsewhere == (a :> site1) @@ (b :> other)
=============================================================================
