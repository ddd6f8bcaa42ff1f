---------------------------- MODULE MCAllowMaps ----------------------------
(* Two IPv4 ranges, one inside the other, one that holds the canary, and   *)
(* an IPv6 range; one directive answers either of the IPv4 ranges.         *)
EXTENDS AllowMaps, TLC

CONSTANTS wide, narrow, six, probed, a, b, c, s, resolve, derp

MCCovers == (wide :> {a, b}) @@ (narrow :> {a}) @@ (six :> {s}) @@ (probed :> {c})
MCVersion == (wide :> 4) @@ (narrow :> 4) @@ (six :> 6) @@ (probed :> 4)
MCAnswers == (resolve :> {{wide}, {narrow}}) @@ (derp :> {{six}, {six, probed}})
MCStatics == {{}, {wide}}
=============================================================================
