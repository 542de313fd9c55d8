------------------------------- MODULE MCGeoIp -------------------------------
(* Three addresses in a table of two slots; instance of GeoIp for TLC.     *)
EXTENDS GeoIp

CONSTANTS a, b, c

MCViews == {<<a, NoAddr>>, <<NoAddr, b>>, <<b, c>>, <<c, a>>}

=============================================================================
