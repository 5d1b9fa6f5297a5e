----------------------------- MODULE MCSparks -----------------------------
EXTENDS Sparks

ThreeAndOne == <<3, 1>>
OneAndNone == <<1, 0>>
=============================================================================
