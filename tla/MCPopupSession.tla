--------------------------- MODULE MCPopupSession ---------------------------
(* Constants of PopupSession for TLC.                                      *)
EXTENDS PopupSession

MCEmojis == <<1, 2>>
MCKeys == {"letter", "hanjaKey", "enter", "one", "escape", "space", "down", "right", "period", "tab", "focus"}

(* Every order of the candidates is one of the Hanja.                      *)
ASSUME OrderTypeOK == Order \in [SUBSET (1 .. Hanja) -> [1 .. Hanja -> 1 .. Hanja]]
=============================================================================
