------------------------------ MODULE ChainsClaims -----------------------------
(***************************************************************************)
(* What transport.rs says of an offset edit and the code does not do.      *)
(***************************************************************************)
EXTENDS MCChains

\* Transport::set_source_offset: "Shift one source's audio and video together
\* by adjusting the `gst_pad_set_offset`".  An edit that moves the offset by d
\* moves each pad of the source by d.
OffsetIsAShift ==
  [][\A s \in Sources : row'[s].offset # row[s].offset =>
       \A m \in Media : chains[m].pads[s] # None =>
         chains'[m].pads[s].offset - chains[m].pads[s].offset
           = layout'[s].offset - layout[s].offset]_vars
===============================================================================
