-------------------------- MODULE MCWidgetManager --------------------------
(* WidgetManager on a small instance: a filter lets all through, or nothing. *)
EXTENDS WidgetManager

CONSTANT content

MCInputs  == {content}
MCFilters == SUBSET MCInputs
============================================================================
