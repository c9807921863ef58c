--------------------------- MODULE MCTicketOutbox ----------------------------
EXTENDS TicketOutbox
=============================================================================
