---------------------------- MODULE MCNotionSync ----------------------------
EXTENDS NotionSync
=============================================================================
