----------------------------- MODULE MCStoreOrders -----------------------------
\* Two orders of the shop, two requests at the same time.
EXTENDS StoreOrders
===============================================================================
