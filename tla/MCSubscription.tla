---- MODULE MCSubscription ----
\* Subscription with one panel call at a time beside the sweep.
EXTENDS Subscription
====
