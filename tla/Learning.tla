------------------------------ MODULE Learning ------------------------------
(***************************************************************************)
(* Pythia's featurewise learning engine                                    *)
(* (src/src/learning_engine_featurewise.cc, feature_knowledge.cc).  Each   *)
(* feature keeps Q-values of its own; a state selects one tile of each of  *)
(* its tilings.  The engine pools the values of the features, chooses an   *)
(* action, notes which features would have chosen the same, and learns by  *)
(* SARSA from the decisions in their order.                                *)
(*                                                                         *)
(* Values are in fixed point: alpha is 1/alpha_inv, gamma is               *)
(* gamma_num/gamma_den, and a product is rounded down.  What a state is    *)
(* made of is abstract: tile_index gives the tile that its features hash   *)
(* to, and whether bandwidth and accuracy forbid the fallback is free.     *)
(*                                                                         *)
(* Operators marked "mutant" are deliberately faulty variants of the       *)
(* definition after them; no specification uses them.                      *)
(***************************************************************************)
EXTENDS Integers, Sequences, FiniteSetsExt

CONSTANTS
  Feature,                  \* the active features
  Tiling, TileOf,           \* TileOf[feature][tiling][state]
  AgentState,
  m_actions,
  alpha_inv, gamma_num, gamma_den,
  InitValue,                \* 0, or 1/(1-gamma)
  FirstWeight, gradient_inv,\* le_featurewise_feature_weights, 1/weight_gradient
  AgentReward,              \* rewards: [value, kind]
  EngineKnobs,              \* le_featurewise_*
  Pending,                  \* decisions that wait for their reward
  MaxLearn                  \* bound: calls of learn

Magnitude(n) == IF n < 0 THEN -n ELSE n
MaxReward == Max({Magnitude(r.value) : r \in AgentReward})

ASSUME LearningAssumption ==
  /\ IsFiniteSet(Feature) /\ Feature # {} /\ IsFiniteSet(Tiling)
  /\ {m_actions, alpha_inv, gamma_den, FirstWeight, gradient_inv} \subseteq Nat \ {0}
  /\ gamma_num \in 0..(gamma_den - 1)
  /\ gradient_inv > 1
  /\ IsFiniteSet(AgentReward) /\ AgentReward # {}
  /\ InitValue \in Int /\ \A r \in AgentReward : r.value \in Int
  /\ Magnitude(InitValue) * (gamma_den - gamma_num) <= MaxReward * gamma_den
  /\ \A k \in EngineKnobs : /\ k.enable_action_fallback \in BOOLEAN
                            /\ k.enable_dyn_action_fallback => k.enable_action_fallback

VARIABLES
  engine,                   \* the knobs
  qtable,                   \* by feature, tiling, tile and action
  weight,                   \* m_weight, by feature
  decisions,                \* [state, action, consensus], oldest first
  learns                    \* calls of learn

learningVars == <<engine, qtable, weight, decisions, learns>>

Action == 0..(m_actions - 1)
Tile == UNION {{TileOf[f][t][s] : s \in AgentState} : f \in Feature, t \in Tiling}

\* FeatureKnowledge::getQ at the tile of a state.
getQ(f, t, s, a) == qtable[f][t][TileOf[f][t][s]][a]

\* FeatureKnowledge::retrieveQ.
retrieveQ(f, s, a) == weight[f] * SumFunction([t \in Tiling |-> getQ(f, t, s, a)])

\* The first of the best; with the fallback only a value above 0, else action 0.
Selected(value, fallback) ==
  LET best == Max({value[a] : a \in Action}) IN
  IF fallback /\ best <= 0 THEN 0 ELSE Min({a \in Action : value[a] = best})

\* mutant: of equal values the last is taken.
LastMaxAction(f, s) ==
  LET value == [a \in Action |-> retrieveQ(f, s, a)]
      best == Max({value[a] : a \in Action}) IN
  Max({a \in Action : value[a] = best})

\* FeatureKnowledge::getMaxAction.
getMaxAction(f, s) == Selected([a \in Action |-> retrieveQ(f, s, a)], engine.enable_action_fallback)

\* LearningEngineFeaturewise::consultQ: sum pooling or max pooling.
consultQ(s, a) ==
  IF engine.pooling_type = 1 THEN SumFunction([f \in Feature |-> retrieveQ(f, s, a)])
  ELSE Max({retrieveQ(f, s, a) : f \in Feature})

\* do_fallback, for any bandwidth and accuracy.
do_fallback == IF engine.enable_dyn_action_fallback THEN BOOLEAN ELSE {engine.enable_action_fallback}

\* LearningEngineFeaturewise::getMaxAction.
MaxAction(s, fallback) == Selected([a \in Action |-> consultQ(s, a)], fallback)

\* action_selection_consensus: the features that would have chosen the same.
Consensus(s, a) == {f \in Feature : getMaxAction(f, s) = a}

\* chooseAction: a random action, for which no consensus is noted, or the best.
chooseAction(s) ==
  /\ Len(decisions) < Pending
  /\ \/ \E a \in Action : decisions' = Append(decisions, [state |-> s, action |-> a, consensus |-> {}])
     \/ \E fb \in do_fallback : LET a == MaxAction(s, fb) IN
          decisions' = Append(decisions, [state |-> s, action |-> a, consensus |-> Consensus(s, a)])
  /\ UNCHANGED <<engine, qtable, weight, learns>>

\* mutant: the old value is not taken off.
GrowingQ(q1, reward, q2) == q1 + (gamma_den * reward + gamma_num * q2) \div (gamma_den * alpha_inv)

\* One step of SARSA.
Sarsa(q1, reward, q2) ==
  q1 + (gamma_den * (reward - q1) + gamma_num * q2) \div (gamma_den * alpha_inv)

\* FeatureKnowledge::updateQ, tiling by tiling.
updateQ(f, d1, reward, d2) ==
  [t \in Tiling |-> [qtable[f][t] EXCEPT ![TileOf[f][t][d1.state]][d1.action] =
     Sarsa(@, reward, getQ(f, t, d2.state, d2.action))]]

\* adjust_feature_weights: increase_weight, decrease_weight.
Adjusted(f, consensus, kind) ==
  LET step == weight[f] \div gradient_inv IN
  IF ~engine.enable_dynamic_weight \/ f \notin consensus
     \/ (engine.disable_adjust_weight_all_features_align /\ consensus = Feature)
  THEN weight[f]
  ELSE CASE kind = "correct" -> weight[f] + step
         [] kind = "incorrect" -> weight[f] - step
         [] OTHER -> weight[f]

\* learn, from the oldest decision and the one after it.
learn(r) ==
  LET d1 == decisions[1]  d2 == decisions[2] IN
  /\ Len(decisions) >= 2 /\ learns < MaxLearn /\ learns' = learns + 1
  /\ qtable' = [f \in Feature |-> IF engine.selective_update /\ f \notin d1.consensus THEN qtable[f]
                                  ELSE updateQ(f, d1, r.value, d2)]
  /\ weight' = [f \in Feature |-> Adjusted(f, d1.consensus, r.kind)]
  /\ decisions' = Tail(decisions)
  /\ UNCHANGED engine

LearningInit ==
  /\ engine \in EngineKnobs
  /\ qtable = [f \in Feature |-> [t \in Tiling |-> [i \in Tile |-> [a \in Action |-> InitValue]]]]
  /\ weight = [f \in Feature |-> FirstWeight]
  /\ decisions = <<>> /\ learns = 0

LearningNext == (\E s \in AgentState : chooseAction(s)) \/ (\E r \in AgentReward : learn(r))

LearningSpec == LearningInit /\ [][LearningNext]_learningVars

-----------------------------------------------------------------------------
(***************************************************************************)
(* Properties.                                                             *)
(***************************************************************************)

\* No Q-value grows without bound: whatever the order of rewards and the states
\* that share a tile, each stays within the greatest reward / (1 - gamma), but for
\* the rounding: by less than one.
QBounded ==
  \A f \in Feature, t \in Tiling, i \in Tile, a \in Action :
    (Magnitude(qtable[f][t][i][a]) - 1) * (gamma_den - gamma_num) < MaxReward * gamma_den

\* When all features would choose one action for what they know of it, the engine
\* does too, whatever the pooling, the weights and the ties, and all are in the
\* consensus.  Action 0 under the fallback is another matter: a feature may fall
\* back where the pooled values do not, and bandwidth may forbid the fallback to
\* the engine alone.
UnanimousChosen ==
  \A s \in AgentState, a \in Action :
    (a # 0 \/ ~engine.enable_action_fallback) /\ Consensus(s, a) = Feature =>
      \A fallback \in do_fallback : MaxAction(s, fallback) = a

\* What the engine has learned stays bounded and decides its choice.
LearningSound == QBounded /\ UnanimousChosen
=============================================================================
